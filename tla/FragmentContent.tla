--------------------------- MODULE FragmentContent ---------------------------
(***************************************************************************)
(* The identity of a memory fragment: its owner, its content, the vector   *)
(* computed from the content and the archive of overwritten contents.      *)
(* lib/memory/write/FragmentWriter.js writes them for the clients,         *)
(* lib/memory/embedding/EmbeddingWorker.js computes the vectors in the     *)
(* background, and the garbage collector removes rows.                     *)
(*                                                                         *)
(* One SQL statement is one step; a transaction is several, and the row    *)
(* lock it takes (SELECT ... FOR UPDATE) makes every other writer of the   *)
(* row wait.  content_hash is a SHA-256 of the content, so the hash of the *)
(* unique indexes is represented by the content itself.  A vector is       *)
(* represented by the content it was computed from.                        *)
(***************************************************************************)
EXTENDS Naturals, FiniteSets

CONSTANTS
    Ids,        \* fragment ids; an id is used once (UUID)
    Contents,   \* fragment contents
    Keys,       \* API keys
    Master,     \* the master context, key_id NULL
    Group,      \* Group[k]: the keys whose fragments k may read
    Clients,    \* concurrent amend and forget requests
    Workers,    \* concurrent runs of the embedding worker and the backfill
    NoVec,      \* embedding NULL
    Free,       \* a row nobody has locked
    MaxDisruptions  \* bound on amendments started and vector computations lost

Owners == Keys \cup {Master}

ASSUME ContentAssumption ==
    /\ Ids # {} /\ Contents # {}
    /\ Group \in [Keys -> SUBSET Keys]
    /\ \A k \in Keys : k \in Group[k]
    /\ Master \notin Keys
    /\ NoVec \notin Contents
    /\ Free \notin Clients
    /\ MaxDisruptions \in Nat

VARIABLES
    live,         \* ids of the rows of the fragments table
    used,         \* ids ever given to a row
    key,          \* key_id of a row
    content,      \* content (and content_hash) of a row
    emb,          \* embedding column: the content the vector was computed from
    versions,     \* fragment_versions: pairs of id and archived content
    overwritten,  \* history: pairs of id and content that an UPDATE replaced
    lock,         \* the client that holds the row lock
    pc,           \* where a client's request stands
    caller,       \* key of a client's request
    target,       \* fragment id of a client's request
    patch,        \* new content of an amend request
    saved,        \* row content read under the lock
    busy,         \* the worker is computing a vector
    job,          \* fragment the worker computes for
    text,         \* content the worker read
    disruptions   \* amendments started and computations lost so far

table   == <<live, used, key, content, emb, versions, overwritten>>
request == <<pc, caller, target, patch, saved>>
worker  == <<busy, job, text>>
vars    == <<table, lock, request, worker, disruptions>>

Stages == {"idle", "found", "locked", "clear", "doomed", "owned"}

Init ==
    /\ live = {} /\ used = {} /\ versions = {} /\ overwritten = {}
    /\ key     \in [Ids -> {Master}]
    /\ content = [i \in Ids |-> CHOOSE c \in Contents : TRUE]
    /\ emb     = [i \in Ids |-> NoVec]
    /\ lock    = [i \in Ids |-> Free]
    /\ pc      = [r \in Clients |-> "idle"]
    /\ caller  = [r \in Clients |-> Master]
    /\ target  = [r \in Clients |-> CHOOSE i \in Ids : TRUE]
    /\ patch   = [r \in Clients |-> CHOOSE c \in Contents : TRUE]
    /\ saved   = [r \in Clients |-> CHOOSE c \in Contents : TRUE]
    /\ busy    = [w \in Workers |-> FALSE]
    /\ job     = [w \in Workers |-> CHOOSE i \in Ids : TRUE]
    /\ text    = [w \in Workers |-> CHOOSE c \in Contents : TRUE]
    /\ disruptions = 0

-----------------------------------------------------------------------------
(* Scopes *)

\* keyScopeClause: a key reads its own rows and those of its group.
Readable(k, i) == k = Master \/ (k \in Keys /\ key[i] \in Group[k])

\* The ownership checks of the write paths: the group does not count.
Owned_Group(k, i) == Readable(k, i)      \* Mutant: group members may write
Owned(k, i) == k = Master \/ key[i] = k

\* Another row of the same owner has content c: the unique indexes
\* uq_frag_hash_master and uq_frag_hash_per_key.
Taken(k, c, i) == \E j \in live \ {i} : key[j] = k /\ content[j] = c

-----------------------------------------------------------------------------
(* insert: one INSERT ... ON CONFLICT DO UPDATE.  On a conflict the row    *)
(* keeps its content and embedding, so only the other case is a step here. *)

Insert(k, c, i) ==
    /\ i \notin used
    /\ ~Taken(k, c, i)
    /\ live' = live \cup {i}
    /\ used' = used \cup {i}
    /\ key' = [key EXCEPT ![i] = k]
    /\ content' = [content EXCEPT ![i] = c]
    /\ emb' = [emb EXCEPT ![i] = NoVec]
    /\ UNCHANGED <<versions, overwritten, lock, request, worker, disruptions>>

-----------------------------------------------------------------------------
(* amend: MemoryRememberer.amend reads the fragment, FragmentWriter.update *)
(* then locks it, archives it, looks for a duplicate and updates it.       *)

AmendFind(r, k, i, c) ==
    /\ pc[r] = "idle"
    /\ disruptions < MaxDisruptions
    /\ i \in live /\ Readable(k, i)
    /\ pc' = [pc EXCEPT ![r] = "found"]
    /\ caller' = [caller EXCEPT ![r] = k]
    /\ target' = [target EXCEPT ![r] = i]
    /\ patch' = [patch EXCEPT ![r] = c]
    /\ saved' = [saved EXCEPT ![r] = content[i]]
    /\ disruptions' = disruptions + 1
    /\ UNCHANGED <<table, lock, worker>>

EndTx(r) ==
    /\ pc' = [pc EXCEPT ![r] = "idle"]
    /\ lock' = [i \in Ids |-> IF lock[i] = r THEN Free ELSE lock[i]]

AmendLock(r) ==
    /\ pc[r] = "found"
    /\ lock[target[r]] = Free
    /\ IF target[r] \in live /\ Owned(caller[r], target[r])
       THEN /\ pc' = [pc EXCEPT ![r] = "locked"]
            /\ lock' = [lock EXCEPT ![target[r]] = r]
            /\ saved' = [saved EXCEPT ![r] = content[target[r]]]
       ELSE /\ pc' = [pc EXCEPT ![r] = "idle"]
            /\ UNCHANGED <<lock, saved>>
    /\ UNCHANGED <<table, caller, target, patch, worker, disruptions>>

\* _diffUpdatableFields: a duplicate ends the transaction with merged: true.
AmendDup(r) ==
    /\ pc[r] = "locked"
    /\ IF Taken(key[target[r]], patch[r], target[r])
       THEN EndTx(r)
       ELSE /\ pc' = [pc EXCEPT ![r] = "clear"]
            /\ UNCHANGED lock
    /\ UNCHANGED <<table, caller, target, patch, saved, worker, disruptions>>

\* _runUpdate and COMMIT; the archive row becomes visible with the update.
\* A row inserted since the duplicate check makes the unique index refuse
\* the update: then AmendAbort is the only way on.
AmendWrite(r) ==
    /\ pc[r] = "clear"
    /\ ~Taken(key[target[r]], patch[r], target[r])
    /\ content' = [content EXCEPT ![target[r]] = patch[r]]
    /\ emb' = [emb EXCEPT ![target[r]] = NoVec]
    /\ versions' = versions \cup {<<target[r], saved[r]>>}
    /\ overwritten' = overwritten \cup {<<target[r], content[target[r]]>>}
    /\ EndTx(r)
    /\ UNCHANGED <<live, used, key, caller, target, patch, saved, worker, disruptions>>

\* A statement of the transaction fails: ROLLBACK.
AmendAbort(r) ==
    /\ pc[r] \in {"locked", "clear"}
    /\ EndTx(r)
    /\ UNCHANGED <<table, caller, target, patch, saved, worker, disruptions>>

-----------------------------------------------------------------------------
(* Deletions.  fragment_versions rows go with their fragment (CASCADE).    *)

Remove(S) ==
    /\ live' = live \ S
    /\ versions' = {v \in versions : v[1] \notin S}
    /\ overwritten' = {v \in overwritten : v[1] \notin S}
    /\ UNCHANGED <<used, key, content, emb>>

Unlocked(S) == \A i \in S : lock[i] = Free

\* forget(id): the read, the ownership check of delete() and the DELETE are
\* statements of their own.
ForgetFind(r, k, i) ==
    /\ pc[r] = "idle"
    /\ i \in live /\ Readable(k, i)
    /\ pc' = [pc EXCEPT ![r] = "doomed"]
    /\ caller' = [caller EXCEPT ![r] = k]
    /\ target' = [target EXCEPT ![r] = i]
    /\ UNCHANGED <<table, lock, patch, saved, worker, disruptions>>

ForgetOwn(r) ==
    /\ pc[r] = "doomed"
    /\ pc' = [pc EXCEPT ![r] =
                IF caller[r] = Master \/ (target[r] \in live /\ Owned(caller[r], target[r]))
                THEN "owned" ELSE "idle"]
    /\ UNCHANGED <<table, lock, caller, target, patch, saved, worker, disruptions>>

ForgetDelete(r) ==
    /\ pc[r] = "owned"
    /\ Unlocked({target[r]})
    /\ Remove({target[r]})
    /\ pc' = [pc EXCEPT ![r] = "idle"]
    /\ UNCHANGED <<lock, caller, target, patch, saved, worker, disruptions>>

\* A client gives up, or its statement fails, outside a transaction.
Quit(r) ==
    /\ pc[r] \in {"found", "doomed", "owned"}
    /\ pc' = [pc EXCEPT ![r] = "idle"]
    /\ UNCHANGED <<table, lock, caller, target, patch, saved, worker, disruptions>>

\* deleteByTopic, deleteMany: rows of one owner, in one transaction or
\* statement that waits for their locks.
DeleteOwned(k, S) ==
    /\ S # {} /\ \A i \in S : Owned(k, i)
    /\ Unlocked(S)
    /\ Remove(S)
    /\ UNCHANGED <<lock, request, worker, disruptions>>

\* deleteExpired: any rows that the expiry rules may select; which rows they
\* are depends on ages and scores that this module does not keep.
DeleteExpired(S) ==
    /\ S # {}
    /\ Unlocked(S)
    /\ Remove(S)
    /\ UNCHANGED <<lock, request, worker, disruptions>>

-----------------------------------------------------------------------------
(* Embedding worker and backfill: read rows without a vector, compute,     *)
(* store.  The computation takes seconds; the row may change or go.        *)

Select(w, i) ==
    /\ ~busy[w]
    /\ i \in live /\ emb[i] = NoVec
    /\ busy' = [busy EXCEPT ![w] = TRUE]
    /\ job' = [job EXCEPT ![w] = i]
    /\ text' = [text EXCEPT ![w] = content[i]]
    /\ UNCHANGED <<table, lock, request, disruptions>>

Store_ById(w) ==      \* Mutant: the UPDATE names the row only by its id
    /\ busy[w]
    /\ lock[job[w]] = Free
    /\ emb' = IF job[w] \in live THEN [emb EXCEPT ![job[w]] = text[w]] ELSE emb
    /\ busy' = [busy EXCEPT ![w] = FALSE]
    /\ UNCHANGED <<live, used, key, content, versions, overwritten,
                   lock, request, job, text, disruptions>>

Store_Never(w) ==     \* Mutant: the vector is dropped
    /\ busy[w]
    /\ busy' = [busy EXCEPT ![w] = FALSE]
    /\ UNCHANGED <<table, lock, request, job, text, disruptions>>

\* UPDATE ... WHERE id = .. AND content = .. AND embedding IS NULL.
Store(w) ==
    /\ busy[w]
    /\ lock[job[w]] = Free
    /\ emb' = IF job[w] \in live /\ content[job[w]] = text[w] /\ emb[job[w]] = NoVec
              THEN [emb EXCEPT ![job[w]] = text[w]]
              ELSE emb
    /\ busy' = [busy EXCEPT ![w] = FALSE]
    /\ UNCHANGED <<live, used, key, content, versions, overwritten,
                   lock, request, job, text, disruptions>>

\* The provider fails until the retries are used up, or the process dies.
Lose(w) ==
    /\ busy[w]
    /\ disruptions < MaxDisruptions
    /\ busy' = [busy EXCEPT ![w] = FALSE]
    /\ disruptions' = disruptions + 1
    /\ UNCHANGED <<table, lock, request, job, text>>

-----------------------------------------------------------------------------

ClientStep(r) ==
    \/ AmendLock(r) \/ AmendDup(r) \/ AmendWrite(r) \/ AmendAbort(r)
    \/ ForgetOwn(r) \/ ForgetDelete(r) \/ Quit(r)

WorkerStep(w) == Store(w) \/ \E i \in Ids : Select(w, i)

Next ==
    \/ \E k \in Owners, c \in Contents, i \in Ids : Insert(k, c, i)
    \/ \E r \in Clients, k \in Owners, i \in Ids, c \in Contents : AmendFind(r, k, i, c)
    \/ \E r \in Clients, k \in Owners, i \in Ids : ForgetFind(r, k, i)
    \/ \E r \in Clients : ClientStep(r)
    \/ \E k \in Owners, S \in SUBSET live : DeleteOwned(k, S)
    \/ \E S \in SUBSET live : DeleteExpired(S)
    \/ \E w \in Workers : WorkerStep(w)
    \/ \E w \in Workers : Lose(w)

Spec == Init /\ [][Next]_vars

\* Node runs every pending continuation; the backfill timer selects the rows
\* without a vector again and again (its batch is larger than Ids).
FairSpec ==
    /\ Spec
    /\ \A r \in Clients : WF_vars(ClientStep(r))
    /\ \A w \in Workers : WF_vars(Store(w))
    /\ \A w \in Workers, i \in Ids : SF_vars(Select(w, i))

-----------------------------------------------------------------------------
(* Properties *)

\* Rows exist only under ids that were handed out, a version archive belongs to
\* an id, and requests and workers stand where their code can stand.
TypeOK ==
    /\ live \in SUBSET Ids /\ used \in SUBSET Ids /\ live \subseteq used
    /\ key \in [Ids -> Owners]
    /\ content \in [Ids -> Contents]
    /\ emb \in [Ids -> Contents \cup {NoVec}]
    /\ versions \in SUBSET (Ids \X Contents)
    /\ overwritten \in SUBSET (Ids \X Contents)
    /\ lock \in [Ids -> Clients \cup {Free}]
    /\ pc \in [Clients -> Stages]
    /\ caller \in [Clients -> Owners]
    /\ target \in [Clients -> Ids]
    /\ patch \in [Clients -> Contents]
    /\ saved \in [Clients -> Contents]
    /\ busy \in [Workers -> BOOLEAN]
    /\ job \in [Workers -> Ids]
    /\ text \in [Workers -> Contents]
    /\ disruptions \in 0..MaxDisruptions

\* An owner never has two rows with one content, whatever inserts and
\* amendments race (insert's ON CONFLICT, update's duplicate check).
OneRowPerContent ==
    \A i, j \in live : i # j /\ key[i] = key[j] => content[i] # content[j]

\* A stored vector was computed from the content the row has now: a worker
\* that read the row before an amendment cannot publish a stale vector
\* (EmbeddingWorker's UPDATE compares content, update() clears embedding).
VectorMatchesContent ==
    \A i \in live : emb[i] # NoVec => emb[i] = content[i]

\* Every content that an amendment replaced is in the archive of its row,
\* also when two amendments of one row overlap (update() archives the row
\* it reads under the lock, not the snapshot amend() read before).
HistoryComplete == overwritten \subseteq versions

\* Whatever requests and workers overlap, a row's content is its owner's only
\* copy, its vector is of that content, and what it replaced is archived.
ContentSafe == OneRowPerContent /\ VectorMatchesContent /\ HistoryComplete

\* A request that changes or deletes a row is the owner's or the master's:
\* the group gives a key the right to read only (update, delete).
WritesByOwner ==
    [][\A r \in Clients :
         LET i == target[r]
         IN  pc[r] \in {"clear", "owned"} /\ pc'[r] = "idle" /\ i \in live
             /\ (i \notin live' \/ content'[i] # content[i])
             => caller[r] \in {Master, key[i]}]_vars

\* A row without a vector gets one, or goes: failed and stale computations
\* are repeated by the backfill.
EventuallyEmbedded ==
    \A i \in Ids : (i \in live /\ emb[i] = NoVec) ~> (i \notin live \/ emb[i] # NoVec)

-----------------------------------------------------------------------------
(* The inductive invariant behind the theorems of FragmentContentProofs.   *)

InTx(r) == pc[r] \in {"locked", "clear"}

\* A client inside its transaction holds the lock of its row, and what it
\* read there is still true.
TxHoldsRow ==
    \A r \in Clients : InTx(r) =>
        /\ lock[target[r]] = r
        /\ target[r] \in live
        /\ saved[r] = content[target[r]]
        /\ caller[r] \in {Master, key[target[r]]}

\* A row lock belongs to a transaction on that row.
LockHasOwner ==
    \A i \in Ids : lock[i] # Free => InTx(lock[i]) /\ target[lock[i]] = i

\* A passed ownership check stays true: ids are not reused and rows do not
\* change hands.
OwnedStays ==
    \A r \in Clients : pc[r] = "owned" => caller[r] \in {Master, key[target[r]]}

\* A request names a row that exists or existed.
TargetUsed ==
    \A r \in Clients : pc[r] # "idle" => target[r] \in used

IInv ==
    /\ TypeOK /\ TxHoldsRow /\ LockHasOwner /\ OwnedStays /\ TargetUsed
    /\ OneRowPerContent /\ VectorMatchesContent /\ HistoryComplete
=============================================================================
