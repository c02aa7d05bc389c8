--------------------------- MODULE WriteAdmission ---------------------------
(***************************************************************************)
(* How writes are admitted to the fragments table: the quota of an API key *)
(* (fragment_limit), idempotency keys, and the locks that remember and     *)
(* batch_remember take.                                                    *)
(*                                                                         *)
(* A client is one request of the server.  A step is one SQL statement,    *)
(* READ COMMITTED, or what JavaScript does until the next await.  A row    *)
(* is identified by its owner and its content, which the unique indexes    *)
(* on content_hash allow once.  A transaction keeps what it wrote to       *)
(* itself and holds those rows until it ends; a row inserted for an API    *)
(* key takes a share lock on the key's row in api_keys (the foreign key).  *)
(*                                                                         *)
(* The model follows one owner, an API key or the master (key_id NULL):    *)
(* requests of two owners have no row, lock or cache entry in common.      *)
(* Working memory (scope "session"), agents and what follows the insert    *)
(* (index, links, supersedes) are not part of this module.                 *)
(***************************************************************************)
EXTENDS Integers, Sequences, FiniteSets

CONSTANTS Clients,
          Contents,
          IdemKeys,     \* idempotency keys
          None,
          Limits,       \* values fragment_limit of the key may have
          Margins,      \* values of QUOTA_NEAR_LIMIT_MARGIN the server may be started with
          Requests      \* what clients may ask for

Ops == {"usage", "remember", "batch"}

\* One fragment a request brings: its content and idempotency key, if any.
Items == [x : Contents, ik : IdemKeys \cup {None}]

ASSUME NamesAssumption ==
    None \notin Clients \cup IdemKeys \cup Nat
ASSUME LimitAssumption == Limits \subseteq Nat /\ Margins \subseteq Nat
ASSUME FiniteAssumption == IsFiniteSet(Clients) /\ Clients # {} /\ IsFiniteSet(Contents)
ASSUME RequestAssumption ==
    \A r \in Requests :
        /\ r \in [op : Ops, items : Seq(Items)]
        /\ r.op = "usage" => r.items = <<>>
        /\ r.op = "remember" => Len(r.items) = 1
        /\ r.op = "batch" => Len(r.items) > 0

VARIABLES keyed,     \* the owner is an API key
          atomic,    \* WEASLEY_DEEPMIND_REMEMBER_ATOMIC
          limit,     \* fragment_limit of the key
          margin,    \* QUOTA_NEAR_LIMIT_MARGIN
          frag,      \* content -> the owner's row of fragments, committed
          keyLock,   \* who holds the key's row of api_keys FOR UPDATE, or None
          usage,     \* cached count of current fragments, or None
          cl         \* client -> request in progress

vars == <<keyed, atomic, limit, margin, frag, keyLock, usage, cl>>

\* ik is the column idempotency_key, by the key of the request that made the row.
NoRow == [st |-> "none", ik |-> None, by |-> None]
Rows  == [st : {"none", "live", "past"}, ik : IdemKeys \cup {None}, by : IdemKeys \cup {None}]

Idle == [pc |-> "idle", op |-> "none", items |-> <<>>, wrote |-> {}, seen |-> 0]

Init ==
    /\ keyed \in BOOLEAN /\ atomic \in BOOLEAN
    /\ limit \in Limits /\ margin \in Margins
    /\ frag = [x \in Contents |-> NoRow]
    /\ keyLock = None
    /\ usage = None
    /\ cl = [c \in Clients |-> Idle]

-----------------------------------------------------------------------------
Current   == {x \in Contents : frag[x].st = "live"}
Count     == Cardinality(Current)
Item(c)   == Head(cl[c].items)
Stores(c) == cl[c].op = "remember"      \* the batch INSERT has no column idempotency_key

\* The transaction of client d holds the row of content x, or has inserted a row
\* with the idempotency key ik.
HoldsRow(d, x)   == \E w \in cl[d].wrote : w.x = x
HoldsIdem(d, ik) == /\ ik # None /\ Stores(d)
                    /\ \E w \in cl[d].wrote : w.ik = ik /\ frag[w.x].st = "none"
Free(x) == \A d \in Clients : ~HoldsRow(d, x)

\* The row that client c inserts next exists, or its own transaction wrote it.
Exists(c) == frag[Item(c).x].st # "none" \/ HoldsRow(c, Item(c).x)

\* What keeps the statement of client c waiting for client d.
Waits(c, d) ==
    /\ d # c
    /\ \/ /\ cl[c].pc \in {"precise", "lockA", "lockB", "lockAtomic", "share"}
          /\ keyed /\ keyLock = d
       \/ /\ cl[c].pc \in {"insert", "rows"} /\ cl[c].items # <<>>
          /\ \/ HoldsRow(d, Item(c).x)
             \/ ~Exists(c) /\ Stores(c) /\ HoldsIdem(d, Item(c).ik)
Waiting(c) == \E d \in Clients : Waits(c, d)

\* The unique index on idempotency_key refuses the row; expired rows count too.
Refused(c) ==
    /\ ~Exists(c) /\ Stores(c) /\ Item(c).ik # None
    /\ \E x \in Contents : frag[x].st # "none" /\ frag[x].ik = Item(c).ik

Go(c, label) == cl' = [cl EXCEPT ![c].pc = label]
Answer(c)    == cl' = [cl EXCEPT ![c] = Idle]

TakeKey(c, label) ==
    /\ keyLock = None
    /\ keyLock' = c
    /\ Go(c, label)
    /\ UNCHANGED <<keyed, atomic, limit, margin, frag, usage>>

\* COMMIT or ROLLBACK: the locks are gone.
Released(c) == IF keyLock = c THEN None ELSE keyLock

\* What the transaction of client c wrote becomes visible.
Committed(c) ==
    [x \in Contents |->
        IF frag[x].st = "none" /\ HoldsRow(c, x)
        THEN LET w == CHOOSE v \in cl[c].wrote : v.x = x
             IN  [st |-> "live", ik |-> IF Stores(c) THEN w.ik ELSE None, by |-> w.ik]
        ELSE frag[x]]

-----------------------------------------------------------------------------
(* QuotaChecker *)

\* A request starts.
Start(c, r, label) ==
    cl' = [cl EXCEPT ![c] = [pc |-> label, op |-> r.op, items |-> r.items,
                             wrote |-> {}, seen |-> 0]]

\* getUsage for its own sake: a dry run, or the rate-limit headers of a reply.
Usage(c, r) ==
    /\ cl[c].pc = "idle" /\ keyed /\ r.op = "usage"
    /\ Start(c, r, "check")
    /\ UNCHANGED <<keyed, atomic, limit, margin, frag, keyLock, usage>>

\* What follows from n fragments in use: with room to spare the request passes
\* without a lock, near the limit it is counted again.
Decide(c, n) ==
    IF cl[c].op = "usage" THEN Answer(c)
    ELSE cl' = [cl EXCEPT ![c].pc = IF limit - n > margin THEN "gate" ELSE "precise", ![c].seen = 0]

GetUsageCached(c) ==
    /\ cl[c].pc = "check" /\ usage # None
    /\ Decide(c, usage)
    /\ UNCHANGED <<keyed, atomic, limit, margin, frag, keyLock, usage>>

GetUsage(c) ==
    /\ cl[c].pc = "check" /\ usage = None
    /\ cl' = [cl EXCEPT ![c].pc = "counted", ![c].seen = Count]
    /\ UNCHANGED <<keyed, atomic, limit, margin, frag, keyLock, usage>>

CacheUsage(c) ==
    /\ cl[c].pc = "counted"
    /\ usage' = cl[c].seen
    /\ Decide(c, cl[c].seen)
    /\ UNCHANGED <<keyed, atomic, limit, margin, frag, keyLock>>

\* The entry is older than 10 s, or one of 1000 others has pushed it out.
CacheGone ==
    /\ usage # None
    /\ usage' = None
    /\ UNCHANGED <<keyed, atomic, limit, margin, frag, keyLock, cl>>

CheckLock(c) == cl[c].pc = "precise" /\ TakeKey(c, "checking")

\* Mutant: the exact check compares with > instead of >=.
CheckCount_OffByOne(c) ==
    /\ cl[c].pc = "checking"
    /\ IF Count > limit
       THEN Answer(c) /\ UNCHANGED usage
       ELSE Go(c, "gate") /\ usage' = None
    /\ keyLock' = Released(c)
    /\ UNCHANGED <<keyed, atomic, limit, margin, frag>>

\* Under the lock the fragments are counted again; the transaction ends here,
\* before the insert.
CheckCount(c) ==
    /\ cl[c].pc = "checking"
    /\ IF Count >= limit
       THEN Answer(c) /\ UNCHANGED usage
       ELSE Go(c, "gate") /\ usage' = None
    /\ keyLock' = Released(c)
    /\ UNCHANGED <<keyed, atomic, limit, margin, frag>>
-----------------------------------------------------------------------------
(* MemoryRememberer *)

\* _checkIdempotency: a current fragment with this key is the answer, and the
\* request is over.
Known(r) ==
    /\ r.items[1].ik # None
    /\ \E x \in Current : frag[x].ik = r.items[1].ik

\* The quota is checked first unless the key is checked in the transaction, or
\* the caller is the master.
Remember(c, r) ==
    /\ cl[c].pc = "idle" /\ r.op = "remember" /\ ~Known(r)
    /\ Start(c, r, IF keyed /\ ~atomic THEN "check" ELSE "gate")
    /\ UNCHANGED <<keyed, atomic, limit, margin, frag, keyLock, usage>>

\* The policy rules find nothing, or nothing that the key's hard gate refuses.
PolicyPass(c) ==
    /\ cl[c].pc = "gate"
    /\ Go(c, IF keyed /\ atomic THEN "lockAtomic" ELSE "insert")
    /\ UNCHANGED <<keyed, atomic, limit, margin, frag, keyLock, usage>>

\* SymbolicPolicyViolationError, for API keys only.
PolicyViolation(c) ==
    /\ cl[c].pc = "gate" /\ keyed
    /\ Answer(c)
    /\ UNCHANGED <<keyed, atomic, limit, margin, frag, keyLock, usage>>

\* The INSERT by itself: a known content is an update of its row; a new row of a
\* key needs the share lock before it is committed.
InsertKnown(c) ==
    /\ cl[c].pc = "insert" /\ ~Waiting(c) /\ (Exists(c) \/ Refused(c))
    /\ Answer(c)
    /\ UNCHANGED <<keyed, atomic, limit, margin, frag, keyLock, usage>>

InsertNew(c) ==
    /\ cl[c].pc = "insert" /\ ~Waiting(c) /\ ~Exists(c) /\ ~Refused(c)
    /\ cl' = [cl EXCEPT ![c].pc = "share", ![c].wrote = {Item(c)}]
    /\ UNCHANGED <<keyed, atomic, limit, margin, frag, keyLock, usage>>

InsertCommit(c) ==
    /\ cl[c].pc = "share"
    /\ keyed => keyLock = None
    /\ frag' = Committed(c)
    /\ Answer(c)
    /\ UNCHANGED <<keyed, atomic, limit, margin, keyLock, usage>>

AtomicLock(c) == cl[c].pc = "lockAtomic" /\ TakeKey(c, "countAtomic")

\* At the limit the transaction is rolled back; else it goes on to the INSERT.
AtomicCount(c) ==
    /\ cl[c].pc = "countAtomic"
    /\ IF Count >= limit
       THEN Answer(c) /\ keyLock' = Released(c)
       ELSE Go(c, "rows") /\ UNCHANGED keyLock
    /\ UNCHANGED <<keyed, atomic, limit, margin, frag, usage>>

-----------------------------------------------------------------------------
(* BatchRememberProcessor.process *)

\* The items have passed the validation.  The master has no quota.
Batch(c, r) ==
    /\ cl[c].pc = "idle" /\ r.op = "batch"
    /\ Start(c, r, IF keyed THEN "lockA" ELSE "rows")
    /\ UNCHANGED <<keyed, atomic, limit, margin, frag, keyLock, usage>>

\* The first n items; the others are refused with fragment_limit_exceeded.
Trim(items, n) == SubSeq(items, 1, IF n < Len(items) THEN n ELSE Len(items))

Room(c) == limit - Count

PhaseALock(c) == cl[c].pc = "lockA" /\ TakeKey(c, "countA")

\* The early check, in a transaction of its own.  An asynchronous batch is queued
\* after it and comes back as a batch of the worker.
PhaseACount(c) ==
    /\ cl[c].pc = "countA"
    /\ IF Room(c) <= 0
       THEN Answer(c)
       ELSE cl' = [cl EXCEPT ![c].pc = "lockB", ![c].items = Trim(@, Room(c))]
    /\ keyLock' = Released(c)
    /\ UNCHANGED <<keyed, atomic, limit, margin, frag, usage>>

\* Mutant: the second check does not lock the key.
PhaseBLock_None(c) ==
    /\ cl[c].pc = "lockB"
    /\ Go(c, "countB")
    /\ UNCHANGED <<keyed, atomic, limit, margin, frag, keyLock, usage>>

PhaseBLock(c) == cl[c].pc = "lockB" /\ TakeKey(c, "countB")

\* Mutant: the result of the early check is trusted.
PhaseBCount_Trust(c) ==
    /\ cl[c].pc = "countB"
    /\ Go(c, "rows")
    /\ UNCHANGED <<keyed, atomic, limit, margin, frag, keyLock, usage>>

\* The check again, in the transaction of the INSERT.
PhaseBCount(c) ==
    /\ cl[c].pc = "countB"
    /\ IF Room(c) <= 0
       THEN Answer(c) /\ keyLock' = Released(c)
       ELSE /\ cl' = [cl EXCEPT ![c].pc = "rows", ![c].items = Trim(@, Room(c))]
            /\ UNCHANGED keyLock
    /\ UNCHANGED <<keyed, atomic, limit, margin, frag, usage>>

\* The rows are inserted or updated in the order of the request, each held until
\* the end of the transaction.
InsertRow(c) ==
    /\ cl[c].pc = "rows" /\ cl[c].items # <<>> /\ ~Waiting(c) /\ ~Refused(c)
    /\ cl' = [cl EXCEPT ![c].items = Tail(@),
                        ![c].wrote = IF HoldsRow(c, Item(c).x) THEN @ ELSE @ \cup {Item(c)}]
    /\ UNCHANGED <<keyed, atomic, limit, margin, frag, keyLock, usage>>

\* A statement of the transaction fails (the unique index on idempotency_key,
\* or PostgreSQL ends a circle of waiting transactions): ROLLBACK.
Stuck(S) == \A c \in S : \E d \in S : Waits(c, d)
Circle(S) == Stuck(S) /\ \A T \in SUBSET S \ {{}, S} : ~Stuck(T)
Deadlocked(c) == \E S \in SUBSET Clients : c \in S /\ Circle(S)

Rollback(c) ==
    /\ \/ cl[c].pc = "rows" /\ cl[c].items # <<>> /\ ~Waiting(c) /\ Refused(c)
       \/ Deadlocked(c)
    /\ Answer(c)
    /\ keyLock' = Released(c)
    /\ UNCHANGED <<keyed, atomic, limit, margin, frag, usage>>

Commit(c) ==
    /\ cl[c].pc = "rows" /\ cl[c].items = <<>>
    /\ frag' = Committed(c)
    /\ keyLock' = Released(c)
    /\ Answer(c)
    /\ UNCHANGED <<keyed, atomic, limit, margin, usage>>

-----------------------------------------------------------------------------
(* What else happens to rows: each is one transaction on rows nobody holds. *)

Forget(x) ==
    /\ frag[x].st # "none" /\ Free(x)
    /\ frag' = [frag EXCEPT ![x] = NoRow]
    /\ UNCHANGED <<keyed, atomic, limit, margin, keyLock, usage, cl>>

\* valid_to is set: the row is superseded or merged.
Supersede(x) ==
    /\ frag[x].st = "live" /\ Free(x)
    /\ frag' = [frag EXCEPT ![x].st = "past"]
    /\ UNCHANGED <<keyed, atomic, limit, margin, keyLock, usage, cl>>

\* The content changes, to one that no row of the owner has.
Amend(x, y) ==
    /\ frag[x].st = "live" /\ Free(x)
    /\ frag[y].st = "none" /\ Free(y)
    /\ frag' = [frag EXCEPT ![y] = frag[x], ![x] = NoRow]
    /\ UNCHANGED <<keyed, atomic, limit, margin, keyLock, usage, cl>>

-----------------------------------------------------------------------------
Next ==
    \/ \E c \in Clients, r \in Requests : Usage(c, r) \/ Remember(c, r) \/ Batch(c, r)
    \/ \E c \in Clients :
          \/ GetUsageCached(c) \/ GetUsage(c) \/ CacheUsage(c)
          \/ CheckLock(c) \/ CheckCount(c)
          \/ PolicyPass(c) \/ PolicyViolation(c)
          \/ InsertKnown(c) \/ InsertNew(c) \/ InsertCommit(c)
          \/ AtomicLock(c) \/ AtomicCount(c)
          \/ PhaseALock(c) \/ PhaseACount(c) \/ PhaseBLock(c) \/ PhaseBCount(c)
          \/ InsertRow(c) \/ Rollback(c) \/ Commit(c)
    \/ CacheGone
    \/ \E x \in Contents : Forget(x) \/ Supersede(x)
    \/ \E x, y \in Contents : Amend(x, y)

Spec == Init /\ [][Next]_vars

-----------------------------------------------------------------------------
Labels == {"idle", "check", "counted", "precise", "checking", "gate", "insert", "share",
           "lockAtomic", "countAtomic", "lockA", "countA", "lockB", "countB", "rows"}

\* Every variable has its type.
TypeOK ==
    /\ keyed \in BOOLEAN /\ atomic \in BOOLEAN /\ limit \in Limits /\ margin \in Margins
    /\ frag \in [Contents -> Rows]
    /\ keyLock \in Clients \cup {None}
    /\ usage = None \/ usage \in 0 .. Cardinality(Contents)
    /\ \A c \in Clients :
          /\ cl[c].pc \in Labels
          /\ cl[c].wrote \subseteq Items /\ cl[c].seen \in 0 .. Cardinality(Contents)

\* A request that has been answered holds no lock on its key: every way out of a
\* transaction of QuotaChecker, _rememberAtomic and process ends it.
LocksReleased ==
    keyLock # None => keyed /\ cl[keyLock].pc \in {"checking", "countA", "countB", "countAtomic", "rows"}

\* With REMEMBER_ATOMIC no request takes a key past its quota ("TOCTOU fully
\* eliminated"), and a batch never does: only an insert outside a transaction can.
QuotaKept ==
    [][keyed /\ Count' > Count /\ Count' > limit
       => ~atomic /\ \E c \in Clients : cl[c].pc = "share" /\ cl'[c].pc = "idle"]_vars

\* Without it, where the margin covers the whole quota, a key exceeds its quota at
\* most by the requests that passed the exact check at the same time.
OvershootBounded ==
    keyed /\ margin >= limit => Count < limit + Cardinality(Clients)

\* With REMEMBER_ATOMIC all writers of a key lock the key first, so PostgreSQL
\* never ends one of them to break a circle of waiting transactions.
NoKeyDeadlock ==
    keyed /\ atomic => \A c \in Clients : ~Deadlocked(c)

\* The lock on a key's row always comes free: nobody keeps it on the way out, and
\* nobody waits for it in a circle.
KeyLocksEnd == TypeOK /\ LocksReleased /\ NoKeyDeadlock

\* Calls of one owner that repeat an idempotency key return the existing
\* fragment: no two current fragments were made for one key.
RetryKeepsOne ==
    \A x, y \in Current :
        frag[x].by # None /\ frag[x].by = frag[y].by => x = y
=============================================================================
