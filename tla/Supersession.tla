----------------------------- MODULE Supersession -----------------------------
(***************************************************************************)
(* Which fragments are current.  A fragment stops being current when its   *)
(* valid_to is set: by the graph linker (lib/memory/link/GraphLinker.js,   *)
(* one run per embedding_ready event, several at once), by the stages of   *)
(* the consolidation cycle (lib/memory/consolidate, one at a time), or by  *)
(* a client's remember with "supersedes" (ConflictResolver.supersede).     *)
(* Each of them reads candidates, waits for a database or a language       *)
(* model, links the pair and then expires the loser; the rows may change   *)
(* in between.                                                             *)
(*                                                                         *)
(* One SQL statement or link transaction is one step.  A fragment stands   *)
(* for the fragments of one topic.  Similarities are percentages that      *)
(* depend on the contents; a vector always belongs to the row's content    *)
(* (VectorMatchesContent of the module FragmentContent).                   *)
(***************************************************************************)
EXTENDS Naturals, FiniteSets

CONSTANTS
    Ids,          \* fragment ids; an id is used once (UUID)
    Contents,     \* fragment contents
    Sim,          \* Sim[c][d]: cosine similarity of two contents in percent
    Kind,         \* Kind[i]: the fragment's type, fixed at its creation
    Keys,         \* API keys
    Master,       \* the master context, key_id NULL
    Linkers,      \* runs of linkFragment started by embedding_ready events
    Cons,         \* the consolidation cycle
    Clients,      \* requests to remember
    MinFragments, \* dedup.minFragments
    MinGroup,     \* compress.minGroup
    MaxClock,     \* bound on creation times
    MaxChanges,   \* bound on changes, with and without a listener: fragments
                  \* anchored, repeated, replaced, amended or forgotten, models
                  \* and stages that fail, restarts
    NoId          \* no fragment

Owners == Keys \cup {Master}
Procs  == Linkers \cup {Cons} \cup Clients

ASSUME SupersessionAssumption ==
    /\ Sim \in [Contents -> [Contents -> 0..100]]
    /\ \A c, d \in Contents : Sim[c][d] = Sim[d][c]
    /\ Master \notin Keys /\ NoId \notin Ids
    /\ Cons \notin Linkers \cup Clients /\ Linkers \cap Clients = {}
    /\ MinFragments \in Nat /\ MinGroup \in Nat /\ MaxClock \in Nat \ {0}
    /\ MaxChanges \in [BOOLEAN -> Nat]

VARIABLES
    live,      \* ids of the rows
    used,      \* ids ever given to a row
    key,       \* key_id
    content,   \* content
    emb,       \* ids of the rows with a vector
    valid,     \* ids of the rows whose valid_to is NULL
    anchor,    \* ids of the rows with is_anchor
    born,      \* created_at; equal times are possible
    clock,     \* the latest creation time
    link,      \* fragment_links: relation of an ordered pair
    pc,        \* where a process stands
    frag,      \* the fragment a process works on
    cands,     \* candidates it read: pairs of an id and a similarity
    task,      \* the row it is about to expire
    list,      \* work list of a consolidation stage: ids, or pairs of ids
    seen,      \* "processed" of the dedup stage
    lastCheck, \* frag:contradiction_check_at
    latest,    \* latestProcessed of the running contradiction stage
    pending,   \* frag:pending_contradictions
    caller,    \* key of a client's request
    listener,  \* embedding_ready has a listener: the worker's start succeeded
    changes,   \* number of such changes so far
    steadfast  \* steadfast: ids that have been anchors since they were inserted

rows    == <<live, used, key, content, emb, valid, anchor, born, clock>>
process == <<pc, frag, cands, task>>
cycle   == <<list, seen, lastCheck, latest, pending>>
vars    == <<rows, link, process, cycle, caller, changes, listener, steadfast>>

\* One more of the changes that are bounded.
Change == changes < MaxChanges[listener] /\ changes' = changes + 1

Relations == {"none", "related", "contradicts", "superseded_by"}

NoTask == [old |-> NoId, by |-> NoId, why |-> "none", then |-> "idle"]

Init ==
    /\ live = {} /\ used = {} /\ emb = {} /\ valid = {} /\ anchor = {}
    /\ key     = [i \in Ids |-> Master]
    /\ content = [i \in Ids |-> CHOOSE c \in Contents : TRUE]
    /\ born    = [i \in Ids |-> 0]
    /\ clock   = 0
    /\ link    = [e \in Ids \X Ids |-> "none"]
    /\ pc      = [p \in Procs |-> "idle"]
    /\ frag    = [p \in Procs |-> NoId]
    /\ cands   = [p \in Procs |-> {}]
    /\ task    = [p \in Procs |-> NoTask]
    /\ list = {} /\ seen = {} /\ lastCheck = 0 /\ latest = 0 /\ pending = {}
    /\ caller  = [r \in Clients |-> Master]
    /\ listener \in BOOLEAN
    /\ changes = 0
    /\ steadfast = {}

-----------------------------------------------------------------------------
(* Helpers *)

\* Similarity of two rows as a SELECT sees it: only rows with a vector count.
Likeness(i, j) == Sim[content[i]][content[j]]

\* What ORDER BY similarity DESC LIMIT n may return of the pairs S.
Closest(S, n) ==
    IF Cardinality(S) <= n THEN {S}
    ELSE {T \in SUBSET S :
             Cardinality(T) = n /\ \A t \in T, s \in S \ T : t[2] >= s[2]}

\* createLink: one row per ordered pair, a second call overwrites the
\* relation.  It fails if a row of the pair is gone (foreign keys).
CanLink(i, j) == i \in live /\ j \in live
CreateLink(i, j, rel) == link' = [link EXCEPT ![<<i, j>>] = rel]

Linked(i, j) == link[i, j] # "none" \/ link[j, i] # "none"

Goto(p, where) == pc' = [pc EXCEPT ![p] = where]

\* The process will expire row "old" in favour of "by" in its next step.
Plan(p, old, by, why, then) ==
    /\ task' = [task EXCEPT ![p] = [old |-> old, by |-> by, why |-> why, then |-> then]]
    /\ Goto(p, "expire")

\* A client may expire only rows of its own key; the server may expire any.
InScope(p, i) == p \in Clients => caller[p] \in {Master, key[i]}

\* UPDATE fragments SET valid_to = NOW() WHERE id = .. AND valid_to IS NULL.
\* If the statement fails, a linker, a client and the stages that catch errors
\* pair by pair go on without it; any other stage ends (StageFails).
Expire(p) ==
    /\ pc[p] = "expire"
    /\ LET t == task[p] IN
       \/ /\ t.old \in valid /\ InScope(p, t.old)
          /\ valid' = valid \ {t.old}
       \/ /\ t.old \notin valid \/ ~InScope(p, t.old) \/ p # Cons \/ t.then \in {"judge", "super"}
          /\ UNCHANGED valid
    /\ Goto(p, task[p].then)
    /\ task' = [task EXCEPT ![p] = NoTask]
    /\ UNCHANGED <<live, used, key, content, emb, anchor, born, clock, link,
                   frag, cands, cycle, caller, changes, steadfast, listener>>

-----------------------------------------------------------------------------
(* Clients *)

Row(k, c) == {i \in live : key[i] = k /\ content[i] = c}

\* autoLinkOnRemember: the fragments T a new "related" link may lead to are
\* current and visible to the key.
MayRelate(k, T) == Cardinality(T) <= 3 /\ \A j \in T : k \in {Master, key[j]}

\* autoLinkOnRemember, then the fragment named in params.supersedes, if any.
Relate(r, k, i, old) ==
    /\ \E T \in {T \in SUBSET (valid \ {i}) : MayRelate(k, T)} :
          link' = [e \in Ids \X Ids |-> IF e[1] = i /\ e[2] \in T THEN "related" ELSE link[e]]
    /\ frag' = [frag EXCEPT ![r] = i]
    /\ task' = [task EXCEPT ![r] = [NoTask EXCEPT !.old = IF old = i THEN NoId ELSE old]]
    /\ caller' = [caller EXCEPT ![r] = k]
    /\ Goto(r, IF old \in {NoId, i} THEN "idle" ELSE "supersede")

\* store.insert makes a new row.
Remember(r, k, c, a, old, i) ==
    /\ pc[r] = "idle" /\ i \notin used /\ Row(k, c) = {}
    /\ live' = live \cup {i} /\ used' = used \cup {i} /\ valid' = valid \cup {i}
    /\ key' = [key EXCEPT ![i] = k]
    /\ content' = [content EXCEPT ![i] = c]
    /\ \E t \in {clock, clock + 1} \cap (1..MaxClock) :
          clock' = t /\ born' = [born EXCEPT ![i] = t]
    /\ anchor' = IF a THEN anchor \cup {i} ELSE anchor
    /\ steadfast' = IF a THEN steadfast \cup {i} ELSE steadfast
    /\ IF old = NoId /\ ~a THEN UNCHANGED changes ELSE Change
    /\ Relate(r, k, i, old)
    /\ UNCHANGED <<emb, cands, cycle, listener>>

\* store.insert finds the row of the same owner and content: it may become an
\* anchor, and it stays expired if it was.
RememberAgain(r, k, c, a, old, i) ==
    /\ pc[r] = "idle" /\ i \in Row(k, c)
    /\ anchor' = IF a THEN anchor \cup {i} ELSE anchor
    /\ Change
    /\ Relate(r, k, i, old)
    /\ UNCHANGED <<live, used, key, content, emb, valid, born, clock, cands,
                   cycle, steadfast, listener>>

\* ConflictResolver.supersede: link, then expire within the caller's key.
Supersede(r) ==
    /\ pc[r] = "supersede"
    /\ LET old == task[r].old IN
       IF CanLink(old, frag[r])
       THEN /\ CreateLink(old, frag[r], "superseded_by")
            /\ Plan(r, old, frag[r], "client", "idle")
       ELSE /\ Goto(r, "idle")
            /\ task' = [task EXCEPT ![r] = NoTask]
            /\ UNCHANGED link
    /\ UNCHANGED <<rows, frag, cands, cycle, caller, changes, steadfast, listener>>

\* amend: new content, which drops the vector, or a new anchor flag.
Amend(i, c, a) ==
    /\ i \in live
    /\ c = content[i] \/ Row(key[i], c) = {}
    /\ content' = [content EXCEPT ![i] = c]
    /\ emb' = IF c = content[i] THEN emb ELSE emb \ {i}
    /\ anchor' = IF a THEN anchor \cup {i} ELSE anchor \ {i}
    /\ steadfast' = IF a THEN steadfast ELSE steadfast \ {i}
    /\ Change
    /\ UNCHANGED <<live, used, key, valid, born, clock, link, process, cycle,
                   caller, listener>>

\* forget and the expiry of rows; links go with their rows (CASCADE).
Forget(i) ==
    /\ i \in live
    /\ live' = live \ {i} /\ emb' = emb \ {i} /\ valid' = valid \ {i}
    /\ anchor' = anchor \ {i} /\ steadfast' = steadfast \ {i}
    /\ link' = [e \in Ids \X Ids |-> IF i \in {e[1], e[2]} THEN "none" ELSE link[e]]
    /\ Change
    /\ UNCHANGED <<used, key, content, born, clock, process, cycle, caller,
                   listener>>

\* A worker without listeners stores a vector (the stage embeddings_backfill
\* and RememberPostProcessor without a queue make such workers).
Embed(i) ==
    /\ i \in live \ emb
    /\ emb' = emb \cup {i}
    /\ UNCHANGED <<live, used, key, content, valid, anchor, born, clock, link, process,
                   cycle, caller, changes, steadfast, listener>>

-----------------------------------------------------------------------------
(* GraphLinker.linkFragment, run by an embedding_ready event or by the     *)
(* stage retro_link.  Both call it with keyId null, and keyScopeClause     *)
(* then adds no condition on the key.                                      *)

LinkScope(i, j) == TRUE

Linking(p) == p \in Linkers \cup {Cons}

\* Where a run of linkFragment returns to.
After(p) == IF p = Cons THEN "retro" ELSE "idle"

\* The server's own worker stores a vector and emits embedding_ready; the
\* listener starts a run at once.
OnEmbeddingReady(p, i) ==
    /\ listener /\ p \in Linkers /\ pc[p] = "idle" /\ i \in live \ emb
    /\ emb' = emb \cup {i}
    /\ frag' = [frag EXCEPT ![p] = i]
    /\ Goto(p, "gate")
    /\ UNCHANGED <<live, used, key, content, valid, anchor, born, clock, link, cands, task,
                   cycle, caller, changes, steadfast, listener>>

\* Rows in the scope of the run that have a vector, with their similarity;
\* none once the fragment's own vector is gone.
Near(i) == {<<j, Likeness(i, j)>> : j \in {j \in emb \ {i} : i \in emb /\ LinkScope(i, j)}}

\* The dedup gate: a current row at 95 or more makes the new one a duplicate.
Gate(p) ==
    /\ Linking(p) /\ pc[p] = "gate"
    /\ \E T \in Closest({s \in Near(frag[p]) : s[1] \in valid /\ s[2] >= 90}, 1) :
          IF \E s \in T : s[2] >= 95
          THEN \E s \in T : Plan(p, frag[p], s[1], "duplicate", After(p))
          ELSE Goto(p, "read") /\ UNCHANGED task
    /\ UNCHANGED <<rows, link, frag, cands, cycle, caller, changes, steadfast,
                   listener>>

\* The second SELECT does not ask whether the candidates are current.
ReadCandidates(p) ==
    /\ Linking(p) /\ pc[p] = "read"
    /\ \E T \in Closest({s \in Near(frag[p]) : s[2] > 70}, 3) :
          cands' = [cands EXCEPT ![p] = T]
    /\ Goto(p, "link")
    /\ UNCHANGED <<rows, link, frag, task, cycle, caller, changes, steadfast,
                   listener>>

Newer_AnyAge(i, j, sim) ==         \* Mutant: the creation times are not compared
    sim > 85 /\ Kind[j] = Kind[i]

\* i supersedes j.
Newer(i, j, sim) == sim > 85 /\ Kind[j] = Kind[i] /\ born[i] > born[j]

\* The newer of two similar fragments of a type supersedes the older.
LinkCandidate(p, s) ==
    /\ Linking(p) /\ pc[p] = "link" /\ s \in cands[p]
    /\ cands' = [cands EXCEPT ![p] = @ \ {s}]
    /\ LET j == s[1]  i == frag[p]
           newer == Newer(i, j, s[2])
       IN IF CanLink(j, i)
          THEN /\ CreateLink(j, i, IF newer THEN "superseded_by" ELSE "related")
               /\ IF newer THEN Plan(p, j, i, "linker",
                                                                                 "link") ELSE UNCHANGED <<pc, task>>
          ELSE UNCHANGED <<link, pc, task>>
    /\ UNCHANGED <<rows, frag, cycle, caller, changes, steadfast, listener>>

LinkingEnds(p) ==
    /\ Linking(p) /\ pc[p] = "link" /\ cands[p] = {}
    /\ Goto(p, After(p))
    /\ UNCHANGED <<rows, link, frag, cands, task, cycle, caller, changes,
                   steadfast, listener>>

-----------------------------------------------------------------------------
(* The consolidation cycle.  A stage may find nothing or fail, and the     *)
(* next ones run all the same (_executeStages), so over several cycles     *)
(* stages follow one another in any order.                                 *)

StageEnds ==
    /\ \/ pc[Cons] \in {"retro", "dedup", "compress", "super"} /\ list = {}
       \/ pc[Cons] = "resolved"
    /\ Goto(Cons, "idle")
    /\ list' = {} /\ seen' = {}
    /\ UNCHANGED <<rows, link, frag, cands, task, lastCheck, latest, pending,
                   caller, changes, steadfast, listener>>

\* A stage reads its work list.
StartStage(stage, work) ==
    /\ pc[Cons] = "idle"
    /\ work # {}
    /\ list' = work
    /\ Goto(Cons, stage)
    /\ UNCHANGED <<rows, link, frag, cands, task, seen, lastCheck, latest, pending,
                   caller, changes, steadfast, listener>>

\* retro_link: rows with a vector and no links, current or not.
RetroLink ==
    StartStage("retro", {i \in emb : \A j \in Ids : ~Linked(i, j)})

RetroNext(i) ==
    /\ pc[Cons] = "retro" /\ i \in list
    /\ list' = list \ {i}
    /\ IF i \in emb
       THEN frag' = [frag EXCEPT ![Cons] = i] /\ Goto(Cons, "gate")
       ELSE UNCHANGED <<frag, pc>>
    /\ UNCHANGED <<rows, link, cands, task, seen, lastCheck, latest, pending,
                   caller, changes, steadfast, listener>>

\* semantic_dedup: the current rows of the topic, read once with their
\* vector; anchors among them are skipped.
SemanticDedup ==
    /\ Cardinality(valid \cap emb) >= MinFragments
    /\ StartStage("dedup", {<<i, content[i]>> : i \in (valid \cap emb) \ anchor})

Mergeable_Anchors(s) == s[2] >= 92      \* Mutant: candidate.is_anchor is not looked at
Mergeable(s) == s[2] >= 92 /\ s[1] \notin anchor

\* The next fragment, newest first, and the three current rows nearest to
\* the vector read before.
DedupNext(w) ==
    /\ pc[Cons] = "dedup" /\ w \in list
    /\ \A v \in list : born[v[1]] <= born[w[1]]
    /\ list' = list \ {w}
    /\ IF w[1] \in seen
       THEN UNCHANGED <<pc, frag, cands>>
       ELSE \E T \in Closest({<<j, Sim[w[2]][content[j]]>> : j \in (valid \cap emb) \ {w[1]}}, 3) :
              /\ cands' = [cands EXCEPT ![Cons] = {s \in T : Mergeable(s)}]
              /\ frag' = [frag EXCEPT ![Cons] = w[1]]
              /\ Goto(Cons, "merge")
    /\ UNCHANGED <<rows, link, task, seen, lastCheck, latest, pending, caller,
                   changes, steadfast, listener>>

\* One pair: the newer row is kept, the links between the two are deleted.
\* The two statements that would move the older row's links to the newer one
\* are UPDATE ... ON CONFLICT, which is not SQL; their errors are swallowed.
DedupMerge(s) ==
    /\ pc[Cons] = "merge" /\ s \in cands[Cons]
    /\ cands' = [cands EXCEPT ![Cons] = @ \ {s}]
    /\ LET i == frag[Cons]  j == s[1]
           keep == IF born[i] >= born[j] THEN i ELSE j
           old  == IF born[i] >= born[j] THEN j ELSE i
       IN IF j \in seen
          THEN UNCHANGED <<link, seen, pc, task>>
          ELSE /\ link' = [link EXCEPT ![<<old, keep>>] = "none", ![<<keep, old>>] = "none"]
               /\ seen' = seen \cup {old}
               /\ Plan(Cons, old, keep, "dedup", "merge")
    /\ UNCHANGED <<rows, frag, list, lastCheck, latest, pending, caller, changes,
                   steadfast, listener>>

DedupFragmentEnds ==
    /\ pc[Cons] = "merge" /\ cands[Cons] = {}
    /\ Goto(Cons, "dedup")
    /\ UNCHANGED <<rows, link, frag, cands, task, cycle, caller, changes,
                   steadfast, listener>>

\* compress_old_fragments: a group of old rows of little importance around
\* one of them; the most important, any of the group here, is kept.
CompressOldFragments(S, keeper) ==
    /\ pc[Cons] = "idle"
    /\ S \subseteq (valid \cap emb) \ anchor
    /\ Cardinality(S) >= MinGroup /\ keeper \in S
    /\ \E m \in S : \A j \in S \ {m} : Likeness(m, j) >= 80
    /\ frag' = [frag EXCEPT ![Cons] = keeper]
    /\ list' = {<<j, content[j]>> : j \in S \ {keeper}}
    /\ Goto(Cons, "compress")
    /\ UNCHANGED <<rows, link, cands, task, seen, lastCheck, latest, pending,
                   caller, changes, steadfast, listener>>

\* The "supersedes" link that follows violates the CHECK of relation_type
\* and its error is swallowed.
CompressOne(w) ==
    /\ pc[Cons] = "compress" /\ w \in list
    /\ list' = list \ {w}
    /\ Plan(Cons, w[1], frag[Cons], "compress", "compress")
    /\ UNCHANGED <<rows, link, frag, cands, seen, lastCheck, latest, pending,
                   caller, changes, steadfast, listener>>

\* promote_anchors: rows often used and important, any rows here.
PromoteAnchors(S) ==
    /\ pc[Cons] = "idle" /\ S # {} /\ S \subseteq live \ anchor
    /\ anchor' = anchor \cup S
    /\ Change
    /\ UNCHANGED <<live, used, key, content, emb, valid, born, clock, link, process,
                   cycle, caller, steadfast, listener>>

-----------------------------------------------------------------------------
(* ContradictionDetector: three stages that ask a classifier or a language *)
(* model about pairs of fragments of one key.                              *)

\* Rows created since the last check, newest first, current or not.
DetectContradictions ==
    /\ StartStage("contra", {i \in emb : born[i] > lastCheck})

ContraScope_None(i, j) == TRUE       \* Mutant: the SELECT does not compare keys
ContraScope(i, j) == key[i] = key[j]

ContraNext(i) ==
    /\ pc[Cons] = "contra" /\ i \in list
    /\ \A j \in list : born[j] <= born[i]
    /\ list' = list \ {i}
    /\ \E T \in Closest({s \in {<<j, Likeness(i, j)>> : j \in emb \ {i}} :
                           /\ i \in emb /\ s[2] > 85 /\ ContraScope(i, s[1])
                           /\ link[i, s[1]] # "contradicts" /\ link[s[1], i] # "contradicts"}, 3) :
          cands' = [cands EXCEPT ![Cons] = T]
    /\ frag' = [frag EXCEPT ![Cons] = i]
    /\ Goto(Cons, "judge")
    /\ UNCHANGED <<rows, link, task, seen, lastCheck, latest, pending, caller,
                   changes, steadfast, listener>>

Checked(i) == latest' = IF born[i] > latest THEN born[i] ELSE latest

\* The guard of resolveContradiction as detectContradictions reaches it: the
\* candidate's key was not selected and reads as null.
Resolvable(i, j) == key[i] = Master

\* The first link of resolveContradiction.  If a row is gone the statement
\* fails and the stage with it.
ResolveStart(i, j, then) ==
    /\ CreateLink(i, j, "contradicts")
    /\ task' = [task EXCEPT ![Cons] =
                  [old  |-> IF born[i] > born[j] THEN j ELSE i,
                   by   |-> IF born[i] > born[j] THEN i ELSE j,
                   why  |-> "contradiction",
                   then |-> then]]
    /\ Goto(Cons, "resolve")

JudgeYes(s) ==
    /\ pc[Cons] = "judge" /\ s \in cands[Cons]
    /\ cands' = [cands EXCEPT ![Cons] = @ \ {s}]
    /\ LET i == frag[Cons] IN
       IF Resolvable(i, s[1])
       THEN CanLink(i, s[1]) /\ ResolveStart(i, s[1], "judge") /\ UNCHANGED latest
       ELSE Checked(i) /\ UNCHANGED <<link, task, pc>>
    /\ UNCHANGED <<rows, frag, list, seen, lastCheck, pending, caller, changes,
                   steadfast, listener>>

\* Not a contradiction; or the model fails, and nothing is recorded.
JudgeNo(s) ==
    /\ pc[Cons] = "judge" /\ s \in cands[Cons]
    /\ cands' = [cands EXCEPT ![Cons] = @ \ {s}]
    /\ Checked(frag[Cons]) \/ UNCHANGED latest
    /\ UNCHANGED <<rows, link, pc, frag, task, list, seen, lastCheck, pending,
                   caller, changes, steadfast, listener>>

\* No model is available: a very similar pair is kept for later.
JudgeLater(s) ==
    /\ pc[Cons] = "judge" /\ s \in cands[Cons] /\ s[2] > 92
    /\ cands' = [cands EXCEPT ![Cons] = @ \ {s}]
    /\ pending' = pending \cup {<<frag[Cons], s[1]>>}
    /\ Change
    /\ UNCHANGED <<rows, link, pc, frag, task, list, seen, lastCheck, latest,
                   caller, steadfast, listener>>

JudgeEnds ==
    /\ pc[Cons] = "judge" /\ cands[Cons] = {}
    /\ Goto(Cons, "contra")
    /\ UNCHANGED <<rows, link, frag, cands, task, cycle, caller, changes,
                   steadfast, listener>>

\* updateContradictionTimestamp.
ContraEnds ==
    /\ pc[Cons] = "contra" /\ list = {}
    /\ Goto(Cons, "idle")
    /\ lastCheck' = IF latest = 0 THEN lastCheck ELSE latest
    /\ latest' = 0
    /\ UNCHANGED <<rows, link, frag, cands, task, list, seen, pending, caller,
                   changes, steadfast, listener>>

\* resolveContradiction: the newer fragment wins; the loser's link may
\* overwrite the "contradicts" link of the pair.  If it fails, the stage does,
\* or goes on with the next pair (when it was the language model that judged).
\* The audit record stored at the end is one more Remember of the master.
ResolveLink ==
    /\ pc[Cons] = "resolve"
    /\ LET t == task[Cons] IN
       \/ /\ CanLink(t.old, t.by)
          /\ CreateLink(t.old, t.by, "superseded_by") /\ Goto(Cons, "expire")
          /\ IF t.then = "judge" THEN Checked(frag[Cons]) ELSE UNCHANGED latest
          /\ UNCHANGED task
       \/ /\ ~CanLink(t.old, t.by) /\ Goto(Cons, "fail")
          /\ UNCHANGED <<link, task, latest>>
       \/ /\ ~CanLink(t.old, t.by) /\ t.then = "judge" /\ Goto(Cons, "judge")
          /\ task' = [task EXCEPT ![Cons] = NoTask]
          /\ UNCHANGED <<link, latest>>
    /\ UNCHANGED <<rows, frag, cands, list, seen, lastCheck, pending, caller, changes,
                   steadfast, listener>>

\* A statement fails and the stage ends with it; an entry of the pending
\* list is put back.
StageFails ==
    /\ pc[Cons] # "idle"
    /\ pending' = IF pc[Cons] = "pending" \/ task[Cons].then = "resolved"
                  THEN pending \cup list ELSE pending
    /\ Goto(Cons, "idle")
    /\ cands' = [cands EXCEPT ![Cons] = {}]
    /\ task' = [task EXCEPT ![Cons] = NoTask]
    /\ list' = {} /\ seen' = {} /\ latest' = 0
    /\ Change
    /\ UNCHANGED <<rows, link, frag, lastCheck, caller, steadfast, listener>>

\* process_pending_contradictions: one entry; the pair is read again.
PendingPop(e) ==
    /\ pc[Cons] = "idle" /\ e \in pending
    /\ pending' = pending \ {e}
    /\ list' = {e}
    /\ Goto(Cons, "pending")
    /\ UNCHANGED <<rows, link, frag, cands, task, seen, lastCheck, latest,
                   caller, changes, steadfast, listener>>

PendingJudge(e) ==
    /\ pc[Cons] = "pending" /\ e \in list
    /\ \/ /\ CanLink(e[1], e[2]) /\ key[e[1]] = key[e[2]]
          /\ ResolveStart(e[1], e[2], "resolved")
       \/ /\ Goto(Cons, "resolved")
          /\ UNCHANGED <<link, task>>
    /\ UNCHANGED <<rows, frag, cands, cycle, caller, changes, steadfast, listener>>

\* detect_supersessions: pairs <<older, newer>> of current rows of one key
\* and type that are similar and have no link.
SupersessionPairs ==
    {e \in (valid \cap emb) \X (valid \cap emb) :
        /\ e[1] # e[2] /\ born[e[1]] <= born[e[2]]
        /\ Kind[e[1]] = Kind[e[2]] /\ key[e[1]] = key[e[2]]
        /\ Likeness(e[1], e[2]) \in 70..85 /\ ~Linked(e[1], e[2])}

\* Two rows of the same creation time form one pair, either way round.
DetectSupersessions ==
    \E S \in SUBSET SupersessionPairs :
        /\ \A e \in S : <<e[2], e[1]>> \notin S
        /\ \A e \in SupersessionPairs : e \in S \/ <<e[2], e[1]>> \in S
        /\ StartStage("super", S)

SupersessionYes(e) ==
    /\ pc[Cons] = "super" /\ e \in list
    /\ CanLink(e[1], e[2])
    /\ list' = list \ {e}
    /\ CreateLink(e[1], e[2], "superseded_by")
    /\ Plan(Cons, e[1], e[2], "supersession", "super")
    /\ UNCHANGED <<rows, frag, cands, seen, lastCheck, latest, pending, caller,
                   changes, steadfast, listener>>

SupersessionNo(e) ==
    /\ pc[Cons] = "super" /\ e \in list
    /\ list' = list \ {e}
    /\ UNCHANGED <<rows, link, process, seen, lastCheck, latest, pending, caller,
                   changes, steadfast, listener>>

-----------------------------------------------------------------------------

\* The server stops and starts again: what it had in memory is gone.
Restart ==
    /\ \E p \in Procs : pc[p] # "idle"
    /\ pc'    = [p \in Procs |-> "idle"]
    /\ cands' = [p \in Procs |-> {}]
    /\ task'  = [p \in Procs |-> NoTask]
    /\ list' = {} /\ seen' = {} /\ latest' = 0
    /\ Change
    /\ UNCHANGED <<rows, link, frag, lastCheck, pending, caller, steadfast,
                   listener>>

ClientNext ==
    \/ \E r \in {r \in Clients : pc[r] = "idle"}, k \in Owners, c \in Contents :
          \E a \in BOOLEAN, old \in live \cup {NoId} :
             \/ \E i \in Ids \ used : Remember(r, k, c, a, old, i)
             \/ \E i \in Row(k, c) : RememberAgain(r, k, c, a, old, i)
    \/ \E r \in Clients : Supersede(r)
    \/ \E i \in live : Forget(i) \/ Embed(i) \/ \E c \in Contents, a \in BOOLEAN : Amend(i, c, a)

LinkerNext(p) ==
    \/ \E i \in Ids : OnEmbeddingReady(p, i)
    \/ Gate(p) \/ ReadCandidates(p) \/ LinkingEnds(p)
    \/ \E s \in cands[p] : LinkCandidate(p, s)

ConsNext ==
    \/ RetroLink \/ SemanticDedup \/ DetectContradictions \/ DetectSupersessions
    \/ \E S \in SUBSET live : PromoteAnchors(S) \/ \E i \in S : CompressOldFragments(S, i)
    \/ \E e \in pending : PendingPop(e)
    \/ \E w \in list :
          \/ RetroNext(w) \/ ContraNext(w) \/ DedupNext(w) \/ CompressOne(w)
          \/ PendingJudge(w) \/ SupersessionYes(w) \/ SupersessionNo(w)
    \/ \E s \in cands[Cons] : DedupMerge(s) \/ JudgeYes(s) \/ JudgeNo(s) \/ JudgeLater(s)
    \/ DedupFragmentEnds \/ JudgeEnds \/ ContraEnds \/ ResolveLink \/ StageEnds \/ StageFails

Next ==
    \/ ClientNext
    \/ \E p \in Linkers \cup {Cons} : LinkerNext(p)
    \/ ConsNext
    \/ \E p \in Procs : Expire(p)
    \/ Restart

Spec == Init /\ [][Next]_vars

-----------------------------------------------------------------------------
(* Properties *)

Reasons == {"duplicate", "linker", "dedup", "compress", "contradiction", "supersession", "client"}

Places == {"idle", "supersede", "expire", "gate", "read", "link", "retro",
           "dedup", "merge", "compress", "contra", "judge", "resolve", "fail", "pending",
           "resolved", "super"}

\* A row that is current, is an anchor or has a vector is a row; processes
\* stand where their code can stand.
TypeOK ==
    /\ live \subseteq used /\ used \subseteq Ids
    /\ valid \subseteq live /\ emb \subseteq live /\ anchor \subseteq live
    /\ steadfast \subseteq anchor
    /\ key \in [Ids -> Owners] /\ content \in [Ids -> Contents]
    /\ born \in [Ids -> 0..MaxClock] /\ clock \in 0..MaxClock
    /\ link \in [Ids \X Ids -> Relations]
    /\ pc \in [Procs -> Places]
    /\ frag \in [Procs -> Ids \cup {NoId}]
    /\ cands \in [Procs -> SUBSET (Ids \X (0..100))]
    /\ task \in [Procs -> [old : Ids \cup {NoId}, by : Ids \cup {NoId},
                           why : Reasons \cup {"none"}, then : Places]]
    /\ list \subseteq Ids \cup (Ids \X Ids) \cup (Ids \X Contents)
    /\ seen \subseteq Ids /\ pending \subseteq Ids \X Ids
    /\ lastCheck \in 0..MaxClock /\ latest \in 0..MaxClock
    /\ caller \in [Clients -> Owners]
    /\ listener \in BOOLEAN /\ changes \in 0..MaxChanges[listener]

\* Process p sets valid_to of row "old" for a reason of the set W.
Expires(p, old, W) ==
    /\ pc[p] = "expire" /\ pc'[p] # "expire"
    /\ task[p].old = old /\ task[p].why \in W
    /\ old \in valid \ valid'

\* History is read along superseded_by links (HistoryReconstructor,
\* fragment_history): unless it is the link a client asks for, such a link
\* never leads to an older fragment, whichever of the linker, the contradiction
\* and the supersession stage creates it and however they overlap.
SupersededByYounger ==
    [][\A i, j \in Ids :
          link'[i, j] = "superseded_by" /\ link[i, j] # "superseded_by"
          /\ (\A r \in Clients : pc[r] = "supersede" => pc'[r] = "supersede")
          => born[i] <= born[j]]_vars

\* The contradiction and supersession stages expire a fragment only in favour
\* of one of the same key ("cross-tenant" comments of ContradictionDetector),
\* whatever happened while the model was judging the pair.
DetectorKeepsTenants ==
    [][\A old \in Ids :
          Expires(Cons, old, {"contradiction", "supersession"})
          => key[old] = key[task[Cons].by]]_vars

\* A fragment that has been an anchor since it was stored is never merged away
\* by the dedup stage or compressed ("anchors are excluded from merging"),
\* though both work on lists they read earlier.
AnchorsExempt ==
    [][\A old \in Ids : Expires(Cons, old, {"dedup", "compress"}) => old \notin steadfast]_vars

\* Keys are isolated: the server expires a fragment only in favour of one of
\* the same key (GraphLinker: "the SELECT guarantees the same key_id";
\* semantic_dedup: "within topic and key_id scope").
TenantIsolation ==
    [][\A p \in Procs, old \in Ids :
          Expires(p, old, Reasons \ {"client"}) => key[old] = key[task[p].by]]_vars

=============================================================================
