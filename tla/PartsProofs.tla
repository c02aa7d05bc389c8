---------------------------- MODULE PartsProofs ----------------------------
(***************************************************************************)
(* The properties of the components in Parts, for every value of their     *)
(* parameters that its assumptions allow.  Each part has an inductive      *)
(* invariant of its own, named ...IInv, with the lemmas that its first     *)
(* states satisfy it (...Init) and its steps keep it (...Next); MCParts is *)
(* the instance on which TLC checks the same properties.                   *)
(***************************************************************************)
EXTENDS Parts, Integers, Sequences, FiniteSetTheorems, TLAPS

---------------------------------------------------------------------------
(* The read path.                                                          *)

\* Where a recall keeps the hits of its layers
Places == {"cached", "graph", "l2", "l3", "temporal"}

\* The locals of a recall
Shaped(k) ==
  /\ {"pc", "q", "since", "l1", "fallback", "hits", "todo", "found", "out", "linked", "nearby"}
       \subseteq DOMAIN k
  /\ Places \subseteq DOMAIN k.found

\* It knows the versions there were when it was asked
Asking(k) ==
  k.pc # "idle" => /\ k.q \in Recalls
                   /\ \A f \in Fragments : k.since[f] \in Nat /\ k.since[f] <= rows[f].ver

\* A row that may be an answer to it
Good(x, k) ==
  /\ x.id \in Fragments /\ x.row.live /\ x.row.ver \in Nat /\ x.row.ver >= k.since[x.id]
  /\ Recall!Scoped(x.row, k.q)

HitsGood(k) ==
  /\ \A l \in Places : \A x \in k.found[l] : Good(x, k)
  /\ \A x \in k.out : Good(x, k)

\* What is attached to its rows: current, but in a scope of its own or in none
Given(x, k) ==
  /\ x.id \in Fragments /\ x.row.live /\ x.row.ver \in Nat /\ x.row.ver >= k.since[x.id]
  /\ x.row.cur /\ x.of \in Recall!Ids(k.out)

AttachedGood(k) ==
  /\ \A x \in k.linked \cup k.nearby : Given(x, k)
  /\ \A x \in k.nearby : Recall!OwnOk(x.row, k.q)

\* The rows it asks for that nobody has touched
Untouched(k) ==
  {f \in Fragments : rows[f].live /\ rows[f].ver = k.since[f] /\ Recall!Matches(rows[f], k.q)}

Structured(k) == k.pc # "idle" /\ k.q.by # None /\ ~k.q.text

\* S has them all, or as many matching rows as the LIMIT of L2
Full(k, S) ==
  \/ Untouched(k) \subseteq Recall!Ids(S)
  \/ Cardinality(Recall!Ids({x \in S : Recall!Matches(x.row, k.q)})) >= QueryLimit["l2"]

\* Its hits are full from the answer of L2 on
Covers(k) ==
  Structured(k) =>
    /\ k.pc = "clean" \/ (k.pc = "layers" /\ "l2" \notin k.todo) => Full(k, k.found["l2"])
    /\ k.pc \in {"links", "previews", "nearby", "done"} => Full(k, k.out)

\* What holds of one recall
CallInv(k) == Shaped(k) /\ Asking(k) /\ HitsGood(k) /\ AttachedGood(k) /\ Covers(k)

\* The rows are rows
RowsTyped == rows \in [Fragments -> Row]

\* Sound and StructuredComplete speak of recalls that are done; the invariant says of every
\* recall under way what its hits are and which rows they have
RecallIInv == RowsTyped /\ Callers \subseteq DOMAIN calls /\ \A c \in Callers : CallInv(calls[c])

---------------------------------------------------------------------------
(* What the queries return. *)

\* A row read now, live and in scope, is a good answer.
LEMMA SnapshotGood ==
  ASSUME RowsTyped, NEW k, Asking(k), k.pc # "idle", NEW f \in Fragments, rows[f].live,
         Recall!Scoped(rows[f], k.q)
  PROVE  Good([id |-> f, row |-> rows[f]], k)
  BY DEF RowsTyped, Row, Asking, Good

\* Every query of a recall asks for live rows in its scope, or scope.applyTo removes the
\* others (_getScopedByIds, searchByKeywords, searchBySemantic, searchByTimeRange).
LEMMA QueriesGood ==
  ASSUME RowsTyped, NEW k, Asking(k), k.pc # "idle"
  PROVE  /\ \A ids : \A x \in Recall!ByIds(ids, k.q) : Recall!ApplyTo(x.row, k.q) => Good(x, k)
         /\ \A x \in Recall!Matching(k.q) : Good(x, k)
         /\ \A x \in Recall!BySemantic(k.q) : Good(x, k)
         /\ \A x \in Recall!ByTime(k.q) : Good(x, k)
         /\ \A ids : \A x \in Recall!Neighbours(ids, k.q) : Good(x, k)
         /\ \A ids : \A x \in Recall!LinkedTo(ids, k.q) : Good(x, k)
  <1>1. ASSUME NEW ids, NEW x \in Recall!ByIds(ids, k.q), Recall!ApplyTo(x.row, k.q)  PROVE Good(x, k)
    BY <1>1, SnapshotGood DEF Recall!ByIds, Recall!Snap, Recall!ApplyTo, Recall!Scoped
  <1>2. ASSUME NEW x \in Recall!Matching(k.q)  PROVE Good(x, k)
    BY <1>2, SnapshotGood DEF Recall!Matching, Recall!Matches, Recall!Snap
  <1>3. ASSUME NEW x \in Recall!BySemantic(k.q)  PROVE Good(x, k)
    BY <1>3, SnapshotGood DEF Recall!BySemantic, Recall!Snap
  <1>4. ASSUME NEW x \in Recall!ByTime(k.q)  PROVE Good(x, k)
    BY <1>4, SnapshotGood DEF Recall!ByTime, Recall!Snap
  <1>5. ASSUME NEW ids, NEW x \in Recall!Neighbours(ids, k.q)  PROVE Good(x, k)
    BY <1>5, SnapshotGood DEF Recall!Neighbours, Recall!Snap, Recall!Scoped, Recall!CurOk
  <1>6. ASSUME NEW ids, NEW x \in Recall!LinkedTo(ids, k.q)  PROVE Good(x, k)
    BY <1>6, SnapshotGood DEF Recall!LinkedTo, Recall!Snap
  <1> QED  BY <1>1, <1>2, <1>3, <1>4, <1>5, <1>6

\* What is attached is read now, among the rows linked to those of the answer or of their
\* sessions (fetchLinkedFragments, searchBySource).
LEMMA AttachmentsGood ==
  ASSUME RowsTyped, NEW k, Asking(k), k.pc # "idle"
  PROVE  /\ \A x \in Recall!Previews(Recall!Ids(k.out)) : Given(x, k)
         /\ \A x \in Recall!Bundle(Recall!Ids(k.out), k.q) : Given(x, k) /\ Recall!OwnOk(x.row, k.q)
  <1>1. ASSUME NEW x \in Recall!Previews(Recall!Ids(k.out))  PROVE Given(x, k)
    <2>1. PICK l \in RowLinks : /\ x = [of |-> l[1], id |-> l[2], row |-> rows[l[2]]]
                               /\ l[1] \in Recall!Ids(k.out) /\ rows[l[2]].live /\ rows[l[2]].cur
      BY DEF Recall!Previews
    <2>2. l[2] \in Fragments
      BY RecallAssumption
    <2> QED  BY <2>1, <2>2 DEF Given, RowsTyped, Row, Asking
  <1>2. ASSUME NEW x \in Recall!Bundle(Recall!Ids(k.out), k.q)  PROVE Given(x, k) /\ Recall!OwnOk(x.row, k.q)
    <2>1. PICK n \in SameSession : /\ x = [of |-> n[1], id |-> n[2], row |-> rows[n[2]]]
                                  /\ n[1] \in Recall!Ids(k.out) /\ rows[n[2]].live
                                  /\ Recall!OwnOk(rows[n[2]], k.q)
      BY DEF Recall!Bundle
    <2>2. n[2] \in Fragments
      BY RecallAssumption
    <2> QED  BY <2>1, <2>2 DEF Given, RowsTyped, Row, Asking, Recall!OwnOk
  <1> QED  BY <1>1, <1>2

\* The operator is the one of the library.
LEMMA RecallCounts == ASSUME NEW S  PROVE Recall!Cardinality(S) = Cardinality(S)
  BY Zenon DEF Recall!Cardinality, Cardinality

\* A set of hits is full when it has the answer of a full one.
LEMMA FullGrows ==
  ASSUME NEW k, NEW S, NEW T, Full(k, S), S \subseteq T, \A x \in T : x.id \in Fragments
  PROVE  Full(k, T)
  <1> DEFINE A == {x \in S : Recall!Matches(x.row, k.q)}
             B == {x \in T : Recall!Matches(x.row, k.q)}
  <1>1. Recall!Ids(S) \subseteq Recall!Ids(T) /\ Recall!Ids(A) \subseteq Recall!Ids(B)
    BY DEF Recall!Ids
  <1>2. Recall!Ids(B) \subseteq Fragments
    BY DEF Recall!Ids
  <1>3. IsFiniteSet(Recall!Ids(B))
    BY <1>2, FragmentsAssumption, FS_Subset
  <1>4. /\ IsFiniteSet(Recall!Ids(A)) /\ Cardinality(Recall!Ids(A)) <= Cardinality(Recall!Ids(B))
        /\ Cardinality(Recall!Ids(A)) \in Nat /\ Cardinality(Recall!Ids(B)) \in Nat
    BY <1>1, <1>3, FS_Subset, FS_CardinalityType
  <1> HIDE DEF A, B
  <1>5. /\ Full(k, S) <=> Untouched(k) \subseteq Recall!Ids(S) \/ Cardinality(Recall!Ids(A)) >= QueryLimit["l2"]
        /\ Full(k, T) <=> Untouched(k) \subseteq Recall!Ids(T) \/ Cardinality(Recall!Ids(B)) >= QueryLimit["l2"]
    BY DEF Full, A, B
  <1> QED  BY <1>1, <1>4, <1>5, RecallAssumption

\* The query of L2 returns the untouched rows, or as many matching ones as its LIMIT.
LEMMA MatchingCovers ==
  ASSUME NEW k, NEW S \in Recall!Cuts(Recall!Matching(k.q), "l2")  PROVE Full(k, S)
  <1> DEFINE M == Recall!Matching(k.q)
  <1>1. S \subseteq M /\ (S = M \/ Cardinality(S) = QueryLimit["l2"])
    BY RecallCounts DEF Recall!Cuts
  <1>2. \A x \in M : x.id \in Fragments /\ x.row = rows[x.id] /\ x = [id |-> x.id, row |-> x.row]
                    /\ Recall!Matches(x.row, k.q)
    BY DEF Recall!Matching, Recall!Snap
  <1>3. CASE S = M
    <2> SUFFICES ASSUME NEW f \in Untouched(k)  PROVE f \in Recall!Ids(M)
      BY <1>3 DEF Full
    <2> DEFINE x == [id |-> f, row |-> rows[f]]
    <2>1. x \in M
      BY DEF Untouched, Recall!Matching, Recall!Snap
    <2>2. x.id = f
      OBVIOUS
    <2> HIDE DEF x, M
    <2> QED  BY <2>1, <2>2 DEF Recall!Ids
  <1>4. CASE Cardinality(S) = QueryLimit["l2"]
    <2> DEFINE I == Recall!Ids(S)
               g == [x \in S |-> x.id]
    <2> HIDE DEF M
    <2>1. I \subseteq Fragments
      BY <1>1, <1>2 DEF Recall!Ids
    <2>2. IsFiniteSet(I)
      BY <2>1, FragmentsAssumption, FS_Subset
    <2>3. \A x \in S : x.id \in I
      BY DEF Recall!Ids
    <2>4. \A x, y \in S : x.id = y.id => x = y
      BY <1>1, <1>2
    <2> HIDE DEF I
    <2>5. g \in Injection(S, I)
      BY <2>3, <2>4 DEF Injection, IsInjective
    <2>6. IsFiniteSet(S) /\ Cardinality(S) <= Cardinality(I)
      BY <2>2, <2>5, FS_Injection
    <2>7. {x \in S : Recall!Matches(x.row, k.q)} = S
      BY <1>1, <1>2
    <2> QED  BY <1>4, <2>6, <2>7 DEF Full, I
  <1> QED  BY <1>1, <1>3, <1>4

---------------------------------------------------------------------------
(* A step of a recall that finds good hits and covers what it must.  *)

\* A step of a recall that keeps its call well leaves the others be.
LEMMA Advance ==
  ASSUME NEW k, NEW r, CallInv(k), k.pc # "idle", Shaped(r), r.pc # "idle",
         r.q = k.q, r.since = k.since, Covers(r), AttachedGood(r),
         \A l \in Places : r.found[l] = k.found[l] \/ \A x \in r.found[l] : Good(x, k),
         \A x \in r.out : x \in k.out \/ Good(x, k)
  PROVE  CallInv(r)
  <1>1. \A x : Good(x, r) <=> Good(x, k)
    BY DEF Good
  <1>2. HitsGood(r)
    BY <1>1 DEF HitsGood, CallInv
  <1>3. Asking(r)
    BY DEF Asking, CallInv
  <1> QED  BY <1>2, <1>3 DEF CallInv

\* What is attached stays well when nothing more is.
LEMMA AttachedKept ==
  ASSUME NEW k, NEW r, CallInv(k), r.q = k.q, r.since = k.since,
         r.linked = k.linked, r.nearby = k.nearby, Recall!Ids(k.out) \subseteq Recall!Ids(r.out)
  PROVE  AttachedGood(r)
  BY DEF CallInv, AttachedGood, Given

\* The caller goes on with locals that are well.
LEMMA StepKept ==
  ASSUME RecallIInv, NEW c \in Callers, NEW r, CallInv(r), Recall!Become(c, r)  PROVE RecallIInv'
  <1>1. /\ rows' = rows /\ calls'[c] = r /\ Callers \subseteq DOMAIN calls'
        /\ \A d \in Callers \ {c} : calls'[d] = calls[d]
    BY DEF Recall!Become, RecallIInv
  <1>2. ASSUME NEW d \in Callers  PROVE CallInv(calls[d])'
    <2>1. CallInv(calls'[d])
      BY <1>1 DEF RecallIInv
    <2> QED  BY <1>1, <2>1 DEF CallInv, Shaped, Asking, HitsGood, Good, AttachedGood, Given,
                             Covers, Structured, Full, Untouched
  <1> QED  BY <1>1, <1>2 DEF RecallIInv, RowsTyped

(* Rows move one version on. *)
RowsMove ==
  /\ rows' \in [Fragments -> Row]
  /\ \A f \in Fragments : rows'[f] = rows[f] \/ rows'[f].ver = rows[f].ver + 1

\* A writer leaves the untouched rows and the hits of the recalls under way alone.
LEMMA RowsKept ==
  ASSUME RecallIInv, RowsMove, calls' = calls  PROVE RecallIInv'
  <1>1. ASSUME NEW c \in Callers  PROVE CallInv(calls[c])'
    <2> DEFINE k == calls[c]
    <2>1. CallInv(k) /\ k' = k
      BY DEF RecallIInv
    <2> HIDE DEF k
    <2>2. \A f \in Fragments : rows[f].ver \in Nat
      BY DEF RecallIInv, RowsTyped, Row
    <2>3. Shaped(k)' /\ Asking(k)' /\ HitsGood(k)' /\ AttachedGood(k)'
      BY <2>1, <2>2 DEF RowsMove, CallInv, Shaped, Asking, HitsGood, Good, AttachedGood, Given
    <2>4. k.pc # "idle" => \A f \in Fragments : f \in Untouched(k)' => f \in Untouched(k)
      <3> SUFFICES ASSUME k.pc # "idle", NEW f \in Fragments, f \in Untouched(k)'  PROVE f \in Untouched(k)
        OBVIOUS
      <3>1. rows'[f] = rows[f]
        BY <2>1, <2>2 DEF RowsMove, Untouched, CallInv, Asking
      <3> QED  BY <2>1, <3>1 DEF Untouched
    <2>6. ASSUME k.pc # "idle", NEW S, Full(k, S)  PROVE Full(k, S)'
      BY <2>1, <2>4, <2>6 DEF Full, Untouched
    <2>5. Covers(k)'
      BY <2>1, <2>6 DEF Covers, Structured, CallInv
    <2> QED  BY <2>3, <2>5 DEF CallInv, k
  <1> QED  BY <1>1 DEF RecallIInv, RowsTyped, RowsMove

---------------------------------------------------------------------------
(* The steps of a recall. *)

\* recall() starts from the versions of this moment.
LEMMA AskKept ==
  ASSUME RecallIInv, NEW c \in Callers, NEW q \in Recalls, Recall!Ask(c, q)  PROVE RecallIInv'
  <1> DEFINE r == [Recall!Free EXCEPT !.pc = "l1", !.q = q, !.since = [f \in Fragments |-> rows[f].ver]]
  <1>1. /\ calls' = [calls EXCEPT ![c] = r] /\ UNCHANGED <<rows, index, hot, edits, changes>>
    BY DEF Recall!Ask
  <1>2. /\ r.pc = "l1" /\ r.q = q /\ r.since = [f \in Fragments |-> rows[f].ver]
        /\ r.out = {} /\ r.linked = {} /\ r.nearby = {} /\ \A l \in Places : r.found[l] = {}
    BY DEF Recall!Free, Recall!NoRows, Recall!Layers, Places
  <1>3. Shaped(r)
    BY DEF Recall!Free, Recall!NoRows, Recall!Layers, Places, Shaped
  <1> HIDE DEF r
  <1>4. \A f \in Fragments : rows[f].ver \in Nat
    BY DEF RecallIInv, RowsTyped, Row
  <1>5. CallInv(r)
    BY <1>2, <1>3, <1>4 DEF CallInv, Asking, HitsGood, AttachedGood, Covers
  <1>6. /\ calls'[c] = r /\ Callers \subseteq DOMAIN calls'
        /\ \A d \in Callers \ {c} : calls'[d] = calls[d]
    BY <1>1 DEF RecallIInv
  <1>7. ASSUME NEW d \in Callers  PROVE CallInv(calls[d])'
    <2>1. CallInv(calls'[d])
      BY <1>5, <1>6 DEF RecallIInv
    <2> QED  BY <1>1, <2>1 DEF CallInv, Shaped, Asking, HitsGood, Good, AttachedGood, Given,
                             Covers, Structured, Full, Untouched
  <1> QED  BY <1>1, <1>6, <1>7 DEF RecallIInv, RowsTyped

\* The index and the hot cache only name candidates (_searchL1, _tryHotCache).
LEMMA EarlyKept ==
  ASSUME RecallIInv, NEW c \in Callers, Recall!SearchL1(c) \/ Recall!TryHotCache(c)  PROVE RecallIInv'
  <1> DEFINE k == calls[c]
  <1>1. CallInv(k)
    BY DEF RecallIInv
  <1>2. CASE Recall!SearchL1(c)
    <2>1. PICK b, S : k.pc = "l1" /\ Recall!Become(c, [k EXCEPT !.pc = "hot", !.fallback = b, !.l1 = S])
      BY <1>2, Zenon DEF Recall!SearchL1, Recall!At
    <2> DEFINE r == [k EXCEPT !.pc = "hot", !.fallback = b, !.l1 = S]
    <2> HIDE DEF k
    <2>2. /\ Shaped(r) /\ r.pc = "hot" /\ r.q = k.q /\ r.since = k.since /\ r.found = k.found
          /\ r.out = k.out /\ r.linked = k.linked /\ r.nearby = k.nearby
      BY <1>1 DEF CallInv, Shaped
    <2> HIDE DEF r
    <2>3. CallInv(r)
      BY <1>1, <2>1, <2>2, Advance, AttachedKept DEF Covers
    <2> QED  BY <2>1, <2>3, StepKept DEF r
  <1>3. CASE Recall!TryHotCache(c)
    <2>0. PICK H : /\ k.pc = "hot"
                   /\ Recall!Become(c, [k EXCEPT !.pc = "durable",
                        !.hits = {f \in H : \E h \in hot : h[1] \in Recall!Namespaces(k.q) /\ h[2] = f}])
      BY <1>3, Zenon DEF Recall!TryHotCache, Recall!At
    <2> DEFINE S == {f \in H : \E h \in hot : h[1] \in Recall!Namespaces(k.q) /\ h[2] = f}
    <2>1. k.pc = "hot" /\ Recall!Become(c, [k EXCEPT !.pc = "durable", !.hits = S])
      BY <2>0
    <2> DEFINE r == [k EXCEPT !.pc = "durable", !.hits = S]
    <2> HIDE DEF k
    <2>2. /\ Shaped(r) /\ r.pc = "durable" /\ r.q = k.q /\ r.since = k.since /\ r.found = k.found
          /\ r.out = k.out /\ r.linked = k.linked /\ r.nearby = k.nearby
      BY <1>1 DEF CallInv, Shaped
    <2> HIDE DEF r
    <2>3. CallInv(r)
      BY <1>1, <2>1, <2>2, Advance, AttachedKept DEF Covers
    <2> QED  BY <2>1, <2>3, StepKept DEF r
  <1> QED  BY <1>2, <1>3

\* The candidates are read again from the database.
LEMMA DurableKept ==
  ASSUME RecallIInv, NEW c \in Callers, Recall!Durable(c)  PROVE RecallIInv'
  <1> DEFINE k == calls[c]
             S == {x \in Recall!ByIds(k.hits, k.q) : Recall!ApplyTo(x.row, k.q)}
             T == {"l2"} \cup (IF k.q.text \/ k.q.by = "keywords" THEN {"l3"} ELSE {})
                         \cup (IF k.q.window THEN {"temporal"} ELSE {})
  <1>1. CallInv(k) /\ RowsTyped
    BY DEF RecallIInv
  <1>2. /\ k.pc = "durable" /\ "l2" \in T
        /\ Recall!Become(c, [k EXCEPT !.pc = "layers", !.found["cached"] = S, !.todo = T])
    BY DEF Recall!Durable, Recall!At
  <1>3. \A x \in S : Good(x, k)
    BY <1>1, <1>2, QueriesGood DEF CallInv
  <1> DEFINE r == [k EXCEPT !.pc = "layers", !.found["cached"] = S, !.todo = T]
  <1>6. r = [k EXCEPT !.pc = "layers", !.found["cached"] = S, !.todo = T]
    OBVIOUS
  <1> HIDE DEF k, S, T, r
  <1>4. /\ Shaped(r) /\ r.pc = "layers" /\ r.todo = T
        /\ r.q = k.q /\ r.since = k.since /\ r.out = k.out /\ r.linked = k.linked /\ r.nearby = k.nearby
        /\ r.found["cached"] = S /\ \A m \in Places \ {"cached"} : r.found[m] = k.found[m]
    BY <1>1, <1>6 DEF CallInv, Shaped, Places
  <1>5. CallInv(r)
    BY <1>1, <1>2, <1>3, <1>4, Advance, AttachedKept DEF Covers
  <1> QED  BY <1>2, <1>5, StepKept DEF r

\* A layer's answer joins the hits: L2's must cover the untouched rows, the ids that the
\* index had besides only add to it.
LEMMA AnswerKept ==
  ASSUME RecallIInv, NEW c \in Callers, NEW l \in {"l2", "ids", "l3", "temporal"}, NEW S,
         Recall!Asks(c, l), Recall!Answer(c, l, S),
         \A x \in S : Good(x, calls[c]) \/ (l = "ids" /\ x \in calls[c].found["l2"]),
         l = "ids" => calls[c].found["l2"] \subseteq S,
         l = "l2" => (Structured(calls[c]) => Full(calls[c], S))
  PROVE  RecallIInv'
  <1> DEFINE k == calls[c]
             m == IF l = "ids" THEN "l2" ELSE l
             T == (k.todo \ {l}) \cup (IF l = "l2" THEN {"ids"} ELSE {})
             r == [k EXCEPT !.found[m] = S, !.todo = T]
  <1>1. CallInv(k) /\ k.pc = "layers"
    BY DEF RecallIInv, Recall!Asks, Recall!At
  <1>2. Recall!Become(c, r)
    BY DEF Recall!Answer
  <1>3. m \in Places
    BY DEF Places
  <1>4. k.found["l2"] \subseteq S \/ l # "ids"
    OBVIOUS
  <1>5. \A x \in S : Good(x, k)
    BY <1>1 DEF CallInv, HitsGood, Places
  <1>6. "l2" \notin T => l = "l2" \/ "l2" \notin k.todo
    OBVIOUS
  <1>7. /\ l = "l2" => m = "l2" /\ (Structured(k) => Full(k, S))
        /\ l = "ids" => m = "l2"
        /\ l \notin {"l2", "ids"} => m # "l2"
    OBVIOUS
  <1>13. r = [k EXCEPT !.found[m] = S, !.todo = T]
    OBVIOUS
  <1> HIDE DEF k, m, T, r
  <1>8. /\ Shaped(r) /\ r.pc = k.pc /\ r.todo = T
        /\ r.q = k.q /\ r.since = k.since /\ r.out = k.out /\ r.linked = k.linked /\ r.nearby = k.nearby
        /\ r.found[m] = S /\ \A n \in Places \ {m} : r.found[n] = k.found[n]
    BY <1>1, <1>3, <1>13 DEF CallInv, Shaped
  <1>9. (Structured(r) <=> Structured(k)) /\ \A U : Full(r, U) <=> Full(k, U)
    BY <1>8 DEF Untouched, Structured, Full
  <1>10. Structured(k) /\ "l2" \notin T => Full(k, r.found["l2"])
    <2> SUFFICES ASSUME Structured(k), "l2" \notin T  PROVE Full(k, r.found["l2"])
      OBVIOUS
    <2>1. CASE l = "l2"
      BY <1>7, <1>8, <2>1
    <2>2. CASE l # "l2"
      <3>1. Full(k, k.found["l2"])
        BY <1>1, <1>6, <2>2 DEF CallInv, Covers
      <3>2. k.found["l2"] \subseteq r.found["l2"]
        BY <1>4, <1>7, <1>8, <2>2 DEF Places
      <3>3. \A x \in r.found["l2"] : x.id \in Fragments
        BY <1>1, <1>5, <1>8 DEF CallInv, HitsGood, Good, Places
      <3> QED  BY <3>1, <3>2, <3>3, FullGrows
    <2> QED  BY <2>1, <2>2
  <1>11. Covers(r)
    BY <1>1, <1>8, <1>9, <1>10 DEF Covers
  <1>12. CallInv(r)
    BY <1>1, <1>5, <1>8, <1>11, Advance, AttachedKept
  <1> QED  BY <1>2, <1>12, StepKept

\* _searchL2, the ids L1 had and the hot cache did not, _searchL3, _searchTemporal.
LEMMA LayersKept ==
  ASSUME RecallIInv, NEW c \in Callers,
         Recall!SearchL2(c) \/ Recall!MissedIds(c) \/ Recall!SearchL3(c) \/ Recall!SearchTemporal(c)
  PROVE  RecallIInv'
  <1> DEFINE k == calls[c]
  <1>1. CallInv(k) /\ RowsTyped
    BY DEF RecallIInv
  <1>2. ASSUME NEW l, Recall!Asks(c, l)  PROVE k.pc # "idle" /\ Asking(k)
    BY <1>1, <1>2 DEF Recall!Asks, Recall!At, CallInv
  <1>3. CASE Recall!SearchL2(c)
    <2> DEFINE M == Recall!ByMetadata(k.q)
    <2>1. PICK S \in Recall!Cuts(M, "l2") : Recall!Asks(c, "l2") /\ Recall!Answer(c, "l2", S)
      BY <1>3 DEF Recall!SearchL2
    <2>2. k.q \in Recalls
      BY <1>2, <2>1 DEF Asking
    <2>3. M = {} \/ M = Recall!Matching(k.q)
      BY DEF Recall!ByMetadata, Recall!ByKeywords, Recall!ByTopic
    <2>4. Structured(k) => M = Recall!Matching(k.q)
      BY <2>2, RecallAssumption DEF Structured, Recall!ByMetadata, Recall!ByKeywords, Recall!ByTopic
    <2>7. S \subseteq M
      BY <2>1 DEF Recall!Cuts
    <2> HIDE DEF M
    <2>5. \A x \in S : Good(x, k)
      BY <1>1, <1>2, <2>1, <2>3, <2>7, QueriesGood
    <2>6. Structured(k) => Full(k, S)
      BY <2>1, <2>4, MatchingCovers
    <2> HIDE DEF k
    <2> QED  BY <2>1, <2>5, <2>6, AnswerKept DEF k
  <1>4. CASE Recall!MissedIds(c)
    <2> DEFINE M == {x \in Recall!ByIds(IF k.fallback THEN {} ELSE k.l1 \ (Recall!Ids(k.found["cached"]) \cup Recall!Ids(k.found["l2"])), k.q) :
                       Recall!ApplyTo(x.row, k.q)}
    <2>1. Recall!Asks(c, "ids") /\ Recall!Answer(c, "ids", k.found["l2"] \cup M)
      BY <1>4 DEF Recall!MissedIds
    <2>2. \A x \in M : Good(x, k)
      BY <1>1, <1>2, <2>1, QueriesGood
    <2> HIDE DEF M
    <2> QED  BY <2>1, <2>2, AnswerKept
  <1>5. CASE Recall!SearchL3(c)
    <2>1. PICK S \in SUBSET Recall!BySemantic(k.q) : Recall!Asks(c, "l3") /\ Recall!Answer(c, "l3", S)
      BY <1>5 DEF Recall!SearchL3
    <2>2. \A x \in S : Good(x, k)
      BY <1>1, <1>2, <2>1, QueriesGood
    <2> QED  BY <2>1, <2>2, AnswerKept
  <1>6. CASE Recall!SearchTemporal(c)
    <2>1. PICK S \in SUBSET Recall!ByTime(k.q) : Recall!Asks(c, "temporal") /\ Recall!Answer(c, "temporal", S)
      BY <1>6 DEF Recall!SearchTemporal, Recall!Cuts
    <2>2. \A x \in S : Good(x, k)
      BY <1>1, <1>2, <2>1, QueriesGood
    <2> QED  BY <2>1, <2>2, AnswerKept
  <1> QED  BY <1>3, <1>4, <1>5, <1>6

\* _searchGraph adds neighbours to what is found.
LEMMA GraphKept ==
  ASSUME RecallIInv, NEW c \in Callers, Recall!SearchGraph(c)  PROVE RecallIInv'
  <1> DEFINE k == calls[c]
  <1>1. CallInv(k) /\ RowsTyped
    BY DEF RecallIInv
  <1>0. PICK ids : \E S \in {{}} \cup Recall!Cuts(Recall!Neighbours(ids, k.q), "graph") :
          Recall!Become(c, [k EXCEPT !.pc = "clean", !.found["graph"] = S])
    BY Zenon DEF Recall!SearchGraph, Recall!At
  <1>9. k.pc = "layers" /\ k.todo = {}
    BY DEF Recall!SearchGraph, Recall!At
  <1>10. PICK S \in {{}} \cup Recall!Cuts(Recall!Neighbours(ids, k.q), "graph") :
           Recall!Become(c, [k EXCEPT !.pc = "clean", !.found["graph"] = S])
    BY <1>0, Zenon
  <1>2. /\ k.pc = "layers" /\ k.todo = {} /\ S \subseteq Recall!Neighbours(ids, k.q)
        /\ Recall!Become(c, [k EXCEPT !.pc = "clean", !.found["graph"] = S])
    BY <1>9, <1>10 DEF Recall!Cuts
  <1> DEFINE r == [k EXCEPT !.pc = "clean", !.found["graph"] = S]
  <1>3. \A x \in S : Good(x, k)
    BY <1>1, <1>2, QueriesGood DEF CallInv
  <1>4. r = [k EXCEPT !.pc = "clean", !.found["graph"] = S]
    OBVIOUS
  <1> HIDE DEF k, r
  <1>5. /\ Shaped(r) /\ r.pc = "clean" /\ r.todo = k.todo
        /\ r.q = k.q /\ r.since = k.since /\ r.out = k.out /\ r.linked = k.linked /\ r.nearby = k.nearby
        /\ r.found["graph"] = S /\ \A m \in Places \ {"graph"} : r.found[m] = k.found[m]
    BY <1>1, <1>4 DEF CallInv, Shaped, Places
  <1>6. /\ (Structured(r) <=> Structured(k)) /\ \A U : Full(r, U) <=> Full(k, U)
        /\ r.found["l2"] = k.found["l2"]
    BY <1>2, <1>5 DEF Untouched, Structured, Full, Places
  <1>7. Covers(r)
    BY <1>1, <1>2, <1>5, <1>6 DEF Covers, CallInv
  <1>8. CallInv(r)
    BY <1>1, <1>2, <1>3, <1>5, <1>7, Advance, AttachedKept
  <1> QED  BY <1>2, <1>8, StepKept DEF r

(* The merge takes each id from a layer that has it, and from L2 first when *)
(* there is no text.                                                        *)
LEMMA MergedGood ==
  ASSUME NEW k, HitsGood(k), NEW x \in Recall!Merged(k)  PROVE Good(x, k)
  <1> DEFINE order == Recall!Orders(k.q)
  <1>1. x \in Recall!FirstFound(k.found, order)
    BY DEF Recall!Merged
  <1>2. PICK i \in DOMAIN order : x \in k.found[order[i]]
    BY <1>1 DEF Recall!FirstFound
  <1>3. order[i] \in Places
    BY DEF Recall!Orders, Places
  <1> QED  BY <1>2, <1>3 DEF HitsGood

\* A recall without text takes what L2 found before any other row of that id.
LEMMA MergedCovers ==
  ASSUME NEW k, ~k.q.text, NEW x \in k.found["l2"]  PROVE x \in Recall!Merged(k)
  <1> DEFINE order == Recall!Orders(k.q)
  <1>1. 1 \in DOMAIN order /\ order[1] = "l2"
    BY DEF Recall!Orders
  <1> HIDE DEF order
  <1>2. \A j \in 1..(1 - 1) : x.id \notin Recall!Ids(k.found[order[j]])
    OBVIOUS
  <1>3. x \in {y \in k.found[order[1]] : \A j \in 1..(1 - 1) : y.id \notin Recall!Ids(k.found[order[j]])}
    BY <1>1, <1>2
  <1>4. x \in Recall!FirstFound(k.found, order)
    BY <1>1, <1>3 DEF Recall!FirstFound
  <1> QED  BY <1>4 DEF Recall!Merged, order

\* The merge and the last filter on valid_to.
LEMMA CleanKept ==
  ASSUME RecallIInv, NEW c \in Callers, Recall!Clean(c)  PROVE RecallIInv'
  <1> DEFINE k == calls[c]
             out == {x \in Recall!Merged(k) : Recall!CurOk(x.row, k.q)}
  <1>1. CallInv(k)
    BY DEF RecallIInv
  <1>2. PICK p \in {"links", "previews"} :
          /\ k.pc = "clean"
          /\ Recall!Become(c, [Recall!Free EXCEPT !.pc = p, !.q = k.q, !.since = k.since, !.out = out])
    BY DEF Recall!Clean, Recall!At
  <1> DEFINE r == [Recall!Free EXCEPT !.pc = p, !.q = k.q, !.since = k.since, !.out = out]
  <1>3. /\ r.pc = p /\ r.q = k.q /\ r.since = k.since /\ r.out = out
        /\ r.linked = {} /\ r.nearby = {} /\ \A l \in Places : r.found[l] = {}
    BY DEF Recall!Free, Recall!NoRows, Recall!Layers, Places
  <1>4. Shaped(r)
    BY DEF Recall!Free, Recall!NoRows, Recall!Layers, Places, Shaped
  <1>5. \A x \in out : Good(x, k)
    BY <1>1, MergedGood DEF CallInv
  <1>6. Structured(k) => k.found["l2"] \subseteq out
    <2> SUFFICES ASSUME Structured(k), NEW x \in k.found["l2"]  PROVE x \in out
      OBVIOUS
    <2>1. x \in Recall!Merged(k)
      BY MergedCovers DEF Structured
    <2>2. Recall!CurOk(x.row, k.q)
      BY <1>1 DEF CallInv, HitsGood, Good, Recall!Scoped, Places
    <2> QED  BY <2>1, <2>2
  <1> HIDE DEF k, out, r
  <1>7. (Structured(r) <=> Structured(k)) /\ \A U : Full(r, U) <=> Full(k, U)
    BY <1>2, <1>3 DEF Untouched, Structured, Full
  <1>8. Covers(r)
    <2> SUFFICES ASSUME Structured(k)  PROVE Full(k, out)
      BY <1>2, <1>3, <1>7 DEF Covers
    <2>1. Full(k, k.found["l2"])
      BY <1>1, <1>2 DEF CallInv, Covers
    <2>2. \A x \in out : x.id \in Fragments
      BY <1>5 DEF Good
    <2> QED  BY <1>6, <2>1, <2>2, FullGrows
  <1>9. CallInv(r)
    BY <1>1, <1>2, <1>3, <1>4, <1>5, <1>8, Advance DEF AttachedGood
  <1> QED  BY <1>2, <1>9, StepKept DEF r

\* The linked rows join what was found.
LEMMA ExpandKept ==
  ASSUME RecallIInv, NEW c \in Callers, Recall!Expand(c)  PROVE RecallIInv'
  <1> DEFINE k == calls[c]
  <1>1. CallInv(k) /\ RowsTyped
    BY DEF RecallIInv
  <1>0. PICK S \in Recall!Cuts(Recall!LinkedTo(Recall!Ids(k.out), k.q), "links") :
          /\ k.pc = "links"
          /\ Recall!Become(c, [k EXCEPT !.pc = "previews",
                               !.out = @ \cup {x \in S : x.id \notin Recall!Ids(k.out)}])
    BY Zenon DEF Recall!Expand, Recall!At
  <1> DEFINE more == {x \in S : x.id \notin Recall!Ids(k.out)}
  <1>2. /\ k.pc = "links" /\ more \subseteq Recall!LinkedTo(Recall!Ids(k.out), k.q)
        /\ Recall!Become(c, [k EXCEPT !.pc = "previews", !.out = @ \cup more])
    BY <1>0 DEF Recall!Cuts
  <1> DEFINE r == [k EXCEPT !.pc = "previews", !.out = @ \cup more]
  <1>3. \A x \in more : Good(x, k)
    BY <1>1, <1>2, QueriesGood DEF CallInv
  <1>4. r = [k EXCEPT !.pc = "previews", !.out = @ \cup more]
    OBVIOUS
  <1> HIDE DEF k, more, r
  <1>5. /\ Shaped(r) /\ r.pc = "previews" /\ r.todo = k.todo /\ r.found = k.found
        /\ r.q = k.q /\ r.since = k.since /\ r.out = k.out \cup more
        /\ r.linked = k.linked /\ r.nearby = k.nearby
    BY <1>1, <1>4 DEF CallInv, Shaped
  <1>6. (Structured(r) <=> Structured(k)) /\ \A U : Full(r, U) <=> Full(k, U)
    BY <1>2, <1>5 DEF Untouched, Structured, Full
  <1>7. Recall!Ids(k.out) \subseteq Recall!Ids(r.out)
    BY <1>5 DEF Recall!Ids
  <1>8. \A x \in r.out : x.id \in Fragments
    BY <1>1, <1>3, <1>5 DEF CallInv, HitsGood, Good
  <1>9. Covers(r)
    <2> SUFFICES ASSUME Structured(k)  PROVE Full(k, r.out)
      BY <1>5, <1>6 DEF Covers
    <2>1. Full(k, k.out)
      BY <1>1, <1>2 DEF CallInv, Covers
    <2> QED  BY <1>5, <1>8, <2>1, FullGrows
  <1>10. CallInv(r)
    BY <1>1, <1>2, <1>3, <1>5, <1>7, <1>9, Advance, AttachedKept
  <1> QED  BY <1>2, <1>10, StepKept DEF r

\* tool_recall attaches rows and changes none of the answer.
LEMMA AttachKept ==
  ASSUME RecallIInv, NEW c \in Callers, Recall!AttachLinked(c) \/ Recall!AttachNearby(c)  PROVE RecallIInv'
  <1> DEFINE k == calls[c]
  <1>1. CallInv(k) /\ RowsTyped
    BY DEF RecallIInv
  <1>2. CASE Recall!AttachLinked(c)
    <2> DEFINE p == IF k.q.context THEN "nearby" ELSE "done"
    <2>0. PICK T \in Recall!Attach(Recall!Previews(Recall!Ids(k.out)), "previews") :
            k.pc = "previews" /\ Recall!Become(c, [k EXCEPT !.pc = p, !.linked = T])
      BY <1>2, Zenon DEF Recall!AttachLinked, Recall!At
    <2>1. /\ k.pc = "previews" /\ T \subseteq Recall!Previews(Recall!Ids(k.out))
          /\ p \in {"nearby", "done"} /\ Recall!Become(c, [k EXCEPT !.pc = p, !.linked = T])
      BY <2>0 DEF Recall!Attach
    <2> DEFINE r == [k EXCEPT !.pc = p, !.linked = T]
    <2> HIDE DEF p
    <2>2. \A x \in T : Given(x, k)
      BY <1>1, <2>1, AttachmentsGood DEF CallInv
    <2>3. r = [k EXCEPT !.pc = p, !.linked = T]
      OBVIOUS
    <2> HIDE DEF k, r
    <2>4. /\ Shaped(r) /\ r.pc = p /\ r.found = k.found /\ r.q = k.q /\ r.since = k.since
          /\ r.out = k.out /\ r.linked = T /\ r.nearby = k.nearby
      BY <1>1, <2>3 DEF CallInv, Shaped
    <2>5. AttachedGood(r)
      BY <1>1, <2>2, <2>4 DEF CallInv, AttachedGood, Given
    <2>6. Covers(r)
      BY <1>1, <2>1, <2>4 DEF CallInv, Covers, Structured, Full, Untouched
    <2>7. CallInv(r)
      BY <1>1, <2>1, <2>4, <2>5, <2>6, Advance
    <2> QED  BY <2>1, <2>7, StepKept DEF r
  <1>3. CASE Recall!AttachNearby(c)
    <2>0. PICK T \in Recall!Attach(Recall!Bundle(Recall!Ids(k.out), k.q), "nearby") :
            k.pc = "nearby" /\ Recall!Become(c, [k EXCEPT !.pc = "done", !.nearby = T])
      BY <1>3, Zenon DEF Recall!AttachNearby, Recall!At
    <2>1. /\ k.pc = "nearby" /\ T \subseteq Recall!Bundle(Recall!Ids(k.out), k.q)
          /\ Recall!Become(c, [k EXCEPT !.pc = "done", !.nearby = T])
      BY <2>0 DEF Recall!Attach
    <2> DEFINE r == [k EXCEPT !.pc = "done", !.nearby = T]
    <2>2. \A x \in T : Given(x, k) /\ Recall!OwnOk(x.row, k.q)
      BY <1>1, <2>1, AttachmentsGood DEF CallInv
    <2>3. r = [k EXCEPT !.pc = "done", !.nearby = T]
      OBVIOUS
    <2> HIDE DEF k, r
    <2>4. /\ Shaped(r) /\ r.pc = "done" /\ r.found = k.found /\ r.q = k.q /\ r.since = k.since
          /\ r.out = k.out /\ r.linked = k.linked /\ r.nearby = T
      BY <1>1, <2>3 DEF CallInv, Shaped
    <2>5. AttachedGood(r)
      BY <1>1, <2>2, <2>4 DEF CallInv, AttachedGood, Given
    <2>6. Covers(r)
      BY <1>1, <2>1, <2>4 DEF CallInv, Covers, Structured, Full, Untouched
    <2>7. CallInv(r)
      BY <1>1, <2>1, <2>4, <2>5, <2>6, Advance
    <2> QED  BY <2>1, <2>7, StepKept DEF r
  <1> QED  BY <1>2, <1>3

---------------------------------------------------------------------------
(* Writers. *)

\* An UPDATE of a row makes its next version.
LEMMA ChangeMoves ==
  ASSUME RowsTyped, NEW f, NEW r, f \in Fragments => r \in Row /\ r.ver = rows[f].ver, Recall!Change(f, r)
  PROVE  RowsMove
  <1>1. rows' = [rows EXCEPT ![f] = [r EXCEPT !.ver = @ + 1]]
    BY DEF Recall!Change
  <1>2. CASE f \in Fragments
    <2>1. [r EXCEPT !.ver = @ + 1] \in Row /\ [r EXCEPT !.ver = @ + 1].ver = rows[f].ver + 1
      BY <1>2 DEF Row
    <2> QED  BY <1>1, <1>2, <2>1 DEF RowsMove, RowsTyped
  <1>3. CASE f \notin Fragments
    BY <1>1, <1>3 DEF RowsMove, RowsTyped
  <1> QED  BY <1>2, <1>3

\* Writers change rows version by version, and no recall under way.
LEMMA WritersMove ==
  ASSUME RowsTyped, Recall!Write \/ Recall!WriteOn  PROVE RowsMove /\ calls' = calls
  <1>1. \A f \in Fragments : rows[f] \in Row
    BY DEF RowsTyped
  <1>2. ASSUME NEW f \in Fragments, Recall!Amend(f)  PROVE RowsMove /\ calls' = calls
    <2>1. PICK t \in Topics, i \in Importances : Recall!Change(f, [rows[f] EXCEPT !.topic = t, !.imp = i])
      BY <1>2, Zenon DEF Recall!Amend
    <2>2. /\ [rows[f] EXCEPT !.topic = t, !.imp = i] \in Row
          /\ [rows[f] EXCEPT !.topic = t, !.imp = i].ver = rows[f].ver
      BY <1>1, <2>1, RecallAssumption DEF Row
    <2> QED  BY <1>2, <2>1, <2>2, ChangeMoves DEF Recall!Amend, Recall!Begin
  <1>3. ASSUME NEW f \in Fragments, Recall!Forget(f)  PROVE RowsMove /\ calls' = calls
    BY <1>3 DEF Recall!Forget, Recall!Begin, RowsMove, RowsTyped
  <1>4. ASSUME NEW f \in Fragments, Recall!Supersede(f)  PROVE RowsMove /\ calls' = calls
    <2>1. [rows[f] EXCEPT !.cur = FALSE] \in Row /\ [rows[f] EXCEPT !.cur = FALSE].ver = rows[f].ver
      BY <1>1 DEF Row
    <2> QED  BY <1>4, <2>1, ChangeMoves DEF Recall!Supersede, Recall!Begin
  <1>5. ASSUME NEW e, Recall!Deindex(e) \/ Recall!Reindex(e)  PROVE RowsMove /\ calls' = calls
    BY <1>5 DEF Recall!Deindex, Recall!Reindex, RowsMove, RowsTyped
  <1>6. ASSUME NEW e, Recall!Delete(e)  PROVE RowsMove /\ calls' = calls
    <2> DEFINE r == [rows[e.id] EXCEPT !.live = FALSE, !.cur = FALSE]
    <2>1. e.id \in Fragments => r \in Row /\ r.ver = rows[e.id].ver
      BY <1>1 DEF Row
    <2>2. Recall!Change(e.id, r) /\ calls' = calls
      BY <1>6 DEF Recall!Delete
    <2> HIDE DEF r
    <2> QED  BY <2>1, <2>2, ChangeMoves
  <1>7. ASSUME NEW f \in Fragments, Recall!Reweigh(f)  PROVE RowsMove /\ calls' = calls
    <2>1. PICK i \in Importances : Recall!Change(f, [rows[f] EXCEPT !.imp = i])
      BY <1>7 DEF Recall!Reweigh
    <2>2. [rows[f] EXCEPT !.imp = i] \in Row /\ [rows[f] EXCEPT !.imp = i].ver = rows[f].ver
      BY <1>1, <2>1, RecallAssumption DEF Row
    <2> QED  BY <1>7, <2>1, <2>2, ChangeMoves DEF Recall!Reweigh, Recall!Begin
  <1> QED
    BY <1>2, <1>3, <1>4, <1>5, <1>6, <1>7 DEF Recall!Write, Recall!WriteOn

---------------------------------------------------------------------------
\* No recall is under way at first.
LEMMA RecallInit == Recall!Init => RecallIInv
  <1> SUFFICES ASSUME Recall!Init  PROVE RecallIInv
    OBVIOUS
  <1>1. RowsTyped /\ calls = [c \in Callers |-> Recall!Free]
    BY RecallAssumption DEF Recall!Init, RowsTyped
  <1>2. /\ Recall!Free.pc = "idle" /\ Recall!Free.out = {}
        /\ Recall!Free.linked = {} /\ Recall!Free.nearby = {}
        /\ \A l \in Places : Recall!Free.found[l] = {}
    BY DEF Recall!Free, Recall!NoRows, Recall!Layers, Places
  <1>3. Shaped(Recall!Free)
    BY DEF Recall!Free, Recall!NoRows, Recall!Layers, Places, Shaped
  <1>4. CallInv(Recall!Free)
    BY <1>2, <1>3 DEF CallInv, Asking, HitsGood, AttachedGood, Covers, Structured
  <1> QED  BY <1>1, <1>4 DEF RecallIInv

\* Every step of a recall, a writer or Redis keeps the invariant.
LEMMA RecallNext == RecallIInv /\ [Recall!Next]_(Recall!vars) => RecallIInv'
  <1> SUFFICES ASSUME RecallIInv, [Recall!Next]_(Recall!vars)  PROVE RecallIInv'
    OBVIOUS
  <1>1. CASE UNCHANGED <<rows, calls>>
    BY <1>1, RowsKept DEF RowsMove, RecallIInv, RowsTyped
  <1>2. CASE Recall!Write \/ Recall!WriteOn
    BY <1>2, WritersMove, RowsKept DEF RecallIInv
  <1>3. ASSUME NEW x, Recall!Fill(x)  PROVE RecallIInv'
    BY <1>1, <1>3 DEF Recall!Fill
  <1>4. CASE Recall!RedisLost \/ Recall!Warmup
    BY <1>1, <1>4 DEF Recall!RedisLost, Recall!Warmup
  <1>5. ASSUME NEW c \in Callers, Recall!Search(c)  PROVE RecallIInv'
    BY <1>5, EarlyKept, DurableKept, LayersKept, GraphKept, CleanKept, ExpandKept, AttachKept
       DEF Recall!Search
  <1>6. CASE UNCHANGED Recall!vars
    BY <1>1, <1>6 DEF Recall!vars
  <1> QED
    BY <1>2, <1>3, <1>4, <1>5, <1>6, AskKept DEF Recall!Next

\* It says of a recall that is done what Sound says.
LEMMA RecallIInvSound == RecallIInv => Sound
  <1> SUFFICES ASSUME RecallIInv, NEW c \in Callers
               PROVE  Recall!Fresh(c) /\ Recall!InScope(c) /\ Recall!Attached(c)
    BY DEF Sound, Recall!Sound
  <1>1. HitsGood(calls[c]) /\ AttachedGood(calls[c])
    BY DEF RecallIInv, CallInv
  <1>2. Recall!Fresh(c)
    BY <1>1 DEF HitsGood, Good, AttachedGood, Given, Recall!Fresh
  <1>3. Recall!InScope(c) /\ Recall!Attached(c)
    BY <1>1 DEF HitsGood, Good, AttachedGood, Given, Recall!InScope, Recall!Attached
  <1> QED  BY <1>2, <1>3

\* ... and what StructuredComplete says.
LEMMA RecallIInvComplete == RecallIInv => StructuredComplete
  <1> SUFFICES ASSUME RecallIInv, NEW c \in Callers, Recall!Done(c),
                      calls[c].q.by # None, ~calls[c].q.text
               PROVE  \/ Recall!Steady(c) \subseteq Recall!Ids(calls[c].out)
                      \/ Cardinality(Recall!Ids(Recall!Matched(c))) >= QueryLimit["l2"]
    BY RecallCounts DEF StructuredComplete, Recall!StructuredComplete
  <1>1. Recall!Steady(c) = Untouched(calls[c])
    BY DEF Recall!Steady, Untouched
  <1>2. Full(calls[c], calls[c].out)
    BY DEF RecallIInv, CallInv, Covers, Structured, Recall!Done
  <1> QED  BY <1>1, <1>2 DEF Full, Recall!Matched

\* For every table, set of queries and callers, and any number of changes: a recall that is
\* done shows only rows that stood in the database after it was asked; those of recall() itself
\* are in the scope of its caller, what tool_recall attaches to them is current, nearby_context
\* in the scope of key and agent (recall, FragmentSearch.search, _tryHotCache,
\* _getScopedByIds, searchBySource, fetchLinkedFragments).
THEOREM RecallSound == Recall!Spec => []Sound
  BY RecallInit, RecallNext, RecallIInvSound, PTL DEF Recall!Spec

\* A recall by keywords or topic has every row of the least importance it asks for that nobody
\* touched since it was asked, or as many matching rows as L2's LIMIT, whatever the index and
\* the hot cache hold (_searchL2, the merge).
THEOREM RecallComplete == Recall!Spec => []StructuredComplete
  BY RecallInit, RecallNext, RecallIInvComplete, PTL DEF Recall!Spec

---------------------------------------------------------------------------
(* Links after an insert.                                                  *)

\* Whom the writer of f may link
MayLink(f, g) == KeyOf[f] = None \/ KeyOf[g] \in {KeyOf[f]} \cup GroupOf[KeyOf[f]]

\* What a search has found may be linked
FoundMayLink ==
  /\ stored \subseteq Fragments /\ found \in [Fragments -> SUBSET Fragments]
  /\ \A f \in Fragments : \A g \in found[f] : MayLink(f, g)

\* What is found is linked later, so it must be allowed as long as it waits
LinksIInv == LinksStayInGroup /\ FoundMayLink

\* No link at first.
LEMMA LinksInit == AutoLinks!Init => LinksIInv
  BY DEF AutoLinks!Init, LinksIInv, LinksStayInGroup, AutoLinks!LinksStayInGroup, FoundMayLink

\* createLink has no check of its own: what it is given must be allowed.
LEMMA CreateLinksKept ==
  ASSUME NEW f, NEW gs, NEW kind, LinksStayInGroup, AutoLinks!CreateLinks(f, gs, kind),
         \A g \in gs : MayLink(f, g)
  PROVE  LinksStayInGroup'
  <1>1. \A l \in links' : l \in links \/ \E g \in gs : l = <<f, g, kind>>
    BY DEF AutoLinks!CreateLinks
  <1> QED  BY <1>1 DEF LinksStayInGroup, AutoLinks!LinksStayInGroup, MayLink

\* Each way to a link asks for the key: getByIds, the search by key, groupKeyIds.
LEMMA LinksNext == LinksIInv /\ [AutoLinks!Next]_linkVars => LinksIInv'
  <1> SUFFICES ASSUME LinksIInv, [AutoLinks!Next]_linkVars PROVE LinksIInv'
    OBVIOUS
  <1> USE DEF LinksIInv
  <1>1. ASSUME NEW f \in Fragments, NEW ids, AutoLinks!Remember(f, ids)  PROVE LinksIInv'
    <2>1. \A l \in links' : l \in links \/ \E g \in AutoLinks!Allowed(f, ids) : l = <<f, g, "related">>
      BY <1>1 DEF AutoLinks!Remember
    <2>2. \A g \in AutoLinks!Allowed(f, ids) : MayLink(f, g)
      BY DEF AutoLinks!Allowed, AutoLinks!Visible, MayLink
    <2>3. LinksStayInGroup'
      BY <2>1, <2>2 DEF LinksStayInGroup, AutoLinks!LinksStayInGroup, MayLink
    <2> QED  BY <1>1, <2>3 DEF AutoLinks!Remember, FoundMayLink
  <1>2. ASSUME NEW f \in Fragments, AutoLinks!LinkTemporalNeighbors(f)  PROVE LinksIInv'
    <2>1. \A g \in AutoLinks!Visible(f, GroupOf[KeyOf[f]]) : MayLink(f, g)
      BY DEF AutoLinks!Visible, MayLink
    <2>2. LinksStayInGroup'
      BY <1>2, <2>1, CreateLinksKept DEF AutoLinks!LinkTemporalNeighbors
    <2> QED  BY <1>2, <2>2 DEF AutoLinks!LinkTemporalNeighbors, FoundMayLink
  <1>3. ASSUME NEW f \in Fragments, AutoLinks!ProactiveSearch(f)  PROVE LinksIInv'
    BY <1>3 DEF AutoLinks!ProactiveSearch, AutoLinks!Visible, FoundMayLink, MayLink,
       LinksStayInGroup, AutoLinks!LinksStayInGroup
  <1>4. ASSUME NEW f \in Fragments, AutoLinks!ProactiveLink(f)  PROVE LinksIInv'
    <2>1. CASE found[f] = {}
      BY <1>4, <2>1 DEF AutoLinks!ProactiveLink, FoundMayLink, LinksStayInGroup, AutoLinks!LinksStayInGroup
    <2>2. CASE found[f] # {}
      <3>1. PICK g \in found[f] :
              /\ found' = [found EXCEPT ![f] = @ \ {g}]
              /\ stored' = stored
              /\ UNCHANGED links \/ AutoLinks!CreateLinks(f, {g}, "related")
        BY <1>4, <2>2 DEF AutoLinks!ProactiveLink
      <3>2. \A h \in {g} : MayLink(f, h)
        BY DEF FoundMayLink
      <3>3. LinksStayInGroup'
        BY <3>1, <3>2, CreateLinksKept DEF LinksStayInGroup, AutoLinks!LinksStayInGroup
      <3> QED  BY <3>1, <3>3 DEF FoundMayLink
    <2> QED  BY <2>1, <2>2
  <1>5. ASSUME NEW f \in Fragments, AutoLinks!Forget(f)  PROVE LinksIInv'
    BY <1>5 DEF AutoLinks!Forget, FoundMayLink, LinksStayInGroup, AutoLinks!LinksStayInGroup
  <1>6. ASSUME UNCHANGED <<links, found>>, stored' \subseteq Fragments  PROVE LinksIInv'
    BY <1>6 DEF FoundMayLink, LinksStayInGroup, AutoLinks!LinksStayInGroup
  <1> QED
    BY <1>1, <1>2, <1>3, <1>4, <1>5, <1>6
    DEF AutoLinks!Next, linkVars, AutoLinks!CheckAssertion, AutoLinks!ExtractSymbolicClaims,
        AutoLinks!Judge, AutoLinks!Supersede, FoundMayLink

\* For all keys, groups, settings and orders of the work that inserts leave behind: a link
\* made after an insert stays in the group of the writer's key (RememberPostProcessor).
THEOREM LinksInGroup == AutoLinks!Spec => []LinksStayInGroup
  <1>1. LinksIInv => LinksStayInGroup
    BY DEF LinksIInv
  <1> QED  BY <1>1, LinksInit, LinksNext, PTL DEF AutoLinks!Spec, AutoLinks!autolinks, linkVars

---------------------------------------------------------------------------
(* Cases.                                                                  *)

\* Where a remember is once its event is committed
Committed == {"evidence", "precede", "resolve", "done"}
Stages    == {"new", "insert", "append", "number", "commit"} \cup Committed

\* An event is of a fragment past its commit, as are those it came after, and created_at
\* is when its transaction began
EventsCommitted ==
  /\ pc \in [Fragments -> Stages] /\ picked = [f \in Fragments |-> picked[f]]
  /\ begun \in [Fragments -> Nat]
  /\ \A f \in Fragments : /\ pc[f] \in {"new", "insert", "append"} => begun[f] = 0
                          /\ pc[f] \in {"number", "commit"} => begun[f] > 0
  /\ \A e \in events :
       /\ e.of \in Fragments /\ pc[e.of] \in Committed
       /\ e.at = begun[e.of] /\ begun[e.of] > 0
       /\ \A x \in e.after : x \in Fragments /\ pc[x] \in Committed

\* The events before it fit in the rows that getByCase reads
Few(f) == Cardinality(Cases!Earlier(f)) < EventLimit

\* What FixCoversErrors says
Covered ==
  \A fix, err \in events :
    /\ err.of \in fix.after /\ picked[fix.of] = picked[err.of]
    /\ pc[fix.of] = "done" /\ fix.of \notin failed
    /\ fix.of \in ProcedureFrags /\ err.of \in ErrorFrags /\ Few(err.of)
    => <<fix.of, err.of, "resolved_by">> \in edges

\* So no event can come that an event already counts among those before it
CasesIInv == EventsCommitted /\ Covered

\* The operator is the one of the library.
LEMMA CasesCount == ASSUME NEW S  PROVE Cases!Cardinality(S) = Cardinality(S)
  BY Zenon DEF Cases!Cardinality, Cardinality

\* Some of the fragments are no more than all of some.
LEMMA FragmentsCount ==
  ASSUME NEW S \in SUBSET Fragments, NEW T \in SUBSET S
  PROVE  Cardinality(T) \in Nat /\ Cardinality(S) \in Nat /\ Cardinality(T) <= Cardinality(S)
  <1>1. IsFiniteSet(S)
    BY FragmentsAssumption, FS_Subset
  <1> QED  BY <1>1, FS_Subset, FS_CardinalityType

\* No event at first.
LEMMA CasesInit == Cases!Init => CasesIInv
  BY DEF Cases!Init, CasesIInv, EventsCommitted, Committed, Stages, Covered

\* What has begun keeps its case and its time, so there are never fewer events before one.
LEMMA EarlierGrows ==
  ASSUME EventsCommitted, NEW e \in events, begun' \in [Fragments -> Nat],
         \A g \in Fragments : begun[g] > 0 => begun'[g] = begun[g] /\ picked'[g] = picked[g],
         Few(e.of)'
  PROVE  Few(e.of)
  <1> DEFINE f == e.of
             S == Cases!Earlier(f)'
             T == Cases!Earlier(f)
  <1>1. S \subseteq Fragments /\ T \subseteq S
    BY DEF EventsCommitted, Cases!Earlier
  <1>2. Cardinality(S) < EventLimit
    BY DEF Few
  <1> HIDE DEF S, T
  <1>3. Cardinality(T) < EventLimit
    BY <1>1, <1>2, FragmentsCount, CasesAssumption
  <1> QED  BY <1>3 DEF T, Few

\* Only a fragment that is new gets a case, and it has no event yet (_autoAssignCaseId).
LEMMA AssignKept ==
  ASSUME CasesIInv, NEW f \in Fragments, Cases!Assign(f)  PROVE CasesIInv'
  <1>1. /\ pc[f] = "new" /\ pc' = [pc EXCEPT ![f] = "insert"]
        /\ picked' = picked \/ \E k : picked' = [picked EXCEPT ![f] = k]
        /\ UNCHANGED <<events, begun, edges, failed>>
    BY DEF Cases!Assign, Cases!Go, Cases!record
  <1>2. picked' = [g \in Fragments |-> picked'[g]] /\ \A g \in Fragments \ {f} : picked'[g] = picked[g]
    BY <1>1 DEF CasesIInv, EventsCommitted, Stages
  <1>3. \A e \in events : e.of # f /\ pc'[e.of] = pc[e.of] /\ picked'[e.of] = picked[e.of]
    BY <1>1, <1>2 DEF CasesIInv, EventsCommitted, Committed, Stages
  <1>4. EventsCommitted'
    BY <1>1, <1>2, <1>3 DEF CasesIInv, EventsCommitted, Committed, Stages
  <1>5. \A e \in events : Few(e.of)' => Few(e.of)
    BY <1>1, <1>2, EarlierGrows DEF CasesIInv, EventsCommitted
  <1>6. Covered'
    BY <1>1, <1>3, <1>5 DEF CasesIInv, Covered
  <1> QED  BY <1>4, <1>6 DEF CasesIInv

(* Only a fragment between begun and done moves, and gains no event. *)
LEMMA MoveKept ==
  ASSUME CasesIInv, NEW f \in Fragments, NEW label \in Stages,
         Cases!Go(f, label), UNCHANGED <<picked, events, begun>>,
         edges \subseteq edges', failed \subseteq failed',
         label \in {"new", "insert", "append"} => pc[f] \in {"new", "insert", "append"},
         label \in {"number", "commit"} => pc[f] \in {"number", "commit"},
         pc[f] \in Committed => label \in Committed,
         pc[f] \in Committed => label # "done" \/ f \in failed'
  PROVE  CasesIInv'
  <1>1. EventsCommitted'
    BY DEF CasesIInv, EventsCommitted, Cases!Go, Committed, Stages
  <1>2. \A e \in events : pc'[e.of] = "done" /\ e.of \notin failed' => pc[e.of] = "done" /\ e.of \notin failed
    BY DEF CasesIInv, EventsCommitted, Cases!Go, Committed, Stages
  <1>3. \A e \in events : Few(e.of)' => Few(e.of)
    BY EarlierGrows DEF CasesIInv, EventsCommitted
  <1>4. Covered'
    BY <1>2, <1>3 DEF CasesIInv, Covered
  <1> QED  BY <1>1, <1>4 DEF CasesIInv

\* A transaction begins after the others that have.
LEMMA BeginKept ==
  ASSUME CasesIInv, NEW f \in Fragments, Cases!Begin(f)  PROVE CasesIInv'
  <1> DEFINE B == {g \in Fragments : begun[g] > 0}
             t == 1 + Cardinality(B)
  <1>1. /\ pc[f] = "append" /\ pc' = [pc EXCEPT ![f] = "number"]
        /\ begun' = [begun EXCEPT ![f] = t]
        /\ UNCHANGED <<picked, events, edges, failed>>
    BY CasesCount DEF Cases!Begin, Cases!Go
  <1>2. Cardinality(B) \in Nat
    BY FragmentsCount
  <1>3. t \in Nat /\ t > 0
    BY <1>2
  <1> HIDE DEF t
  <1>4. begun[f] = 0 /\ \A e \in events : e.of # f
    BY <1>1 DEF CasesIInv, EventsCommitted, Committed
  <1>5. EventsCommitted'
    BY <1>1, <1>3, <1>4 DEF CasesIInv, EventsCommitted, Committed, Stages
  <1>6. \A e \in events : Few(e.of)' => Few(e.of)
    BY <1>1, <1>4, <1>5, EarlierGrows DEF CasesIInv, EventsCommitted
  <1>7. \A e \in events : pc'[e.of] = pc[e.of]
    BY <1>1, <1>4 DEF CasesIInv, EventsCommitted
  <1>8. Covered'
    BY <1>1, <1>6, <1>7 DEF CasesIInv, Covered
  <1> QED  BY <1>5, <1>8 DEF CasesIInv

\* The event of a fragment is committed once, after all the others there are.
LEMMA EventKept ==
  ASSUME CasesIInv, NEW f \in Fragments, Cases!Commit(f)  PROVE CasesIInv'
  <1> DEFINE new == [of |-> f, at |-> begun[f], no |-> next[f], after |-> {e.of : e \in events}]
  <1>1. /\ pc[f] = "commit" /\ pc' = [pc EXCEPT ![f] = "evidence"]
        /\ events' = events \cup {new}
        /\ UNCHANGED <<picked, begun, edges, failed>>
    BY DEF Cases!Commit, Cases!Go
  <1>2. new.of = f /\ new.at = begun[f] /\ new.after = {e.of : e \in events}
    OBVIOUS
  <1> HIDE DEF new
  <1>3. pc'[f] = "evidence" /\ \A e \in events : e.of # f /\ f \notin e.after /\ pc'[e.of] = pc[e.of]
    BY <1>1 DEF CasesIInv, EventsCommitted, Committed, Stages
  <1>4. EventsCommitted'
    BY <1>1, <1>2, <1>3 DEF CasesIInv, EventsCommitted, Committed, Stages
  <1>5. \A e \in events : Few(e.of)' => Few(e.of)
    BY <1>1, <1>4, EarlierGrows DEF CasesIInv, EventsCommitted
  <1>6. Covered'
    <2> SUFFICES ASSUME NEW fix \in events', NEW err \in events',
                        err.of \in fix.after, picked[fix.of] = picked[err.of],
                        pc'[fix.of] = "done", fix.of \notin failed,
                        fix.of \in ProcedureFrags, err.of \in ErrorFrags, Few(err.of)'
                 PROVE  <<fix.of, err.of, "resolved_by">> \in edges
      BY <1>1 DEF Covered
    <2>1. fix \in events /\ err.of # f /\ err \in events
      BY <1>1, <1>2, <1>3
    <2> QED  BY <1>3, <1>5, <2>1 DEF CasesIInv, Covered
  <1> QED  BY <1>4, <1>6 DEF CasesIInv

\* getByCase returns an error that few came before.
LEMMA ErrorListed ==
  ASSUME EventsCommitted, NEW f, NEW e \in events, picked[e.of] = picked[f], e.of \in ErrorFrags, Few(e.of)
  PROVE  e \in Cases!Listed(f)
  <1> DEFINE E == {o \in Cases!Known(f) : o.of \in ErrorFrags}
             S == {o.of : o \in {x \in E : x.at < e.at}}
             T == Cases!Earlier(e.of)
  <1>1. e \in E
    BY DEF Cases!Known
  <1>2. T \subseteq Fragments /\ S \subseteq T
    BY DEF Cases!Known, Cases!Earlier, EventsCommitted
  <1>3. Cardinality(T) < EventLimit
    BY DEF Few
  <1> HIDE DEF S, T
  <1>4. Cardinality(S) < EventLimit
    BY <1>2, <1>3, FragmentsCount, CasesAssumption
  <1>5. Cases!Cardinality(S) < EventLimit
    BY <1>4, CasesCount
  <1> HIDE DEF E
  <1>6. e \in Cases!First(E)
    BY <1>1, <1>5 DEF Cases!First, S
  <1> QED  BY <1>6 DEF Cases!Listed, E

\* resolve_errors connects the procedure with every error of its case that is committed and
\* that getByCase returns.
LEMMA ResolveKept ==
  ASSUME CasesIInv, NEW f \in Fragments, Cases!Resolve(f)  PROVE CasesIInv'
  <1>1. /\ pc[f] = "resolve" /\ pc' = [pc EXCEPT ![f] = "done"]
        /\ edges \subseteq edges' /\ UNCHANGED <<picked, begun, events, failed>>
    BY DEF Cases!Resolve, Cases!Go
  <1>2. \A e \in events : picked[e.of] = picked[f] /\ f \in ProcedureFrags /\ e.of \in ErrorFrags /\ Few(e.of)
                            => <<f, e.of, "resolved_by">> \in edges'
    BY ErrorListed DEF Cases!Resolve, CasesIInv
  <1>3. EventsCommitted'
    BY <1>1 DEF CasesIInv, EventsCommitted, Committed, Stages
  <1>4. \A e \in events : e.of = f \/ pc'[e.of] = pc[e.of]
    BY <1>1 DEF CasesIInv, EventsCommitted, Stages
  <1>5. \A e \in events : Few(e.of)' => Few(e.of)
    BY <1>1, <1>3, EarlierGrows DEF CasesIInv, EventsCommitted
  <1>6. Covered'
    BY <1>1, <1>2, <1>4, <1>5 DEF CasesIInv, Covered
  <1> QED  BY <1>3, <1>6 DEF CasesIInv

\* Old events go with their edges.
LEMMA DeleteExpiredKept ==
  ASSUME CasesIInv, Cases!DeleteExpired  PROVE CasesIInv'
  <1>1. PICK old :
          /\ events' = {e \in events : e.of \notin old}
          /\ edges' = {d \in edges : d[1] \notin old /\ d[2] \notin old}
          /\ UNCHANGED <<pc, picked, begun, failed>>
    BY DEF Cases!DeleteExpired
  <1>2. EventsCommitted'
    BY <1>1 DEF CasesIInv, EventsCommitted
  <1>3. \A e \in events : Few(e.of)' => Few(e.of)
    BY <1>1, <1>2, EarlierGrows DEF CasesIInv, EventsCommitted
  <1>4. Covered'
    BY <1>1, <1>3 DEF CasesIInv, Covered
  <1> QED  BY <1>2, <1>4 DEF CasesIInv

\* Every step of the recording of events keeps the invariant.
LEMMA CasesNext == CasesIInv /\ [Cases!Next]_(Cases!cases) => CasesIInv'
  <1> SUFFICES ASSUME CasesIInv, [Cases!Next]_(Cases!cases) PROVE CasesIInv'
    OBVIOUS
  <1>1. ASSUME NEW f \in Fragments, Cases!Insert(f)  PROVE CasesIInv'
    <2>1. /\ pc[f] = "insert" /\ \E l \in {"done", "append"} : Cases!Go(f, l)
          /\ UNCHANGED <<picked, events, begun, edges, failed>>
      BY <1>1 DEF Cases!Insert, Cases!record
    <2> QED  BY <2>1, MoveKept DEF Committed, Stages
  <1>2. ASSUME NEW f \in Fragments, Cases!Number(f)  PROVE CasesIInv'
    <2>1. /\ pc[f] = "number" /\ Cases!Go(f, "commit")
          /\ UNCHANGED <<picked, events, begun, edges, failed>>
      BY <1>2 DEF Cases!Number
    <2> QED  BY <2>1, MoveKept DEF Committed, Stages
  <1>3. ASSUME NEW f \in Fragments, Cases!Evidence(f) \/ Cases!Precede(f)  PROVE CasesIInv'
    <2>1. /\ \E l \in {"precede", "resolve"} : Cases!Go(f, l)
          /\ edges \subseteq edges' /\ UNCHANGED <<picked, events, begun, failed>>
      BY <1>3 DEF Cases!Evidence, Cases!Precede
    <2> QED  BY <2>1, MoveKept DEF Committed, Stages
  <1>4. ASSUME NEW f \in Fragments, Cases!Fail(f)  PROVE CasesIInv'
    <2>1. /\ \E l \in {"precede", "resolve", "done"} : Cases!Go(f, l)
          /\ f \in failed' /\ failed \subseteq failed' /\ UNCHANGED <<picked, events, begun, edges>>
      BY <1>4 DEF Cases!Fail
    <2> QED  BY <2>1, MoveKept DEF Committed, Stages
  <1>5. ASSUME UNCHANGED <<pc, picked, begun, events, edges, failed>>  PROVE CasesIInv'
    <2>1. EventsCommitted'
      BY <1>5 DEF CasesIInv, EventsCommitted
    <2>2. \A e \in events : Few(e.of)' => Few(e.of)
      BY <1>5, <2>1, EarlierGrows DEF CasesIInv, EventsCommitted
    <2>3. Covered'
      BY <1>5, <2>2 DEF CasesIInv, Covered
    <2> QED  BY <2>1, <2>3 DEF CasesIInv
  <1>6. ASSUME NEW u \in backfill, Cases!Backfill(u)  PROVE CasesIInv'
    BY <1>5, <1>6 DEF Cases!Backfill, Cases!record
  <1>7. CASE UNCHANGED Cases!cases
    BY <1>5, <1>7 DEF Cases!cases, Cases!record
  <1> QED
    BY <1>1, <1>2, <1>3, <1>4, <1>6, <1>7, AssignKept, BeginKept, EventKept, ResolveKept, DeleteExpiredKept
    DEF Cases!Next

\* However many transactions overlap, in whatever order they begin and commit: a fix that was
\* recorded without a failure has its edge to every error of its case whose event was
\* committed before and had fewer errors begun before it than getByCase reads
\* (_recordCaseEvent, CaseEventStore.append, getByCase).
THEOREM FixesCoverErrors == Cases!Spec => []FixCoversErrors
  <1>1. CasesIInv => FixCoversErrors
    BY CasesCount DEF CasesIInv, Covered, Few, FixCoversErrors, Cases!FixCoversErrors
  <1> QED  BY <1>1, CasesInit, CasesNext, PTL DEF Cases!Spec

---------------------------------------------------------------------------
(* Feedback on links.                                                      *)

\* What feedback does to a link, as the audit log has it
Ops == {"reinforce", "decay", "quarantine"}
LogEntry == [op : Ops, old : Int, new : Int, at : Nat, by : Nat, raises : Nat]

\* The shape of the state
FeedbackTyped ==
  /\ weight \in Int /\ lock \in Threads \cup {None} /\ audit \in Seq(LogEntry)
  /\ th \in [Threads -> [pc : {"idle", "select", "update"}, op : Ops \cup {"none"}, old : Int]]
  /\ \A t \in Threads : th[t].pc # "idle" => th[t].op \in Ops
  /\ lastDecay \in Nat \cup {None} /\ pending \in BOOLEAN /\ now \in Nat /\ feedbackCrashes \in Nat
  /\ raises \in Nat

\* Who is about to update holds the row, which is as it read it
RowHeld == \A t \in Threads : th[t].pc = "update" => lock = t /\ th[t].old = weight

\* The row's weight is that of the last entry, or more and raised since
Accounted ==
  Len(audit) > 0 =>
    \/ weight = audit[Len(audit)].new /\ audit[Len(audit)].raises <= raises
    \/ audit[Len(audit)].new < weight /\ audit[Len(audit)].raises < raises

Decaying(t) == th[t].pc # "idle" /\ th[t].op \in Feedback!Limited

\* One decay is under way at most, and not within the window of the last
OneDecay ==
  /\ \A t \in Threads : Decaying(t) => pending /\ ~Feedback!JustDecayed
  /\ \A t, u \in Threads : Decaying(t) /\ Decaying(u) => t = u

\* Entries are of the past, those of this process not after the noted decay
Noted ==
  /\ lastDecay # None => lastDecay <= now
  /\ \A i \in 1..Len(audit) :
       /\ audit[i].by <= feedbackCrashes
       /\ audit[i].op \in Feedback!Limited /\ audit[i].by = feedbackCrashes
            => lastDecay # None /\ audit[i].at <= lastDecay

\* Neither half of FeedbackAccounted is inductive: Accounted ties the next entry to the last
\* by the lock (RowHeld), OneDecay and Noted tie a decay under way to those in the log
FeedbackIInv == FeedbackTyped /\ RowHeld /\ Accounted /\ OneDecay /\ Noted /\ FeedbackAccounted

\* The greater of two numbers.
LEMMA MaxOfTwo ==
  ASSUME NEW a \in Int, NEW b \in Int
  PROVE  Feedback!Max({a, b}) = IF a <= b THEN b ELSE a
  <1>1. \E x \in {a, b} : \A y \in {a, b} : x >= y
    OBVIOUS
  <1>2. Feedback!Max({a, b}) \in {a, b} /\ \A y \in {a, b} : Feedback!Max({a, b}) >= y
    BY <1>1 DEF Feedback!Max
  <1> QED  BY <1>2

\* The lesser of two numbers is one of them.
LEMMA MinOfTwo ==
  ASSUME NEW a \in Int, NEW b \in Int
  PROVE  Feedback!Min({a, b}) \in {a, b}
  <1>1. \E x \in {a, b} : \A y \in {a, b} : x <= y
    OBVIOUS
  <1> QED  BY <1>1 DEF Feedback!Min

\* GREATEST(0, LEAST(2, w)) is a number.
LEMMA ClampTyped == ASSUME NEW w \in Int  PROVE Feedback!Clamp(w) \in Int
  <1>1. Feedback!Min({40, w}) \in Int
    BY MinOfTwo
  <1> QED  BY <1>1, MaxOfTwo DEF Feedback!Clamp

\* Each call has its step.
LEMMA DeltaTyped == \A op \in Ops : op \in DOMAIN Feedback!Delta /\ Feedback!Delta[op] \in Int
  BY DEF Ops, Feedback!Delta

\* The log is empty at first.
LEMMA FeedbackInit == Feedback!Init => FeedbackIInv
  <1> SUFFICES ASSUME Feedback!Init  PROVE FeedbackIInv
    OBVIOUS
  <1> USE FeedbackAssumption DEF Feedback!Init, Feedback!Idle, Feedback!One
  <1>1. Len(audit) = 0 /\ audit \in Seq(LogEntry) /\ weight \in Int
    OBVIOUS
  <1>5. FeedbackTyped
    <2>1. th \in [Threads -> [pc : {"idle", "select", "update"}, op : Ops \cup {"none"}, old : Int]]
      OBVIOUS
    <2> QED  BY <1>1, <2>1 DEF FeedbackTyped
  <1>2. RowHeld /\ OneDecay
    BY DEF RowHeld, OneDecay, Decaying
  <1>3. Accounted /\ Noted
    BY <1>1 DEF Accounted, Noted
  <1>4. FeedbackAccounted
    BY <1>1 DEF FeedbackAccounted, Feedback!FeedbackAccounted, Feedback!AuditChains, Feedback!DecaysApart
  <1> QED  BY <1>2, <1>3, <1>4, <1>5 DEF FeedbackIInv

\* Entries are entries.
LEMMA LogTyped == ASSUME FeedbackTyped  PROVE \A i \in 1..Len(audit) : audit[i] \in LogEntry
  BY DEF FeedbackTyped

(* The log of the link and what it says stay when no entry is added. *)
LEMMA LogKept ==
  ASSUME FeedbackAccounted, UNCHANGED audit  PROVE FeedbackAccounted'
  BY DEF FeedbackAccounted, Feedback!FeedbackAccounted, Feedback!AuditChains, Feedback!DecaysApart

\* A decay is let in only when none is under way and the window is over.
LEMMA CallKept ==
  ASSUME FeedbackIInv, NEW t \in Threads, NEW op \in Ops, Feedback!Call(t, op)  PROVE FeedbackIInv'
  <1> USE DEF FeedbackIInv
  <1>1. /\ th[t].pc = "idle" /\ th' = [th EXCEPT ![t] = [pc |-> "select", op |-> op, old |-> 0]]
        /\ ~ (op \in Feedback!Limited /\ (pending \/ Feedback!JustDecayed))
        /\ pending' = (pending \/ op \in Feedback!Limited)
        /\ UNCHANGED <<weight, lock, raises, audit, lastDecay, now, feedbackCrashes>>
    BY DEF Feedback!Call
  <1>2. /\ th'[t] = [pc |-> "select", op |-> op, old |-> 0]
        /\ \A u \in Threads \ {t} : th'[u] = th[u]
    BY <1>1 DEF FeedbackTyped
  <1>3. FeedbackTyped'
    BY <1>1 DEF FeedbackTyped
  <1>4. RowHeld'
    BY <1>1, <1>2 DEF RowHeld
  <1>5. Accounted' /\ Noted'
    BY <1>1 DEF Accounted, Noted
  <1>6. OneDecay'
    <2>1. Feedback!JustDecayed' <=> Feedback!JustDecayed
      BY <1>1 DEF Feedback!JustDecayed
    <2>2. Decaying(t)' <=> op \in Feedback!Limited
      BY <1>2 DEF Decaying
    <2>3. \A u \in Threads \ {t} : Decaying(u)' <=> Decaying(u)
      BY <1>2 DEF Decaying
    <2>4. Decaying(t)' => \A u \in Threads \ {t} : ~Decaying(u)'
      BY <1>1, <2>2, <2>3 DEF OneDecay
    <2>5. \A u \in Threads : Decaying(u)' => pending' /\ ~Feedback!JustDecayed'
      BY <1>1, <2>1, <2>2, <2>3 DEF OneDecay
    <2>6. \A u, v \in Threads : Decaying(u)' /\ Decaying(v)' => u = v
      BY <2>3, <2>4 DEF OneDecay
    <2> QED  BY <2>5, <2>6 DEF OneDecay
  <1> QED  BY <1>1, <1>3, <1>4, <1>5, <1>6, LogKept

\* SELECT ... FOR UPDATE takes the row that nobody holds.
LEMMA SelectKept ==
  ASSUME FeedbackIInv, NEW t \in Threads, Feedback!Select(t)  PROVE FeedbackIInv'
  <1> USE DEF FeedbackIInv
  <1>1. /\ th[t].pc = "select" /\ lock = None /\ lock' = t
        /\ th' = [th EXCEPT ![t].pc = "update", ![t].old = weight]
        /\ UNCHANGED <<weight, raises, audit, lastDecay, pending, now, feedbackCrashes>>
    BY DEF Feedback!Select
  <1>2. /\ th'[t].pc = "update" /\ th'[t].op = th[t].op /\ th'[t].old = weight
        /\ \A u \in Threads \ {t} : th'[u] = th[u]
    BY <1>1 DEF FeedbackTyped
  <1>3. FeedbackTyped'
    BY <1>1 DEF FeedbackTyped
  <1>4. RowHeld'
    BY <1>1, <1>2, FeedbackAssumption DEF RowHeld
  <1>5. Accounted' /\ Noted'
    BY <1>1 DEF Accounted, Noted
  <1>6. (Feedback!JustDecayed)' = Feedback!JustDecayed /\ \A u \in Threads : Decaying(u)' = Decaying(u)
    BY <1>1, <1>2 DEF Decaying, Feedback!JustDecayed
  <1>7. OneDecay'
    BY <1>1, <1>6 DEF OneDecay
  <1> QED  BY <1>1, <1>3, <1>4, <1>5, <1>7, LogKept

\* Who gives the row back leaves the others as they are.
LEMMA ReleaseKept ==
  ASSUME FeedbackTyped, RowHeld, OneDecay, NEW t \in Threads, Feedback!Release(t),
         th[t].pc # "idle"
  PROVE  /\ lock' \in Threads \cup {None} /\ pending' \in BOOLEAN
         /\ th' \in [Threads -> [pc : {"idle", "select", "update"}, op : Ops \cup {"none"}, old : Int]]
         /\ th'[t].pc = "idle" /\ \A u \in Threads \ {t} : th'[u] = th[u]
         /\ \A u \in Threads : Decaying(u)' => u # t /\ Decaying(u) /\ pending'
         /\ \A u \in Threads : th'[u].pc = "update" => u # t /\ lock = u /\ lock' = u
  <1>1. /\ lock' = (IF lock = t THEN None ELSE lock)
        /\ pending' = (pending /\ th[t].op \notin Feedback!Limited)
        /\ th' = [th EXCEPT ![t] = [pc |-> "idle", op |-> "none", old |-> 0]]
    BY DEF Feedback!Release, Feedback!Idle
  <1>2. /\ th' \in [Threads -> [pc : {"idle", "select", "update"}, op : Ops \cup {"none"}, old : Int]]
        /\ th'[t].pc = "idle" /\ \A u \in Threads \ {t} : th'[u] = th[u]
    BY <1>1 DEF FeedbackTyped
  <1>3. lock' \in Threads \cup {None} /\ pending' \in BOOLEAN
    BY <1>1 DEF FeedbackTyped
  <1>4. \A u \in Threads : Decaying(u)' => u # t /\ Decaying(u) /\ pending'
    <2> SUFFICES ASSUME NEW u \in Threads, Decaying(u)'  PROVE u # t /\ Decaying(u) /\ pending'
      OBVIOUS
    <2>1. u # t /\ Decaying(u)
      BY <1>2 DEF Decaying
    <2>2. pending /\ ~Decaying(t)
      BY <2>1 DEF OneDecay
    <2> QED  BY <1>1, <2>1, <2>2 DEF Decaying
  <1>5. \A u \in Threads : th'[u].pc = "update" => u # t /\ lock = u /\ lock' = u
    BY <1>1, <1>2 DEF RowHeld
  <1> QED  BY <1>2, <1>3, <1>4, <1>5

\* A rollback leaves row and log alone.
LEMMA AbortKept ==
  ASSUME FeedbackIInv, NEW t \in Threads, Feedback!Abort(t)  PROVE FeedbackIInv'
  <1> USE DEF FeedbackIInv
  <1>1. /\ th[t].pc # "idle" /\ Feedback!Release(t)
        /\ UNCHANGED <<weight, raises, audit, lastDecay, now, feedbackCrashes>>
    BY DEF Feedback!Abort
  <1>2. FeedbackTyped'
    BY <1>1, ReleaseKept DEF FeedbackTyped
  <1>3. RowHeld'
    BY <1>1, ReleaseKept DEF RowHeld
  <1>4. Accounted' /\ Noted'
    BY <1>1 DEF Accounted, Noted
  <1>5. OneDecay'
    BY <1>1, ReleaseKept DEF OneDecay, Feedback!JustDecayed
  <1> QED  BY <1>1, <1>2, <1>3, <1>4, <1>5, LogKept

\* The entry of a commit: it found the weight there is, for it held the row.
LEMMA CommitLogged ==
  ASSUME FeedbackIInv, NEW t \in Threads, Feedback!Commit(t)
  PROVE  \E e \in LogEntry :
           /\ audit' = Append(audit, e)
           /\ e.op = th[t].op /\ e.old = weight /\ e.new = weight' /\ e.at = now /\ e.by = feedbackCrashes
           /\ e.raises = raises
  <1> USE DEF FeedbackIInv
  <1> DEFINE new == Feedback!Clamp(weight + Feedback!Delta[th[t].op])
             e == [op |-> th[t].op, old |-> th[t].old, new |-> new, at |-> now, by |-> feedbackCrashes,
                   raises |-> raises]
  <1>1. th[t].pc = "update" /\ weight' = new /\ audit' = Append(audit, e)
    BY DEF Feedback!Commit
  <1>2. th[t].op \in Ops
    BY <1>1 DEF FeedbackTyped
  <1>3. new \in Int
    BY <1>2, DeltaTyped, ClampTyped DEF FeedbackTyped
  <1>4. th[t].old = weight /\ th[t].old \in Int
    BY <1>1 DEF RowHeld, FeedbackTyped
  <1> HIDE DEF new
  <1>5. now \in Nat /\ feedbackCrashes \in Nat /\ raises \in Nat
    BY DEF FeedbackTyped
  <1>6. e \in LogEntry
    BY <1>2, <1>3, <1>4, <1>5 DEF LogEntry
  <1> QED  BY <1>1, <1>4, <1>6

\* A commit adds the entry that the log needs next.
LEMMA CommitKept ==
  ASSUME FeedbackIInv, NEW t \in Threads, Feedback!Commit(t)  PROVE FeedbackIInv'
  <1> USE DEF FeedbackIInv
  <1> DEFINE n == Len(audit)
  <1>1. /\ th[t].pc = "update" /\ Feedback!Release(t)
        /\ lastDecay' = (IF th[t].op \in Feedback!Limited THEN now ELSE lastDecay)
        /\ UNCHANGED <<raises, now, feedbackCrashes>>
    BY DEF Feedback!Commit
  <1>2. PICK e \in LogEntry :
          /\ audit' = Append(audit, e)
          /\ e.op = th[t].op /\ e.old = weight /\ e.new = weight' /\ e.at = now /\ e.by = feedbackCrashes
          /\ e.raises = raises
    BY CommitLogged
  <1>3. /\ n \in Nat /\ audit' \in Seq(LogEntry) /\ Len(audit') = n + 1 /\ audit'[n + 1] = e
        /\ \A i \in 1..n : audit'[i] = audit[i] /\ audit[i] \in LogEntry
    BY <1>2 DEF FeedbackTyped
  <1>4. lock = t /\ th[t].op \in Ops
    BY <1>1 DEF RowHeld, FeedbackTyped
  <1> HIDE DEF n
  <1>5. th[t].op \in Feedback!Limited => Decaying(t) /\ ~Feedback!JustDecayed
    BY <1>1 DEF OneDecay, Decaying
  <1>6. FeedbackTyped'
    <2>1. weight' \in Int /\ lastDecay' \in Nat \cup {None}
      BY <1>1, <1>2 DEF FeedbackTyped, LogEntry
    <2>2. \A u \in Threads : th'[u].pc # "idle" => th'[u].op \in Ops
      BY <1>1, ReleaseKept DEF FeedbackTyped
    <2> QED  BY <1>1, <1>3, <2>1, <2>2, ReleaseKept DEF FeedbackTyped
  <1>7. RowHeld'
    BY <1>1, <1>4, ReleaseKept DEF RowHeld
  <1>8. Accounted'
    BY <1>1, <1>2, <1>3 DEF Accounted, FeedbackTyped
  <1>9. OneDecay'
    <2>1. \A u \in Threads : Decaying(u)' => u # t /\ Decaying(u) /\ pending'
      BY <1>1, ReleaseKept
    <2>2. ASSUME NEW u \in Threads, Decaying(u)'  PROVE ~Feedback!JustDecayed'
      <3>1. th[t].op \notin Feedback!Limited
        BY <1>5, <2>1, <2>2 DEF OneDecay
      <3>2. lastDecay' = lastDecay /\ ~Feedback!JustDecayed
        BY <1>1, <2>1, <2>2, <3>1 DEF OneDecay
      <3> QED  BY <1>1, <3>2 DEF Feedback!JustDecayed
    <2> QED  BY <2>1, <2>2 DEF OneDecay
  <1>10. Noted'
    <2>1. lastDecay' # None => lastDecay' <= now'
      BY <1>1 DEF Noted, FeedbackTyped
    <2>2. ASSUME NEW i \in 1..n
          PROVE  /\ audit[i].by <= feedbackCrashes
                 /\ audit[i].op \in Feedback!Limited /\ audit[i].by = feedbackCrashes
                      => lastDecay' # None /\ audit[i].at <= lastDecay'
      <3>1. now # None /\ now \in Nat
        BY FeedbackAssumption DEF FeedbackTyped
      <3>2. audit[i].at \in Nat
        BY <1>3 DEF LogEntry
      <3> QED  BY <1>1, <3>1, <3>2 DEF Noted, n, FeedbackTyped
    <2>3. /\ e.by <= feedbackCrashes
          /\ e.op \in Feedback!Limited => lastDecay' # None /\ e.at <= lastDecay'
      BY <1>1, <1>2, FeedbackAssumption DEF FeedbackTyped
    <2>4. \A i \in 1..(n + 1) : i \in 1..n \/ i = n + 1
      BY <1>3
    <2> QED  BY <1>1, <1>3, <2>1, <2>2, <2>3, <2>4 DEF Noted
  <1>11. Feedback!AuditChains'
    <2> SUFFICES ASSUME NEW i \in 2..(n + 1)
                 PROVE  \/ audit'[i].old = audit'[i - 1].new
                        \/ /\ audit'[i - 1].raises < audit'[i].raises
                           /\ audit'[i - 1].new < audit'[i].old
      BY <1>3 DEF Feedback!AuditChains
    <2>1. CASE i = n + 1
      <3>1. n > 0 /\ audit'[i - 1] = audit[n] /\ audit'[i].old = weight /\ audit'[i].raises = raises
        BY <1>2, <1>3, <2>1
      <3> QED  BY <3>1 DEF Accounted, n
    <2>2. CASE i \in 2..n
      <3>1. audit'[i] = audit[i] /\ audit'[i - 1] = audit[i - 1]
        BY <1>3, <2>2
      <3> QED
        BY <2>2, <3>1 DEF n, FeedbackAccounted, Feedback!FeedbackAccounted, Feedback!AuditChains
    <2> QED  BY <1>3, <2>1, <2>2
  <1>12. Feedback!DecaysApart'
    <2> SUFFICES ASSUME NEW i \in 1..(n + 1), NEW j \in 1..(n + 1), i < j,
                        audit'[i].op \in Feedback!Limited, audit'[j].op \in Feedback!Limited,
                        audit'[i].by = audit'[j].by
                 PROVE  audit'[j].at - audit'[i].at >= FeedbackWindow
      BY <1>3 DEF Feedback!DecaysApart
    <2>0. i \in 1..n /\ audit'[i] = audit[i]
      BY <1>3
    <2>1. CASE j = n + 1
      <3>1. ~Feedback!JustDecayed /\ lastDecay # None /\ audit[i].at <= lastDecay
        BY <1>2, <1>3, <1>5, <2>0, <2>1 DEF Noted, n
      <3>2. audit[i].at \in Nat /\ now \in Nat /\ lastDecay \in Nat /\ FeedbackWindow \in Nat
        BY <1>3, <2>0, <3>1, FeedbackAssumption DEF LogEntry, FeedbackTyped
      <3> QED  BY <1>2, <1>3, <2>0, <2>1, <3>1, <3>2 DEF Feedback!JustDecayed
    <2>2. CASE j \in 1..n
      <3>1. audit'[j] = audit[j] /\ {audit[i].op, audit[j].op} \subseteq Feedback!Limited
        BY <1>3, <2>0, <2>2
      <3> QED
        BY <2>0, <2>2, <3>1 DEF n, FeedbackTyped, FeedbackAccounted, Feedback!FeedbackAccounted, Feedback!DecaysApart
    <2> QED  BY <1>3, <2>1, <2>2
  <1> QED
    BY <1>6, <1>7, <1>8, <1>9, <1>10, <1>11, <1>12 DEF FeedbackAccounted, Feedback!FeedbackAccounted

\* createLink and recalls raise the weight when nobody holds the row.
LEMMA RaiseKept ==
  ASSUME FeedbackIInv, NEW w \in Int, Feedback!RaiseTo(w)  PROVE FeedbackIInv'
  <1> USE DEF FeedbackIInv
  <1>1. /\ lock = None /\ weight' = w /\ w > weight /\ raises' = raises + 1
        /\ UNCHANGED <<lock, audit, th, lastDecay, pending, now, feedbackCrashes>>
    BY DEF Feedback!RaiseTo
  <1>2. weight \in Int /\ raises \in Nat
    BY DEF FeedbackTyped
  <1>3. FeedbackTyped'
    BY <1>1, <1>2 DEF FeedbackTyped
  <1>4. RowHeld'
    BY <1>1, FeedbackAssumption DEF RowHeld
  <1>5. Accounted'
    <2> SUFFICES ASSUME Len(audit) > 0  PROVE Accounted'
      BY <1>1 DEF Accounted
    <2>1. Len(audit) \in 1..Len(audit)
      BY DEF FeedbackTyped
    <2>2. audit[Len(audit)].new \in Int /\ audit[Len(audit)].raises \in Nat
      BY <2>1, LogTyped DEF LogEntry
    <2> DEFINE n == audit[Len(audit)].new
               r == audit[Len(audit)].raises
    <2>3. n <= weight /\ r <= raises
      BY <1>2, <2>2 DEF Accounted
    <2>4. n < w /\ r < raises + 1
      BY <1>1, <1>2, <2>2, <2>3
    <2>5. audit'[Len(audit')].new = n /\ audit'[Len(audit')].raises = r
      BY <1>1
    <2> HIDE DEF n, r
    <2> QED  BY <1>1, <2>4, <2>5 DEF Accounted
  <1>6. OneDecay' /\ Noted'
    BY <1>1 DEF OneDecay, Noted, Decaying, Feedback!JustDecayed
  <1> QED  BY <1>1, <1>3, <1>4, <1>5, <1>6, LogKept

\* They raise it to some number.
LEMMA Raises ==
  ASSUME FeedbackIInv, Feedback!Relink \/ Feedback!CoRetrieve
  PROVE  \E w \in Int : Feedback!RaiseTo(w)
  <1>1. weight + Feedback!One \in Int
    BY DEF FeedbackIInv, FeedbackTyped, Feedback!One
  <1>2. LinkWeights \subseteq Int
    BY FeedbackAssumption
  <1> QED  BY <1>1, <1>2, Zenon DEF Feedback!Relink, Feedback!CoRetrieve

\* Time only lets decays lie further apart.
LEMMA TickKept == ASSUME FeedbackIInv, Feedback!Tick  PROVE FeedbackIInv'
  <1> USE DEF FeedbackIInv
  <1>1. /\ now' = now + 1 /\ now \in Nat
        /\ UNCHANGED <<weight, lock, raises, audit, th, lastDecay, pending, feedbackCrashes>>
    BY DEF Feedback!Tick, FeedbackTyped
  <1>2. FeedbackTyped' /\ RowHeld' /\ Accounted'
    BY <1>1 DEF FeedbackTyped, RowHeld, Accounted
  <1>3. OneDecay'
    <2>1. ~Feedback!JustDecayed => ~Feedback!JustDecayed'
      BY <1>1, FeedbackAssumption DEF Feedback!JustDecayed, FeedbackTyped
    <2> QED  BY <1>1, <2>1 DEF OneDecay, Decaying
  <1>4. Noted'
    BY <1>1 DEF Noted, FeedbackTyped
  <1> QED  BY <1>1, <1>2, <1>3, <1>4, LogKept

\* A new process notes no decay, and no entry is its own.
LEMMA CrashKept == ASSUME FeedbackIInv, Feedback!Crash  PROVE FeedbackIInv'
  <1> USE DEF FeedbackIInv
  <1>1. /\ feedbackCrashes' = feedbackCrashes + 1 /\ feedbackCrashes \in Nat
        /\ th' = [t \in Threads |-> [pc |-> "idle", op |-> "none", old |-> 0]] /\ lock' = None
        /\ lastDecay' = None /\ pending' = FALSE
        /\ UNCHANGED <<weight, raises, audit, now>>
    BY DEF Feedback!Crash, Feedback!Idle, FeedbackTyped
  <1>2. \A t \in Threads : th'[t].pc = "idle"
    BY <1>1
  <1>3. FeedbackTyped'
    <2>1. th' \in [Threads -> [pc : {"idle", "select", "update"}, op : Ops \cup {"none"}, old : Int]]
      BY <1>1
    <2>2. /\ lock' \in Threads \cup {None} /\ lastDecay' \in Nat \cup {None} /\ pending' \in BOOLEAN
      BY <1>1
    <2>5. feedbackCrashes' \in Nat
      BY <1>1
    <2>6. weight' \in Int /\ now' \in Nat /\ raises' \in Nat
      BY <1>1 DEF FeedbackTyped
    <2>4. audit' \in Seq(LogEntry)
      BY <1>1 DEF FeedbackTyped
    <2>3. \A t \in Threads : th'[t].pc # "idle" => th'[t].op \in Ops
      BY <1>2
    <2> QED  BY <2>1, <2>2, <2>3, <2>4, <2>5, <2>6, Zenon DEF FeedbackTyped
  <1>4. RowHeld' /\ OneDecay'
    BY <1>2 DEF RowHeld, OneDecay, Decaying
  <1>5. Accounted'
    BY <1>1 DEF Accounted
  <1>6. Noted'
    <2>1. \A i \in 1..Len(audit) : audit[i].by \in Nat /\ audit[i].by <= feedbackCrashes
      BY LogTyped DEF Noted, LogEntry
    <2> QED  BY <1>1, <2>1 DEF Noted
  <1> QED  BY <1>1, <1>3, <1>4, <1>5, <1>6, LogKept

\* Every step keeps the invariant.
LEMMA FeedbackNext == FeedbackIInv /\ [Feedback!Next]_(Feedback!reconsolidation) => FeedbackIInv'
  <1> SUFFICES ASSUME FeedbackIInv, [Feedback!Next]_(Feedback!reconsolidation)  PROVE FeedbackIInv'
    OBVIOUS
  <1>1. CASE UNCHANGED Feedback!reconsolidation
    <2> USE <1>1 DEF Feedback!reconsolidation, FeedbackIInv
    <2>1. FeedbackTyped' /\ RowHeld' /\ Accounted' /\ OneDecay' /\ Noted'
      BY DEF FeedbackTyped, RowHeld, Accounted, OneDecay, Noted, Decaying, Feedback!JustDecayed
    <2> QED  BY <2>1, LogKept
  <1>2. DOMAIN Feedback!Delta = Ops
    BY DEF Feedback!Delta, Ops
  <1> QED
    BY <1>1, <1>2, CallKept, SelectKept, CommitKept, AbortKept, RaiseKept, TickKept, CrashKept,
       Raises DEF Feedback!Next

\* For any number of calls beside each other, any window, any weights that createLink is asked
\* for and any number of restarts: the log accounts for the link's weight, but for what
\* createLink and recalls raise it by, and two decays by one process lie a window apart
\* (reconsolidate, createLink, buildCoRetrievalLinks).
THEOREM FeedbackIsAccounted == Feedback!Spec => []FeedbackAccounted
  <1>1. FeedbackIInv => FeedbackAccounted
    BY DEF FeedbackIInv
  <1> QED  BY <1>1, FeedbackInit, FeedbackNext, PTL DEF Feedback!Spec

---------------------------------------------------------------------------
(* The activity log.                                                       *)

\* frag:activity, and the records of tool calls in flight
Activity == [tools : BOOLEAN, frag : BOOLEAN, reflected : BOOLEAN]
Records == [op : {"remember", "recall", "reflect", "mark"}, read : Activity]

\* The record of a reflect in flight has a mark right behind it
ReflectionIInv ==
  /\ log \in Activity /\ flight \in Seq(Records)
  /\ \A i \in 1..Len(flight) : flight[i].op = "reflect" =>
       i < Len(flight) /\ flight[i + 1].op = "mark"

\* Nothing is in flight at first.
LEMMA ReflectionInit == Reflection!Init => ReflectionIInv
  BY DEF Reflection!Init, Reflection!Empty, ReflectionIInv, Activity

\* A record in flight carries the log it read.
LEMMA GetRecord ==
  ASSUME log \in Activity, NEW op \in {"remember", "recall", "reflect", "mark"}
  PROVE  Reflection!Get(op) \in Records /\ Reflection!Get(op).op = op
  BY DEF Reflection!Get, Records

\* The oldest record is written; the others move up.
LEMMA WriteBackKept ==
  ASSUME ReflectionIInv, Reflection!WriteBack  PROVE ReflectionIInv'
  <1>1. /\ flight # <<>> /\ log' = Reflection!Noted(Head(flight)) /\ flight' = Tail(flight)
    BY DEF Reflection!WriteBack
  <1>2. Head(flight) \in Records
    BY <1>1 DEF ReflectionIInv
  <1>3. log' \in Activity
    BY <1>1, <1>2 DEF Reflection!Noted, Records, Activity
  <1>4. flight' \in Seq(Records) /\ Len(flight') = Len(flight) - 1 /\ Len(flight) \in Nat
    BY <1>1 DEF ReflectionIInv
  <1>5. \A i \in 1..Len(flight') : flight'[i] = flight[i + 1]
    BY <1>1, <1>4 DEF ReflectionIInv
  <1>6. ASSUME NEW i \in 1..Len(flight'), flight'[i].op = "reflect"
        PROVE  i < Len(flight') /\ flight'[i + 1].op = "mark"
    <2>1. i + 1 \in 1..Len(flight) /\ flight[i + 1].op = "reflect"
      BY <1>4, <1>5, <1>6
    <2>2. i + 1 < Len(flight) /\ flight[(i + 1) + 1].op = "mark"
      BY <2>1 DEF ReflectionIInv
    <2>3. i + 1 \in 1..Len(flight')
      BY <1>4, <2>1, <2>2
    <2> QED  BY <1>4, <1>5, <2>2, <2>3
  <1> QED  BY <1>3, <1>4, <1>6 DEF ReflectionIInv

(* Records join at the end, that of a reflect with its mark behind it. *)
LEMMA AppendKept ==
  ASSUME ReflectionIInv, NEW x \in Records, x.op # "reflect",
         flight' = Append(flight, x), log' = log
  PROVE  ReflectionIInv'
  <1>1. /\ flight' \in Seq(Records) /\ Len(flight') = Len(flight) + 1 /\ Len(flight) \in Nat
        /\ flight'[Len(flight) + 1] = x
        /\ \A i \in 1..Len(flight) : flight'[i] = flight[i]
    BY DEF ReflectionIInv
  <1>2. ASSUME NEW i \in 1..Len(flight'), flight'[i].op = "reflect"
        PROVE  i < Len(flight') /\ flight'[i + 1].op = "mark"
    <2>1. i \in 1..Len(flight) /\ flight[i].op = "reflect"
      BY <1>1, <1>2
    <2>2. i < Len(flight) /\ flight[i + 1].op = "mark"
      BY <2>1 DEF ReflectionIInv
    <2>3. i + 1 \in 1..Len(flight)
      BY <1>1, <2>1, <2>2
    <2> QED  BY <1>1, <2>2, <2>3
  <1> QED  BY <1>1, <1>2 DEF ReflectionIInv

\* The record of a reflect is issued with the mark behind it.
LEMMA PairKept ==
  ASSUME ReflectionIInv, NEW x \in Records, NEW y \in Records, y.op = "mark",
         flight' = flight \o <<x, y>>, log' = log
  PROVE  ReflectionIInv'
  <1>1. /\ flight' \in Seq(Records) /\ Len(flight') = Len(flight) + 2 /\ Len(flight) \in Nat
        /\ flight'[Len(flight) + 2] = y
        /\ \A i \in 1..Len(flight) : flight'[i] = flight[i]
    BY DEF ReflectionIInv
  <1>2. ASSUME NEW i \in 1..Len(flight'), flight'[i].op = "reflect"
        PROVE  i < Len(flight') /\ flight'[i + 1].op = "mark"
    <2>1. CASE i \in 1..Len(flight)
      <3>1. i < Len(flight) /\ flight[i + 1].op = "mark"
        BY <1>1, <1>2, <2>1 DEF ReflectionIInv
      <3>2. i + 1 \in 1..Len(flight)
        BY <1>1, <2>1, <3>1
      <3> QED  BY <1>1, <3>1, <3>2
    <2>2. CASE i = Len(flight) + 1
      BY <1>1, <2>2
    <2>3. CASE i = Len(flight) + 2
      BY <1>1, <1>2, <2>3
    <2> QED  BY <1>1, <2>1, <2>2, <2>3
  <1> QED  BY <1>1, <1>2 DEF ReflectionIInv

\* Every step keeps records and marks in pairs.
LEMMA ReflectionNext == ReflectionIInv /\ [Reflection!Next]_(Reflection!reflection) => ReflectionIInv'
  <1> SUFFICES ASSUME ReflectionIInv, [Reflection!Next]_(Reflection!reflection)  PROVE ReflectionIInv'
    OBVIOUS
  <1>1. ASSUME NEW op \in {"remember", "recall"}, Reflection!ToolCall(op)  PROVE ReflectionIInv'
    <2>1. flight' = Append(flight, Reflection!Get(op)) /\ log' = log
      BY <1>1 DEF Reflection!ToolCall
    <2>2. Reflection!Get(op) \in Records /\ Reflection!Get(op).op # "reflect"
      BY GetRecord DEF ReflectionIInv
    <2> QED  BY <2>1, <2>2, AppendKept
  <1>2. ASSUME NEW r \in Runs, Reflection!Mark(r)  PROVE ReflectionIInv'
    <2>1. /\ log' = log
          /\ \/ flight' = flight \o <<Reflection!Get("mark")>>
             \/ flight' = flight \o <<Reflection!Get("reflect"), Reflection!Get("mark")>>
      BY <1>2 DEF Reflection!Mark
    <2>2. /\ Reflection!Get("mark") \in Records /\ Reflection!Get("mark").op = "mark"
          /\ Reflection!Get("reflect") \in Records
      BY GetRecord DEF ReflectionIInv
    <2>3. flight \o <<Reflection!Get("mark")>> = Append(flight, Reflection!Get("mark"))
      BY <2>2 DEF ReflectionIInv
    <2> QED  BY <2>1, <2>2, <2>3, AppendKept, PairKept
  <1>3. CASE Reflection!LogExpires
    BY <1>3 DEF Reflection!LogExpires, Reflection!Empty, ReflectionIInv, Activity
  <1>4. CASE Reflection!Crash
    BY <1>4 DEF Reflection!Crash, ReflectionIInv
  <1>5. CASE UNCHANGED <<log, flight>>
    BY <1>5 DEF ReflectionIInv
  <1>6. CASE UNCHANGED Reflection!reflection
    BY <1>5, <1>6 DEF Reflection!reflection, Reflection!logged
  <1>7. ASSUME NEW r \in Runs,
               \/ Reflection!Ask(r) \/ Reflection!AutoReflect(r) \/ Reflection!Summarised(r)
               \/ Reflection!Fail(r) \/ Reflection!Save(r) \/ Reflection!Close(r)
        PROVE  ReflectionIInv'
    BY <1>5, <1>7 DEF Reflection!Ask, Reflection!AutoReflect, Reflection!Summarised,
       Reflection!Fail, Reflection!Save, Reflection!Close, Reflection!logged
  <1> QED
    BY <1>1, <1>2, <1>3, <1>4, <1>6, <1>7, WriteBackKept DEF Reflection!Next

\* MarkOutlivesRecord of a step
Outlives ==
  log.reflected /\ ~log'.reflected =>
    \/ log' = Reflection!Empty
    \/ Head(flight).op # "reflect"
    \/ \E k \in 2..Len(flight) : flight[k].op = "mark"

\* A record of a reflect that is written without the mark has one behind it.
LEMMA StepOutlives ==
  ReflectionIInv /\ [Reflection!Next]_(Reflection!reflection) => [Outlives]_(Reflection!reflection)
  <1> SUFFICES ASSUME ReflectionIInv, Reflection!Next  PROVE Outlives
    OBVIOUS
  <1>1. CASE Reflection!WriteBack
    <2> SUFFICES ASSUME Head(flight).op = "reflect"  PROVE \E k \in 2..Len(flight) : flight[k].op = "mark"
      BY DEF Outlives
    <2>1. flight # <<>> /\ Len(flight) \in Nat /\ Head(flight) = flight[1] /\ 1 \in 1..Len(flight)
      BY <1>1 DEF Reflection!WriteBack, ReflectionIInv
    <2>2. 1 < Len(flight) /\ flight[1 + 1].op = "mark"
      BY <2>1 DEF ReflectionIInv
    <2>3. 2 \in 2..Len(flight) /\ flight[2].op = "mark"
      BY <2>1, <2>2
    <2> QED  BY <2>3
  <1>2. CASE log' = Reflection!Empty \/ log' = log
    <2>1. log' = log => (log'.reflected <=> log.reflected)
      BY Zenon
    <2> QED  BY <1>2, <2>1, Zenon DEF Outlives
  <1>3. Reflection!WriteBack \/ log' = Reflection!Empty \/ log' = log
    BY Zenon DEF Reflection!Next, Reflection!ToolCall, Reflection!LogExpires, Reflection!Crash,
       Reflection!Ask, Reflection!AutoReflect, Reflection!Summarised, Reflection!Fail,
       Reflection!Save, Reflection!Close, Reflection!Mark, Reflection!logged
  <1> QED  BY <1>1, <1>2, <1>3

\* For any number of reflects, tool calls and restarts: the record of a reflect takes the
\* mark of the session away only while another mark is still to be written
\* (tool_reflect, SessionActivityTracker.record, markReflected).
THEOREM MarksOutliveRecords == Reflection!Spec => MarkOutlivesRecord
  BY ReflectionInit, ReflectionNext, StepOutlives, PTL
  DEF Reflection!Spec, MarkOutlivesRecord, Reflection!MarkOutlivesRecord, Outlives

---------------------------------------------------------------------------
(* OAuth.                                                                  *)

\* Families are numbered as they are issued, so a new one is new
FamiliesIssued ==
  \A e \in entries : {"kind", "family"} \subseteq DOMAIN e /\ e.family \in Nat /\ e.family <= issued

\* OneChain itself is inductive once a new family is known to be new
AccessIInv ==
  /\ issued \in Nat
  /\ ~redis => tokenGrants = {} /\ FamiliesIssued
  /\ OneChain

\* A place to go on from
Goes(e) == e.kind \in {"code", "refresh"}

\* Nothing is issued at first.
LEMMA AccessInit == Access!Init => AccessIInv
  BY DEF Access!Init, AccessIInv, FamiliesIssued, OneChain, Access!OneChain

(* Entries that leave, and others that are no place to go on from. *)
LEMMA FewerKept ==
  ASSUME AccessIInv, UNCHANGED <<redis, issued>>, ~redis => tokenGrants' = {},
         ~redis => \A e \in entries' : e \in entries
                     \/ /\ {"kind", "family"} \subseteq DOMAIN e /\ ~Goes(e)
                        /\ e.family \in Nat /\ e.family <= issued
  PROVE  AccessIInv'
  BY DEF AccessIInv, FamiliesIssued, OneChain, Access!OneChain, Goes

(* One of the entries that go on is replaced, or a new family begins. *)
LEMMA NextKept ==
  ASSUME AccessIInv, redis' = redis, ~redis,
         tokenGrants' = tokenGrants, issued' \in Nat, issued <= issued',
         NEW gone, NEW new, new \in entries', {"kind", "family"} \subseteq DOMAIN new,
         new.family \in Nat, new.family <= issued',
         \A e \in entries : Goes(e) /\ e.family = new.family => e = gone,
         \A e \in entries' : \/ e \in entries /\ e # gone
                             \/ e = new
                             \/ /\ {"kind", "family"} \subseteq DOMAIN e /\ ~Goes(e)
                                /\ e.family \in Nat /\ e.family <= issued'
  PROVE  AccessIInv'
  <1>1. FamiliesIssued'
    <2> SUFFICES ASSUME NEW e \in entries'
                 PROVE  {"kind", "family"} \subseteq DOMAIN e /\ e.family \in Nat /\ e.family <= issued'
      BY DEF FamiliesIssued
    <2>1. CASE e \in entries
      BY <2>1 DEF AccessIInv, FamiliesIssued
    <2> QED  BY <2>1
  <1>2. ASSUME NEW e \in entries', NEW f \in entries', Goes(e), Goes(f), e.family = f.family
        PROVE  e = f
    <2>1. CASE e \in entries /\ f \in entries
      BY <1>2, <2>1 DEF AccessIInv, OneChain, Access!OneChain, Goes
    <2> QED  BY <1>2, <2>1
  <1>3. OneChain'
    BY <1>2 DEF OneChain, Access!OneChain, Goes
  <1> QED  BY <1>1, <1>3 DEF AccessIInv

\* Two tokens of one family, of which one goes on.
LEMMA PairShape ==
  ASSUME NEW base, NEW family, NEW key, NEW last
  PROVE  \E a, r : /\ Access!Pair(base, family, key, last) = {a, r}
                   /\ {"kind", "family"} \subseteq DOMAIN a /\ {"kind", "family"} \subseteq DOMAIN r
                   /\ a.kind = "access" /\ r.kind = "refresh"
                   /\ a.family = family /\ r.family = family
  <1> DEFINE a == Access!Entry(base + 1, "access", family, key, time + AccessTtl, time + AccessTtl)
             r == Access!Entry(base + 2, "refresh", family, key, time + last, time + Access!RefreshTtl)
  <1>1. Access!Pair(base, family, key, last) = {a, r}
    BY DEF Access!Pair
  <1>2. /\ {"kind", "family"} \subseteq DOMAIN a /\ {"kind", "family"} \subseteq DOMAIN r
        /\ a.kind = "access" /\ r.kind = "refresh" /\ a.family = family /\ r.family = family
    BY DEF Access!Entry
  <1> QED  BY <1>1, <1>2

\* An authorization has a family of its own.
LEMMA AuthorizeKept == ASSUME AccessIInv, NEW k, Access!Authorize(k)  PROVE AccessIInv'
  <1> DEFINE new == Access!Entry(issued + 1, "code", issued + 1, IF k \in active THEN k ELSE None, time + 1, time + 1)
  <1>1. /\ entries' = entries \cup {new} /\ issued' = issued + 1
        /\ redis' = redis /\ tokenGrants' = tokenGrants
    BY DEF Access!Authorize
  <1>2. {"kind", "family"} \subseteq DOMAIN new /\ new.family = issued + 1
    BY DEF Access!Entry
  <1> HIDE DEF new
  <1>3. CASE redis
    BY <1>1, <1>3 DEF AccessIInv, OneChain, Access!OneChain
  <1>4. CASE ~redis
    <2>1. \A e \in entries : e.family # new.family /\ e # new
      BY <1>2, <1>4 DEF AccessIInv, FamiliesIssued
    <2>2. /\ issued' \in Nat /\ issued <= issued' /\ new \in entries'
          /\ new.family \in Nat /\ new.family <= issued'
          /\ \A e \in entries' : (e \in entries /\ e # new) \/ e = new
      BY <1>1, <1>2, <2>1 DEF AccessIInv
    <2>3. \A e \in entries : Goes(e) /\ e.family = new.family => e = new
      BY <2>1
    <2> QED  BY <1>1, <1>2, <1>4, <2>2, <2>3, NextKept
  <1> QED  BY <1>3, <1>4

\* A code or refresh token leaves as its successor comes.
LEMMA RedeemKept ==
  ASSUME AccessIInv, NEW e \in entries, NEW s, Access!Redeem(e, s)  PROVE AccessIInv'
  <1>1. Goes(e) /\ redis' = redis
    BY DEF Access!Redeem, Access!Stored, Goes
  <1>2. CASE redis
    BY <1>1, <1>2 DEF Access!Redeem, AccessIInv, OneChain, Access!OneChain
  <1>3. CASE ~redis /\ time > e.until
    <2>1. entries' = entries \ {e} /\ UNCHANGED <<redis, issued, tokenGrants>>
      BY <1>3 DEF Access!Redeem
    <2> QED  BY <1>3, <2>1, FewerKept DEF AccessIInv
  <1>4. CASE ~redis /\ ~(time > e.until)
    <2>1. PICK last : /\ entries' = (entries \ {e}) \cup Access!Pair(issued, e.family, Access!Binding(s, e), last)
                      /\ issued' = issued + 2 /\ tokenGrants' = tokenGrants
      BY <1>4 DEF Access!Redeem
    <2>2. PICK a, r : /\ entries' = (entries \ {e}) \cup {a, r}
                      /\ {"kind", "family"} \subseteq DOMAIN a /\ {"kind", "family"} \subseteq DOMAIN r
                      /\ a.kind = "access" /\ r.kind = "refresh"
                      /\ a.family = e.family /\ r.family = e.family
      BY <2>1, PairShape
    <2>3. \A f \in entries : Goes(f) /\ f.family = r.family => f = e
      BY <1>1, <1>4, <2>2 DEF AccessIInv, OneChain, Access!OneChain, Goes
    <2>4. e.family \in Nat /\ e.family <= issued /\ issued \in Nat /\ issued + 2 \in Nat /\ e.family <= issued + 2
      BY <1>4 DEF AccessIInv, FamiliesIssued
    <2>5. ~Goes(a)
      BY <2>2 DEF Goes
    <2> QED  BY <1>1, <1>4, <2>1, <2>2, <2>3, <2>4, <2>5, NextKept
  <1> QED  BY <1>2, <1>3, <1>4

\* The use of an access token gives no other place to go on from.
LEMMA UseKept == ASSUME AccessIInv, NEW e \in entries, Access!Use(e)  PROVE AccessIInv'
  <1>1. e.kind = "access" /\ UNCHANGED <<redis, issued, tokenGrants>>
    BY DEF Access!Use, Access!Stored
  <1>2. CASE Access!Expired(e)
    BY <1>1, <1>2, FewerKept DEF Access!Use, AccessIInv
  <1>3. CASE ~Access!Expired(e)
    <2>1. PICK x : entries' = (entries \ {e}) \cup {[e EXCEPT !.ttl = x]}
      BY <1>3 DEF Access!Use
    <2>2. ~redis => /\ {"kind", "family"} \subseteq DOMAIN [e EXCEPT !.ttl = x]
                    /\ ~Goes([e EXCEPT !.ttl = x])
                    /\ [e EXCEPT !.ttl = x].family \in Nat /\ [e EXCEPT !.ttl = x].family <= issued
      BY <1>1 DEF AccessIInv, FamiliesIssued, Goes
    <2> QED  BY <1>1, <2>1, <2>2, FewerKept DEF AccessIInv
  <1> QED  BY <1>2, <1>3

\* Every request and every sweep keeps the invariant.
LEMMA AccessNext == AccessIInv /\ [Access!Next]_(Access!vars) => AccessIInv'
  <1> SUFFICES ASSUME AccessIInv, [Access!Next]_(Access!vars)  PROVE AccessIInv'
    OBVIOUS
  <1>1. ASSUME NEW g \in tokenGrants, Access!Delete(g) \/ Access!Save(g) \/ Access!Break(g)
        PROVE  AccessIInv'
    <2>1. redis /\ UNCHANGED <<redis, issued>>
      BY <1>1 DEF Access!Delete, Access!Save, Access!Break, AccessIInv
    <2> QED  BY <2>1 DEF AccessIInv, OneChain, Access!OneChain
  <1>2. CASE Access!Cleanup \/ Access!Restart \/ Access!Tick
    <2>1. /\ UNCHANGED <<redis, issued>> /\ (tokenGrants' = tokenGrants \/ tokenGrants' = {})
          /\ \A e \in entries' : e \in entries
      BY <1>2 DEF Access!Cleanup, Access!Restart, Access!Tick
    <2> QED  BY <2>1, FewerKept DEF AccessIInv
  <1>3. ASSUME NEW k, Access!SetStatus(k)  PROVE AccessIInv'
    BY <1>3, FewerKept DEF Access!SetStatus, AccessIInv
  <1>4. CASE UNCHANGED Access!vars
    BY <1>4, FewerKept DEF Access!vars, AccessIInv
  <1> QED
    BY <1>1, <1>2, <1>3, <1>4, AuthorizeKept, UseKept, RedeemKept DEF Access!Next, Access!Granting

\* For any keys, lifetimes and number of requests: in the process's maps an authorization has
\* at most one code or refresh token to go on from (handleToken, handleAuthorize).
THEOREM AuthorizationsGoOnOnce == Access!Spec => []OneChain
  <1>1. AccessIInv => OneChain
    BY DEF AccessIInv
  <1> QED  BY <1>1, AccessInit, AccessNext, PTL DEF Access!Spec

---------------------------------------------------------------------------
(* Tool calls.                                                             *)

\* The tools that change rows
Writers == {"remember", "batch_remember", "link", "amend", "reflect", "tool_feedback",
            "memory_consolidate", "forget"}

\* The table of permissions and that of capabilities agree on the tools that write.
LEMMA WritersNeedGrants ==
  ASSUME NEW t \in Writers
  PROVE  /\ t \in Tools!Tools
         /\ Tools!Capability[t] \in {"memory:write", "memory:destructive"}
         /\ Tools!Needs[t] \in {"write", "admin"}
         /\ Tools!Schema[t].dryRun <=> t \in {"remember", "forget", "link", "amend"}
  <1>1. t \in Tools!Tools
    BY DEF Writers, Tools!Tools, Tools!Schema
  <1>2. Tools!Capability[t] \in {"memory:write", "memory:destructive"}
    BY <1>1 DEF Writers, Tools!Capability
  <1>3. Tools!Needs[t] \in {"write", "admin"}
    BY <1>1 DEF Writers, Tools!Needs
  <1>4. Tools!Schema[t].dryRun <=> t \in {"remember", "forget", "link", "amend"}
    BY DEF Writers, Tools!Schema, Tools!RememberDefinition, Tools!BatchRememberDefinition,
       Tools!LinkDefinition, Tools!AmendDefinition, Tools!ReflectDefinition,
       Tools!ToolFeedbackDefinition, Tools!MemoryConsolidateDefinition, Tools!ForgetDefinition
  <1> QED  BY <1>1, <1>2, <1>3, <1>4

\* The tools that search
Searchers == {"recall", "context", "remember"}

\* What they need is what the registry declares.
LEMMA SearchersDeclared ==
  ASSUME NEW t \in Searchers
  PROVE  Tools!Needs[t] = IF Tools!Capability[t] = "memory:read" THEN "read" ELSE "write"
  <1>1. t \in Tools!Tools
    BY DEF Searchers, Tools!Tools, Tools!Schema
  <1> QED  BY <1>1 DEF Searchers, Tools!Needs, Tools!Capability

\* What the property says of one step
RowsGranted ==
  changed' # changed => /\ Tools!Capability[lastCall'.tool] \in {"memory:write", "memory:destructive"}
                        /\ Tools!Master \/ grants \cap {"write", "admin"} # {}
                        /\ ~lastCall'.dry

TracesGranted ==
  traces' # traces =>
    LET declared == IF Tools!Capability[lastCall'.tool] = "memory:read" THEN "read" ELSE "write"
    IN  Tools!Master \/ grants \cap {declared, "admin"} # {}

\* A call that changes rows passed the table and was no dry run.
LEMMA CallGranted == ASSUME Tools!HandleToolsCall  PROVE RowsGranted
  <1> SUFFICES ASSUME changed' # changed
               PROVE  /\ Tools!Capability[lastCall'.tool] \in {"memory:write", "memory:destructive"}
                      /\ Tools!Master \/ grants \cap {"write", "admin"} # {}
                      /\ ~lastCall'.dry
    BY DEF RowsGranted
  <1>1. PICK t \in Tools!Tools, complete \in BOOLEAN, dry \in BOOLEAN, session \in BOOLEAN :
          LET c == [tool |-> t, complete |-> complete, dry |-> dry, session |-> session]
          IN  /\ lastCall'.tool = t /\ lastCall'.dry = dry
              /\ dry => Tools!Schema[t].dryRun
              /\ Tools!CheckPermission(t) /\ Tools!Writes(c)
    BY DEF Tools!HandleToolsCall
  <1>2. t \in Writers
    BY <1>1 DEF Tools!Writes, Writers
  <1>3. Tools!Master \/ grants \cap {"write", "admin"} # {}
    BY <1>1, <1>2, WritersNeedGrants DEF Tools!CheckPermission
  <1>4. ~dry
    BY <1>1, <1>2, WritersNeedGrants DEF Tools!Writes, Tools!Plans
  <1> QED  BY <1>1, <1>2, <1>3, <1>4, WritersNeedGrants

\* A call that leaves traces passed the table with what its tool declares.
LEMMA SearchGranted == ASSUME Tools!HandleToolsCall  PROVE TracesGranted
  <1> SUFFICES ASSUME traces' # traces
               PROVE  LET declared == IF Tools!Capability[lastCall'.tool] = "memory:read"
                                      THEN "read" ELSE "write"
                      IN  Tools!Master \/ grants \cap {declared, "admin"} # {}
    BY DEF TracesGranted
  <1>1. PICK t \in Tools!Tools, complete \in BOOLEAN, dry \in BOOLEAN, session \in BOOLEAN :
          LET c == [tool |-> t, complete |-> complete, dry |-> dry, session |-> session]
          IN  lastCall'.tool = t /\ Tools!CheckPermission(t) /\ Tools!Searches(c)
    BY SMTT(60) DEF Tools!HandleToolsCall
  <1>2. t \in Searchers
    BY <1>1 DEF Tools!Searches, Searchers
  <1>3. Tools!Master \/ Tools!Needs[t] \in grants \/ "admin" \in grants
    BY <1>1 DEF Tools!CheckPermission
  <1> QED  BY <1>1, <1>2, <1>3, SearchersDeclared

\* For any versions, presets and number of requests, notifications included: rows change
\* only by a granted call of a declared writer, and what a search leaves behind, the counts of
\* what it found and their links, only by a call whose key may do what the registry declares
\* of its tool (dispatchJsonRpc, checkPermission).
THEOREM ToolChangesGranted == Tools!Spec => ChangesAreGranted
  <1>1. ASSUME Tools!Next, changed' # changed \/ traces' # traces  PROVE Tools!HandleToolsCall
    BY <1>1 DEF Tools!Next, Tools!HandleInitialize, Tools!HandleToolsList
  <1>2. ASSUME Tools!Next  PROVE RowsGranted /\ TracesGranted
    <2>1. CASE changed' # changed \/ traces' # traces
      BY <1>1, <1>2, <2>1, CallGranted, SearchGranted
    <2>2. CASE changed' = changed /\ traces' = traces
      BY <2>2 DEF RowsGranted, TracesGranted
    <2> QED  BY <2>1, <2>2
  <1>3. [Tools!Next]_(Tools!toolcall) => [RowsGranted /\ TracesGranted]_(Tools!toolcall)
    BY <1>2
  <1> QED  BY <1>3, PTL DEF Tools!Spec, ChangesAreGranted, Tools!ChangesAreGranted, RowsGranted, TracesGranted

---------------------------------------------------------------------------
(* Request limits.                                                         *)

\* The times of what was let through, none of them to come
Passed(s) == s \in Seq(Int) /\ \A i \in 1..Len(s) : s[i] <= minute

\* The bucket is the end of the history of requests; what was dropped has left the window
Bucket ==
  /\ hits \in Seq(Int) /\ Len(hits) <= Len(let.request)
  /\ \A i \in 1..Len(hits) : hits[i] = let.request[Len(let.request) - Len(hits) + i]
  /\ \A i \in 1..(Len(let.request) - Len(hits)) : let.request[i] <= minute - LimitWindow

\* The last rotations are those of this window, and those before came from earlier windows,
\* of which the latest has no more than RotateMax
Rotations ==
  /\ rotate \in [count : Nat, start : Int] /\ rotate.start <= minute
  /\ rotate.count <= RotateMax /\ rotate.count <= Len(let.rotate)
  /\ \A i \in 1..(Len(let.rotate) - rotate.count) : let.rotate[i] <= rotate.start
  /\ \A i \in 1..(Len(let.rotate) - rotate.count - RotateMax) : let.rotate[i] <= rotate.start - LimitWindow

\* WindowKept, with what the limiters have of the history it speaks of
LimitsIInv ==
  /\ minute \in Nat /\ let = [request |-> let.request, rotate |-> let.rotate]
  /\ Passed(let.request) /\ Passed(let.rotate) /\ Bucket /\ Rotations
  /\ Limits!WindowKept

\* Nothing was let through at first.
LEMMA LimitsInit == Limits!Init => LimitsIInv
  BY LimitsAssumption DEF Limits!Init, LimitsIInv, Passed, Bucket, Rotations, Limits!WindowKept, Limits!Spaced

\* What stays of a sequence when its first n elements are dropped.
LEMMA SuffixFacts ==
  ASSUME NEW s \in Seq(Int), NEW n \in 0..Len(s)
  PROVE  LET r == SubSeq(s, n + 1, Len(s))  IN
         r \in Seq(Int) /\ Len(r) = Len(s) - n /\ \A i \in 1..Len(r) : r[i] = s[i + n]
  <1>1. CASE n = Len(s)
    BY <1>1
  <1>2. CASE n < Len(s)
    <2> DEFINE r == SubSeq(s, n + 1, Len(s))
    <2>1. Len(s) \in Nat /\ n + 1 \in 1..Len(s) /\ Len(s) - (n + 1) + 1 = Len(s) - n
      BY <1>2
    <2>2. r \in Seq(Int) /\ Len(r) = Len(s) - n
      BY <2>1
    <2>3. \A i \in 1..(Len(s) - n) : r[i] = s[(n + 1) + i - 1] /\ (n + 1) + i - 1 = i + n
      BY <2>1
    <2> QED  BY <2>2, <2>3
  <1>3. n = Len(s) \/ n < Len(s)
    <2>1. Len(s) \in Nat
      OBVIOUS
    <2> QED  BY <2>1
  <1> QED  BY <1>1, <1>2, <1>3, Zenon

\* The hits that are dropped have left the window.
LEMMA DropKept ==
  ASSUME LimitsIInv, NEW n \in 0..Len(hits), Limits!Stale(n)
  PROVE  LET s == Limits!InWindow(n)  IN
         /\ s \in Seq(Int) /\ Len(s) = Len(hits) - n
         /\ \A i \in 1..Len(s) : s[i] = let.request[Len(let.request) - Len(s) + i]
         /\ \A i \in 1..(Len(let.request) - Len(s)) : let.request[i] <= minute - LimitWindow
  <1> DEFINE s == Limits!InWindow(n)
  <1> DEFINE L == let.request
  <1>1. /\ s \in Seq(Int) /\ Len(s) = Len(hits) - n
        /\ \A i \in 1..Len(s) : s[i] = hits[i + n]
    <2>1. hits \in Seq(Int) /\ Len(hits) \in Nat
      BY DEF LimitsIInv, Bucket
    <2> QED  BY <2>1, SuffixFacts DEF Limits!InWindow
  <1>2. /\ hits \in Seq(Int) /\ L \in Seq(Int) /\ Len(hits) <= Len(L) /\ LimitWindow \in Nat /\ minute \in Nat
        /\ \A i \in 1..Len(hits) : hits[i] = L[Len(L) - Len(hits) + i]
        /\ \A i \in 1..(Len(L) - Len(hits)) : L[i] <= minute - LimitWindow
        /\ \A i \in 1..n : hits[i] <= minute - LimitWindow
    BY LimitsAssumption DEF LimitsIInv, Bucket, Passed, Limits!Stale
  <1> HIDE DEF s, L
  <1>3. ASSUME NEW i \in 1..Len(s)  PROVE s[i] = L[Len(L) - Len(s) + i]
    <2>1. i + n \in 1..Len(hits) /\ Len(L) - Len(hits) + (i + n) = Len(L) - Len(s) + i
      BY <1>1, <1>2
    <2>2. s[i] = hits[i + n]
      BY <1>1, <1>2
    <2>3. hits[i + n] = L[Len(L) - Len(hits) + (i + n)]
      BY <2>1, <1>2
    <2> QED  BY <2>1, <2>2, <2>3
  <1>4. ASSUME NEW i \in 1..(Len(L) - Len(s))  PROVE L[i] <= minute - LimitWindow
    <2>1. CASE i \in 1..(Len(L) - Len(hits))
      BY <2>1, <1>2
    <2>2. CASE i \notin 1..(Len(L) - Len(hits))
      <3> DEFINE k == i - (Len(L) - Len(hits))
      <3>1. k \in 1..n /\ k \in 1..Len(hits) /\ Len(L) - Len(hits) + k = i
        BY <2>2, <1>1, <1>2
      <3>2. L[i] = hits[k]
        BY <3>1, <1>2
      <3> QED  BY <3>1, <3>2, <1>2
    <2> QED  BY <2>1, <2>2
  <1> QED  BY <1>1, <1>3, <1>4 DEF s, L

\* One more at the end of a history, a window after the one that n come after.
LEMMA SpacedAppend ==
  ASSUME NEW L \in Seq(Int), NEW n \in Nat, NEW t \in Int, Limits!Spaced(L, n), n > 0,
         \A i \in 1..Len(L) : i + n = Len(L) + 1 => L[i] <= t - LimitWindow
  PROVE  Limits!Spaced(Append(L, t), n)
  <1>1. Append(L, t) \in Seq(Int) /\ Len(Append(L, t)) = Len(L) + 1 /\ Append(L, t)[Len(L) + 1] = t
        /\ \A i \in 1..Len(L) : Append(L, t)[i] = L[i]
    OBVIOUS
  <1> SUFFICES ASSUME NEW i \in 1..(Len(L) + 1), i + n <= Len(L) + 1
               PROVE  Append(L, t)[i + n] - Append(L, t)[i] >= LimitWindow
    BY <1>1 DEF Limits!Spaced
  <1>2. i \in 1..Len(L) /\ L[i] \in Int
    <2>1. Len(L) \in Nat
      OBVIOUS
    <2>2. i \in 1..Len(L)
      BY <2>1
    <2> QED  BY <2>2
  <1>3. CASE i + n = Len(L) + 1
    BY <1>1, <1>2, <1>3, LimitsAssumption
  <1>4. CASE i + n # Len(L) + 1
    <2>0. Len(L) \in Nat /\ i \in Nat \ {0}
      OBVIOUS
    <2>2. ASSUME NEW a \in Nat, NEW b \in Nat \ {0}, b + n <= a + 1, b + n # a + 1  PROVE b + n \in 1..a
      BY <2>2
    <2>1. i + n \in 1..Len(L)
      BY <2>0, <2>2, <1>4
    <2> QED  BY <1>1, <1>2, <2>1 DEF Limits!Spaced
  <1> QED  BY <1>3, <1>4

\* A request, let through or not.
LEMMA AllowKept == ASSUME LimitsIInv, Limits!Allow  PROVE LimitsIInv'
  <1>1. PICK n \in 0..Len(hits) :
          /\ Limits!Stale(n)
          /\ IF Len(hits) - n >= MaxHits
             THEN hits' = Limits!InWindow(n) /\ UNCHANGED let
             ELSE hits' = Append(Limits!InWindow(n), minute) /\ Limits!Count("request")
    BY DEF Limits!Allow
  <1>2. UNCHANGED <<minute, rotate>>
    BY DEF Limits!Allow
  <1> DEFINE s == Limits!InWindow(n)
  <1> DEFINE L == let.request
  <1>3. /\ s \in Seq(Int) /\ Len(s) = Len(hits) - n
        /\ \A i \in 1..Len(s) : s[i] = L[Len(L) - Len(s) + i]
        /\ \A i \in 1..(Len(L) - Len(s)) : L[i] <= minute - LimitWindow
    BY <1>1, DropKept
  <1>4. /\ minute \in Nat /\ L \in Seq(Int) /\ Len(hits) <= Len(L) /\ hits \in Seq(Int) /\ LimitWindow \in Nat
        /\ MaxHits \in Nat /\ \A i \in 1..Len(L) : L[i] <= minute
    BY LimitsAssumption DEF LimitsIInv, Passed, Bucket
  <1>5. CASE Len(hits) - n >= MaxHits
    <2>1. hits' = s /\ let' = let
      BY <1>1, <1>5
    <2>2. Bucket'
      BY <2>1, <1>2, <1>3, <1>4 DEF Bucket
    <2> QED  BY <2>1, <2>2, <1>2 DEF LimitsIInv, Passed, Rotations, Limits!WindowKept
  <1>6. CASE Len(hits) - n < MaxHits
    <2>1. hits' = Append(s, minute) /\ let' = [let EXCEPT !["request"] = Append(@, minute)]
      BY <1>1, <1>3, <1>4, <1>6 DEF Limits!Count
    <2>2. let' = [request |-> Append(L, minute), rotate |-> let.rotate]
      BY <2>1 DEF LimitsIInv
    <2> HIDE DEF s, L
    <2>3. /\ Append(L, minute) \in Seq(Int) /\ Len(Append(L, minute)) = Len(L) + 1
          /\ Append(L, minute)[Len(L) + 1] = minute
          /\ \A i \in 1..Len(L) : Append(L, minute)[i] = L[i]
          /\ Append(s, minute) \in Seq(Int) /\ Len(Append(s, minute)) = Len(s) + 1
          /\ Append(s, minute)[Len(s) + 1] = minute
          /\ \A i \in 1..Len(s) : Append(s, minute)[i] = s[i]
      BY <1>3, <1>4
    <2>4. let'.request = Append(L, minute) /\ let'.rotate = let.rotate
      BY <2>2
    <2>5. Passed(let.request)'
      BY <2>3, <2>4, <1>2, <1>4 DEF Passed
    <2>6. Bucket'
      <3>1. ASSUME NEW i \in 1..(Len(s) + 1)
            PROVE  Append(s, minute)[i] = Append(L, minute)[Len(L) - Len(s) + i]
        <4>1. CASE i = Len(s) + 1
          BY <4>1, <2>3, <1>3, <1>4
        <4>2. CASE i # Len(s) + 1
          <5>0. Len(s) \in Nat /\ Len(L) \in Nat /\ Len(s) <= Len(L)
            BY <1>3, <1>4
          <5>1. i \in 1..Len(s) /\ Len(L) - Len(s) + i \in 1..Len(L)
            BY <4>2, <5>0
          <5> QED  BY <5>1, <2>3, <1>3
        <4> QED  BY <4>1, <4>2
      <3>2. ASSUME NEW i \in 1..(Len(L) - Len(s))  PROVE Append(L, minute)[i] <= minute - LimitWindow
        BY <3>2, <2>3, <1>3, <1>4
      <3>3. hits' = Append(s, minute) /\ minute' = minute
        BY <2>1, <1>2 DEF s
      <3>4. Len(s) \in Nat /\ Len(L) \in Nat /\ Len(s) <= Len(L)
        BY <1>3, <1>4
      <3>5. Len(L) + 1 - (Len(s) + 1) = Len(L) - Len(s)
        BY <3>4
      <3> DEFINE t == Append(s, minute)
      <3> DEFINE M == Append(L, minute)
      <3>6. /\ t \in Seq(Int) /\ Len(t) <= Len(M) /\ Len(M) - Len(t) = Len(L) - Len(s)
            /\ \A i \in 1..Len(t) : t[i] = M[Len(L) - Len(s) + i]
        <4>1. Len(t) = Len(s) + 1 /\ Len(M) = Len(L) + 1 /\ t \in Seq(Int)
          BY <2>3
        <4>2. \A i \in 1..Len(t) : t[i] = M[Len(L) - Len(s) + i]
          BY <3>1, <4>1
        <4> HIDE DEF t, M
        <4> QED  BY <4>1, <4>2, <3>4
      <3>7. /\ hits' = t /\ let'.request = M
            /\ \A i \in 1..(Len(L) - Len(s)) : M[i] <= minute' - LimitWindow
        BY <3>2, <3>3, <2>4
      <3> HIDE DEF t, M
      <3> QED  BY <3>6, <3>7 DEF Bucket
    <2>7. Limits!Spaced(Append(L, minute), MaxHits)
      <3>1. Limits!Spaced(L, MaxHits)
        BY DEF LimitsIInv, Limits!WindowKept, L
      <3>2. ASSUME NEW i \in 1..Len(L), i + MaxHits = Len(L) + 1  PROVE L[i] <= minute - LimitWindow
        <4>1. i \in 1..(Len(L) - Len(s))
          BY <3>2, <1>3, <1>4, <1>6
        <4> QED  BY <4>1, <1>3
      <3>3. MaxHits > 0
        BY <1>6, <1>4
      <3> QED  BY <3>1, <3>2, <3>3, <1>4, SpacedAppend
    <2>8. Limits!WindowKept'
      BY <2>4, <2>7 DEF LimitsIInv, Limits!WindowKept, Limits!Spaced
    <2> QED  BY <2>2, <2>4, <2>5, <2>6, <2>8, <1>2 DEF LimitsIInv, Passed, Rotations
  <1> QED  BY <1>4, <1>5, <1>6

\* A sweep drops what left the window.
LEMMA CleanupKept == ASSUME LimitsIInv, Limits!Cleanup  PROVE LimitsIInv'
  <1>1. PICK n \in 0..Len(hits) : Limits!Stale(n) /\ hits' = Limits!InWindow(n)
    BY DEF Limits!Cleanup
  <1>2. UNCHANGED <<minute, rotate, let>>
    BY DEF Limits!Cleanup
  <1> DEFINE s == Limits!InWindow(n)
  <1>4. /\ s \in Seq(Int) /\ Len(s) = Len(hits) - n
        /\ \A i \in 1..Len(s) : s[i] = let.request[Len(let.request) - Len(s) + i]
        /\ \A i \in 1..(Len(let.request) - Len(s)) : let.request[i] <= minute - LimitWindow
    BY <1>1, DropKept
  <1>5. hits \in Seq(Int) /\ Len(hits) <= Len(let.request) /\ let.request \in Seq(Int) /\ hits' = s
    BY <1>1 DEF LimitsIInv, Bucket, Passed
  <1> HIDE DEF s
  <1>6. Len(s) <= Len(let.request)
    BY <1>4, <1>5
  <1>3. Bucket'
    BY <1>2, <1>4, <1>5, <1>6 DEF Bucket
  <1> QED  BY <1>2, <1>3 DEF LimitsIInv, Passed, Rotations, Limits!WindowKept

\* A rotation: a window that is over is replaced by one that begins now.
LEMMA RotateKept == ASSUME LimitsIInv, Limits!CheckRotate  PROVE LimitsIInv'
  <1> DEFINE R == let.rotate
  <1>1. PICK entry :
          /\ entry = IF minute - rotate.start >= LimitWindow THEN [count |-> 0, start |-> minute] ELSE rotate
          /\ IF entry.count >= RotateMax
             THEN rotate' = entry /\ UNCHANGED let
             ELSE rotate' = [entry EXCEPT !.count = @ + 1] /\ Limits!Count("rotate")
    BY DEF Limits!CheckRotate
  <1>2. UNCHANGED <<minute, hits>>
    BY DEF Limits!CheckRotate
  <1>3. /\ minute \in Nat /\ R \in Seq(Int) /\ LimitWindow \in Nat /\ RotateMax \in Nat
        /\ rotate \in [count : Nat, start : Int] /\ \A i \in 1..Len(R) : R[i] <= minute
    BY LimitsAssumption DEF LimitsIInv, Passed, Rotations
  <1>4. /\ entry \in [count : Nat, start : Int] /\ entry.start <= minute
        /\ entry.count <= RotateMax /\ entry.count <= Len(R)
        /\ \A i \in 1..(Len(R) - entry.count) : R[i] <= entry.start
        /\ \A i \in 1..(Len(R) - entry.count - RotateMax) : R[i] <= entry.start - LimitWindow
    <2>1. CASE minute - rotate.start >= LimitWindow
      <3>1. entry.count = 0 /\ entry.start = minute /\ entry \in [count : Nat, start : Int]
        BY <2>1, <1>1, <1>3
      <3>2. ASSUME NEW i \in 1..(Len(R) - RotateMax)  PROVE R[i] <= minute - LimitWindow
        <4>1. i \in 1..(Len(R) - rotate.count) /\ R[i] \in Int
          BY <1>3 DEF LimitsIInv, Rotations
        <4>2. R[i] <= rotate.start
          BY <4>1 DEF LimitsIInv, Rotations
        <4>3. rotate.start \in Int /\ minute \in Int /\ LimitWindow \in Int /\ R[i] \in Int
          BY <1>3, <4>1
        <4> HIDE DEF R
        <4> QED  BY <4>2, <4>3, <2>1
      <3> QED  BY <3>1, <3>2, <1>3
    <2>2. CASE ~(minute - rotate.start >= LimitWindow)
      BY <2>2, <1>1 DEF LimitsIInv, Rotations
    <2> QED  BY <2>1, <2>2
  <1>5. CASE entry.count >= RotateMax
    <2>1. rotate' = entry /\ let' = let
      BY <1>1, <1>5
    <2> QED  BY <2>1, <1>2, <1>4 DEF LimitsIInv, Passed, Bucket, Rotations, Limits!WindowKept
  <1>6. CASE entry.count < RotateMax
    <2>1. /\ rotate' = [entry EXCEPT !.count = @ + 1]
          /\ let' = [let EXCEPT !["rotate"] = Append(@, minute)]
      BY <1>1, <1>3, <1>4, <1>6 DEF Limits!Count
    <2>2. let' = [request |-> let.request, rotate |-> Append(R, minute)]
      BY <2>1 DEF LimitsIInv
    <2>3. rotate'.count = entry.count + 1 /\ rotate'.start = entry.start /\ rotate' \in [count : Nat, start : Int]
      BY <2>1, <1>4
    <2> HIDE DEF R
    <2>4. /\ Append(R, minute) \in Seq(Int) /\ Len(Append(R, minute)) = Len(R) + 1
          /\ Append(R, minute)[Len(R) + 1] = minute
          /\ \A i \in 1..Len(R) : Append(R, minute)[i] = R[i]
      BY <1>3
    <2>5. let'.rotate = Append(R, minute) /\ let'.request = let.request
      BY <2>2
    <2>6. Passed(let.rotate)'
      BY <2>4, <2>5, <1>2, <1>3 DEF Passed
    <2>7. Rotations'
      <3> DEFINE Q == Append(R, minute)
      <3>1. Len(R) \in Nat /\ entry.count \in Nat /\ entry.start \in Int
        BY <1>3, <1>4
      <3>2. entry.count + 1 <= RotateMax /\ entry.count + 1 <= Len(Q)
        BY <3>1, <1>3, <1>4, <1>6, <2>4
      <3>3. /\ Len(Q) - (entry.count + 1) = Len(R) - entry.count
            /\ Len(Q) - (entry.count + 1) - RotateMax = Len(R) - entry.count - RotateMax
        <4>1. Len(Q) = Len(R) + 1 /\ RotateMax \in Nat
          BY <1>3, <2>4
        <4> HIDE DEF Q
        <4> QED  BY <3>1, <4>1
      <3>4. ASSUME NEW i \in 1..(Len(R) - entry.count)  PROVE Q[i] <= entry.start
        <4>1. i \in 1..Len(R)
          BY <3>1
        <4> QED  BY <4>1, <1>4, <2>4
      <3>5. ASSUME NEW i \in 1..(Len(R) - entry.count - RotateMax)  PROVE Q[i] <= entry.start - LimitWindow
        <4>1. i \in 1..Len(R)
          BY <3>1, <1>3
        <4> QED  BY <4>1, <1>4, <2>4
      <3> HIDE DEF Q
      <3>6. /\ \A i \in 1..(Len(Q) - (entry.count + 1)) : Q[i] <= entry.start
            /\ \A i \in 1..(Len(Q) - (entry.count + 1) - RotateMax) : Q[i] <= entry.start - LimitWindow
        BY <3>3, <3>4, <3>5
      <3>7. /\ rotate'.count = entry.count + 1 /\ rotate'.start = entry.start /\ minute' = minute
            /\ let'.rotate = Q
        BY <1>2, <2>3, <2>5 DEF Q
      <3> QED  BY <3>2, <3>6, <3>7, <2>3, <1>4 DEF Rotations
    <2>8. Limits!Spaced(Append(R, minute), 2 * RotateMax)
      <3>1. Limits!Spaced(R, 2 * RotateMax)
        BY DEF LimitsIInv, Limits!WindowKept, R
      <3>2. ASSUME NEW i \in 1..Len(R), i + 2 * RotateMax = Len(R) + 1  PROVE R[i] <= minute - LimitWindow
        <4>1. Len(R) \in Nat /\ entry.count \in Nat /\ entry.start \in Int
          BY <1>3, <1>4
        <4>2. i \in 1..(Len(R) - entry.count - RotateMax) /\ i \in 1..Len(R)
          BY <3>2, <4>1, <1>3, <1>6
        <4>3. R[i] \in Int /\ R[i] <= entry.start - LimitWindow /\ entry.start <= minute
          BY <4>2, <1>3, <1>4
        <4>4. minute \in Int /\ LimitWindow \in Int
          BY <1>3
        <4> QED  BY <4>1, <4>3, <4>4
      <3>3. 2 * RotateMax \in Nat /\ 2 * RotateMax > 0
        BY <1>3, <1>4, <1>6
      <3> QED  BY <3>1, <3>2, <3>3, <1>3, SpacedAppend
    <2>9. Limits!WindowKept'
      BY <2>5, <2>8 DEF LimitsIInv, Limits!WindowKept, Limits!Spaced
    <2> QED  BY <2>2, <2>5, <2>6, <2>7, <2>9, <1>2 DEF LimitsIInv, Passed, Bucket
  <1> QED  BY <1>3, <1>4, <1>5, <1>6

\* Every request, sweep and tick keeps the histories and what the limiters remember of them.
LEMMA LimitsNext == LimitsIInv /\ [Limits!Next]_(Limits!vars) => LimitsIInv'
  <1> SUFFICES ASSUME LimitsIInv, [Limits!Next]_(Limits!vars)  PROVE LimitsIInv'
    OBVIOUS
  <1>1. CASE Limits!Tick
    <2>1. minute' = minute + 1 /\ UNCHANGED <<hits, rotate, let>> /\ minute \in Nat
      BY <1>1 DEF Limits!Tick, LimitsIInv
    <2>2. Passed(let.request)' /\ Passed(let.rotate)'
      BY <2>1 DEF LimitsIInv, Passed
    <2>3. Bucket'
      <3>1. ASSUME NEW i \in 1..(Len(let.request) - Len(hits))
            PROVE  let.request[i] <= minute' - LimitWindow
        <4>1. /\ i \in 1..Len(let.request) /\ let.request[i] \in Int
              /\ let.request[i] <= minute - LimitWindow
          BY DEF LimitsIInv, Passed, Bucket
        <4> QED  BY <4>1, <2>1, LimitsAssumption
      <3>2. hits' = hits /\ let' = let
        BY <2>1
      <3> QED  BY <3>1, <3>2 DEF LimitsIInv, Bucket
    <2>4. Rotations'
      BY <2>1 DEF LimitsIInv, Rotations
    <2> QED  BY <2>1, <2>2, <2>3, <2>4 DEF LimitsIInv, Limits!WindowKept
  <1>2. CASE UNCHANGED Limits!vars
    BY <1>2 DEF Limits!vars, LimitsIInv, Passed, Bucket, Rotations, Limits!WindowKept
  <1> QED  BY <1>1, <1>2, AllowKept, CleanupKept, RotateKept DEF Limits!Next

---------------------------------------------------------------------------
(* Calls of a key.                                                         *)

\* Requests that passed the daily check, by where they are
Daily(pcs) == {c \in KeyCalls : call[c].pc \in pcs /\ Head(call[c].todo) = "daily"}

UsageTyped ==
  /\ keyStatus \in {"active", "inactive", "gone"}
  /\ usage \in Nat /\ counted \in Nat /\ lost \in Nat
  /\ call \in [KeyCalls -> [pc : {"idle", "check", "groups", "count"}, todo : Usage!Checks \cup {<<>>}]]
  /\ \A c \in KeyCalls : call[c].pc = "idle" <=> call[c].todo = <<>>

\* What was let in was counted, or lost, or is about to be counted; and what was let in
\* together with what passed its check stays under the bound
UsageIInv ==
  /\ UsageTyped
  /\ keyStatus # "gone" => counted <= usage + lost + Cardinality(Daily({"count"}))
  /\ counted + Cardinality(Daily({"groups"})) <= DailyLimit - 1 + Cardinality(KeyCalls) + lost

\* Such sets are finite.
LEMMA DailyFinite ==
  ASSUME NEW pcs
  PROVE  IsFiniteSet(Daily(pcs)) /\ Cardinality(Daily(pcs)) \in Nat /\ Cardinality(Daily(pcs)) <= Cardinality(KeyCalls)
         /\ Cardinality(KeyCalls) \in Nat
  BY LimitsAssumption, FS_Subset, FS_CardinalityType DEF Daily

\* No request is under way at first.
LEMMA UsageInit == Usage!Init => UsageIInv
  <1> SUFFICES ASSUME Usage!Init  PROVE UsageIInv
    OBVIOUS
  <1>1. Daily({"groups"}) = {} /\ Daily({"count"}) = {}
    BY DEF Usage!Init, Usage!Idle, Daily
  <1>2. UsageTyped
    BY DEF Usage!Init, Usage!Idle, UsageTyped
  <1> QED  BY <1>1, <1>2, FS_EmptySet, DailyFinite, LimitsAssumption DEF Usage!Init, UsageIInv

\* The set gains or loses the request that moves.
LEMMA DailyMoves ==
  ASSUME NEW c \in KeyCalls, UsageTyped, UsageTyped', \A d \in KeyCalls \ {c} : call'[d] = call[d], NEW p
  PROVE  /\ c \in Daily({p}) /\ c \notin Daily({p})' => Cardinality(Daily({p})') = Cardinality(Daily({p})) - 1
         /\ c \notin Daily({p}) /\ c \in Daily({p})' => Cardinality(Daily({p})') = Cardinality(Daily({p})) + 1
         /\ (c \in Daily({p}) <=> c \in Daily({p})') => Cardinality(Daily({p})') = Cardinality(Daily({p}))
  <1>1. \A d \in KeyCalls \ {c} : d \in Daily({p})' <=> d \in Daily({p})
    BY DEF Daily
  <1>2. Daily({p}) \subseteq KeyCalls /\ Daily({p})' \subseteq KeyCalls
    BY DEF Daily
  <1>3. CASE c \in Daily({p}) /\ c \notin Daily({p})'
    <2>1. Daily({p})' = Daily({p}) \ {c}
      BY <1>1, <1>2, <1>3
    <2> QED  BY <2>1, <1>3, DailyFinite, FS_RemoveElement
  <1>4. CASE c \notin Daily({p}) /\ c \in Daily({p})'
    <2>1. Daily({p})' = Daily({p}) \cup {c}
      BY <1>1, <1>2, <1>4
    <2> QED  BY <2>1, <1>4, DailyFinite, FS_AddElement
  <1>5. CASE c \in Daily({p}) <=> c \in Daily({p})'
    <2>1. Daily({p})' = Daily({p})
      BY <1>1, <1>2, <1>5
    <2> QED  BY <2>1, <1>5
  <1> QED  BY <1>3, <1>4, <1>5

\* The checks that are left are checks.
LEMMA NextCheckTyped ==
  ASSUME UsageTyped, NEW c \in KeyCalls, call[c].todo # <<>>
  PROVE  /\ Usage!NextCheck(c) \in [pc : {"idle", "check"}, todo : Usage!Checks \cup {<<>>}]
         /\ Usage!NextCheck(c).pc = "idle" <=> Usage!NextCheck(c).todo = <<>>
  <1>1. call[c].todo \in {<<"daily">>, <<"status">>, <<"status", "daily">>}
    BY DEF UsageTyped, Usage!Checks
  <1>2. CASE call[c].todo = <<"status", "daily">>
    <2>1. Tail(call[c].todo) = <<"daily">> /\ Len(call[c].todo) = 2
      BY <1>2
    <2>2. Usage!NextCheck(c) = [pc |-> "check", todo |-> <<"daily">>]
      BY <2>1, 2 # 1, Zenon DEF Usage!NextCheck
    <2>3. <<"daily">> \in Usage!Checks /\ <<"daily">> # <<>>
      BY DEF Usage!Checks
    <2> QED  BY <2>2, <2>3
  <1>3. CASE call[c].todo \in {<<"daily">>, <<"status">>}
    BY <1>3 DEF Usage!NextCheck, Usage!Idle, Usage!Checks
  <1> QED  BY <1>1, <1>2, <1>3

\* Requests that count, requests let in, and one that is neither, are requests.
LEMMA RoomForOne ==
  ASSUME NEW c \in KeyCalls, call[c].pc = "check"
  PROVE  Cardinality(Daily({"count"})) + Cardinality(Daily({"groups"})) + 1 <= Cardinality(KeyCalls)
  <1> DEFINE C == Daily({"count"})
             G == Daily({"groups"})
  <1>1. C \subseteq KeyCalls /\ G \subseteq KeyCalls /\ C \cap G = {} /\ c \notin C \cup G
    BY DEF Daily
  <1>2. IsFiniteSet(C) /\ IsFiniteSet(G) /\ Cardinality(C) \in Nat /\ Cardinality(G) \in Nat
    BY DailyFinite
  <1> HIDE DEF C, G
  <1>3. IsFiniteSet(C \cup G) /\ Cardinality(C \cup G) = Cardinality(C) + Cardinality(G)
    <2>1. Cardinality(C \cap G) = 0
      BY <1>1, FS_EmptySet
    <2>2. /\ IsFiniteSet(C \cup G)
          /\ Cardinality(C \cup G) = Cardinality(C) + Cardinality(G) - Cardinality(C \cap G)
      BY <1>2, FS_Union, Zenon
    <2> QED  BY <1>2, <2>1, <2>2
  <1>4. IsFiniteSet((C \cup G) \cup {c}) /\ Cardinality((C \cup G) \cup {c}) = Cardinality(C) + Cardinality(G) + 1
    BY <1>1, <1>3, FS_AddElement
  <1>5. (C \cup G) \cup {c} \subseteq KeyCalls
    BY <1>1
  <1>6. Cardinality((C \cup G) \cup {c}) <= Cardinality(KeyCalls)
    BY <1>5, LimitsAssumption, FS_Subset
  <1> QED  BY <1>4, <1>6 DEF C, G

\* No query is let in without the daily limit, and what is let in is counted or lost.
LEMMA UsageNext == UsageIInv /\ [Usage!Next]_(Usage!keyUsage) => UsageIInv'
  <1> SUFFICES ASSUME UsageIInv, [Usage!Next]_(Usage!keyUsage)  PROVE UsageIInv'
    OBVIOUS
  <1> USE DEF UsageIInv
  <1> DEFINE C == Cardinality(Daily({"count"}))
             G == Cardinality(Daily({"groups"}))
             N == Cardinality(KeyCalls)
  <1>0. /\ C \in Nat /\ G \in Nat /\ N \in Nat /\ C' \in Nat /\ G' \in Nat
        /\ DailyLimit \in Nat /\ usage \in Nat /\ counted \in Nat /\ lost \in Nat
    <2>1. Daily({"count"})' \subseteq KeyCalls /\ Daily({"groups"})' \subseteq KeyCalls
      BY DEF Daily
    <2>2. C' \in Nat /\ G' \in Nat
      BY <2>1, LimitsAssumption, FS_Subset, FS_CardinalityType
    <2> QED  BY <2>2, DailyFinite, LimitsAssumption DEF UsageTyped
  <1>c. ASSUME NEW c \in KeyCalls, UsageTyped', \A d \in KeyCalls \ {c} : call'[d] = call[d], NEW p
        PROVE  /\ c \in Daily({p}) /\ c \notin Daily({p})' => Cardinality(Daily({p})') = Cardinality(Daily({p})) - 1
               /\ c \notin Daily({p}) /\ c \in Daily({p})' => Cardinality(Daily({p})') = Cardinality(Daily({p})) + 1
               /\ (c \in Daily({p}) <=> c \in Daily({p})') => Cardinality(Daily({p})') = Cardinality(Daily({p}))
    BY <1>c, DailyMoves
  <1>1. ASSUME NEW c \in KeyCalls, NEW checks \in Usage!Checks, Usage!Authenticate(c, checks)  PROVE UsageIInv'
    <2>0. checks # <<>> /\ call' = [call EXCEPT ![c] = [pc |-> "check", todo |-> checks]]
      BY <1>1 DEF Usage!Authenticate, Usage!Checks
    <2>1. UsageTyped'
      BY <1>1, <2>0 DEF UsageTyped, Usage!Authenticate
    <2>2. \A d \in KeyCalls \ {c} : call'[d] = call[d]
      BY <1>1 DEF UsageTyped, Usage!Authenticate
    <2>3. call[c].pc = "idle" /\ call'[c].pc = "check"
      BY <1>1 DEF UsageTyped, Usage!Authenticate, Usage!Idle
    <2>4. C' = C /\ G' = G
      BY <1>c, <2>1, <2>2, <2>3 DEF Daily
    <2> QED  BY <1>0, <1>1, <2>1, <2>4 DEF Usage!Authenticate
  <1>2. ASSUME NEW c \in KeyCalls, Usage!Check(c)  PROVE UsageIInv'
    <2>0. UNCHANGED <<keyStatus, usage, counted, lost>>
      BY <1>2 DEF Usage!Check
    <2>1. call[c].pc = "check" /\ call[c].todo # <<>>
      BY <1>2 DEF Usage!Check, UsageTyped
    <2>2. \A d \in KeyCalls \ {c} : call'[d] = call[d]
      BY <1>2 DEF UsageTyped, Usage!Check
    <2>3. CASE Usage!Passes(Head(call[c].todo))
      <3>1. call' = [call EXCEPT ![c] = [call[c] EXCEPT !.pc = "groups"]]
        BY <1>2, <2>3 DEF Usage!Check
      <3>2. call'[c].pc = "groups" /\ call'[c].todo = call[c].todo /\ UsageTyped'
        BY <3>1, <2>0, <2>1 DEF UsageTyped
      <3>3. C' = C
        BY <1>c, <2>1, <2>2, <3>2 DEF Daily
      <3>4. CASE Head(call[c].todo) = "daily"
        <4>1. G' = G + 1
          BY <1>c, <2>1, <2>2, <3>2, <3>4 DEF Daily
        <4>2. keyStatus = "active" /\ usage < DailyLimit
          BY <2>3, <3>4 DEF Usage!Passes
        <4>3. C + G + 1 <= N
          BY <2>1, RoomForOne
        <4> HIDE DEF C, G, N
        <4>4. counted <= usage + lost + C
          BY <4>2 DEF C
        <4>5. counted + (G + 1) <= DailyLimit - 1 + N + lost
          BY <1>0, <4>2, <4>3, <4>4
        <4>6. UsageTyped' /\ counted' <= usage' + lost' + C' /\ counted' + G' <= DailyLimit - 1 + N + lost'
          BY <2>0, <3>2, <3>3, <4>1, <4>4, <4>5
        <4> QED  BY <4>6 DEF C, G, N
      <3>5. CASE Head(call[c].todo) # "daily"
        <4>1. G' = G
          BY <1>c, <2>1, <2>2, <3>2, <3>5 DEF Daily
        <4> QED  BY <1>0, <2>0, <3>2, <3>3, <4>1
      <3> QED  BY <3>4, <3>5
    <2>4. CASE ~Usage!Passes(Head(call[c].todo))
      <3>1. call' = [call EXCEPT ![c] = Usage!NextCheck(c)]
        BY <1>2, <2>4 DEF Usage!Check
      <3>2. UsageTyped' /\ call'[c].pc \in {"idle", "check"}
        BY <3>1, <2>0, <2>1, NextCheckTyped DEF UsageTyped
      <3>3. C' = C /\ G' = G
        BY <1>c, <2>1, <2>2, <3>2 DEF Daily
      <3> QED  BY <1>0, <2>0, <3>2, <3>3
    <2> QED  BY <2>3, <2>4
  <1>3. ASSUME NEW c \in KeyCalls, Usage!GetGroupKeyIds(c)  PROVE UsageIInv'
    <2>0. UNCHANGED <<keyStatus, usage, lost>> /\ counted' = counted + Usage!CountsDaily(c)
      BY <1>3 DEF Usage!GetGroupKeyIds
    <2>1. call[c].pc = "groups" /\ call' = [call EXCEPT ![c].pc = "count"]
      BY <1>3 DEF Usage!GetGroupKeyIds
    <2>2. call'[c].pc = "count" /\ call'[c].todo = call[c].todo
      BY <2>1 DEF UsageTyped
    <2>3. \A d \in KeyCalls \ {c} : call'[d] = call[d]
      BY <2>1 DEF UsageTyped
    <2>4. UsageTyped'
      <3>1. call'[c] = [pc |-> "count", todo |-> call[c].todo]
        BY <2>1 DEF UsageTyped
      <3>2. call' \in [KeyCalls -> [pc : {"idle", "check", "groups", "count"}, todo : Usage!Checks \cup {<<>>}]]
        BY <2>1, <3>1 DEF UsageTyped
      <3>3. \A d \in KeyCalls : call'[d].pc = "idle" <=> call'[d].todo = <<>>
        BY <2>1, <2>3, <3>1 DEF UsageTyped
      <3>4. counted' \in Nat
        BY <1>0, <2>0 DEF Usage!CountsDaily
      <3> QED  BY <2>0, <3>2, <3>3, <3>4 DEF UsageTyped
    <2>5. CASE Head(call[c].todo) = "daily"
      <3>0. /\ c \notin Daily({"count"}) /\ c \in Daily({"count"})'
            /\ c \in Daily({"groups"}) /\ c \notin Daily({"groups"})'
        BY <2>1, <2>2, <2>5 DEF Daily
      <3>1. C' = C + 1 /\ G' = G - 1
        BY <1>c, <2>3, <2>4, <3>0
      <3>2. counted' = counted + 1
        BY <2>0, <2>5 DEF Usage!CountsDaily
      <3> QED  BY <1>0, <2>0, <2>4, <3>1, <3>2
    <2>6. CASE Head(call[c].todo) # "daily"
      <3>1. C' = C /\ G' = G
        BY <1>c, <2>1, <2>2, <2>3, <2>4, <2>6 DEF Daily
      <3>2. counted' = counted
        BY <1>0, <2>0, <2>6 DEF Usage!CountsDaily
      <3> QED  BY <1>0, <2>0, <2>4, <3>1, <3>2
    <2> QED  BY <2>5, <2>6
  <1>4. ASSUME NEW c \in KeyCalls, Usage!QueryFails(c)  PROVE UsageIInv'
    <2>0. UNCHANGED <<keyStatus, usage, counted>>
      BY <1>4 DEF Usage!QueryFails
    <2>1. \A d \in KeyCalls \ {c} : call'[d] = call[d]
      BY <1>4 DEF Usage!QueryFails, UsageTyped
    <2>2. call[c].pc # "idle" /\ call[c].todo # <<>>
      <3>1. call[c].pc = "idle" => call[c] = [pc |-> "idle", todo |-> <<>>]
        BY DEF UsageTyped
      <3> QED  BY <1>4, <3>1 DEF Usage!QueryFails, Usage!Idle, UsageTyped
    <2>3. CASE call[c].pc = "count"
      <3>1. call' = [call EXCEPT ![c] = Usage!Idle] /\ lost' = lost + Usage!CountsDaily(c)
        BY <1>4, <2>3 DEF Usage!QueryFails
      <3>2. UsageTyped' /\ call'[c].pc = "idle"
        BY <3>1, <2>0, <1>0 DEF UsageTyped, Usage!Idle, Usage!CountsDaily
      <3>3. G' = G
        BY <1>c, <2>1, <2>3, <3>2 DEF Daily
      <3>4. CASE Head(call[c].todo) = "daily"
        <4>1. C' = C - 1 /\ lost' = lost + 1
          BY <1>c, <2>1, <2>3, <3>1, <3>2, <3>4 DEF Daily, Usage!CountsDaily
        <4> QED  BY <1>0, <2>0, <3>2, <3>3, <4>1
      <3>5. CASE Head(call[c].todo) # "daily"
        <4>1. C' = C
          BY <1>c, <2>1, <2>3, <3>2, <3>5 DEF Daily
        <4>2. lost' = lost
          BY <1>0, <3>1, <3>5 DEF Usage!CountsDaily
        <4> QED  BY <1>0, <2>0, <3>2, <3>3, <4>1, <4>2
      <3> QED  BY <3>4, <3>5
    <2>4. CASE call[c].pc # "count"
      <3>1. call' = [call EXCEPT ![c] = Usage!NextCheck(c)] /\ lost' = lost
        BY <1>0, <1>4, <2>4 DEF Usage!QueryFails
      <3>2. UsageTyped' /\ call'[c].pc \in {"idle", "check"}
        BY <3>1, <2>0, <2>2, NextCheckTyped DEF UsageTyped
      <3>3. C' = C
        BY <1>c, <2>1, <2>4, <3>2 DEF Daily
      <3>4. G' = G \/ G' = G - 1
        BY <1>c, <2>1, <3>2 DEF Daily
      <3> QED  BY <1>0, <2>0, <3>1, <3>2, <3>3, <3>4
    <2> QED  BY <2>3, <2>4
  <1>5. ASSUME NEW c \in KeyCalls, Usage!IncrementUsage(c)  PROVE UsageIInv'
    <2>0. UNCHANGED <<keyStatus, counted, lost>> /\ usage' = usage + 1
      BY <1>5 DEF Usage!IncrementUsage
    <2>1. call[c].pc = "count" /\ call' = [call EXCEPT ![c] = Usage!Idle]
      BY <1>5 DEF Usage!IncrementUsage
    <2>2. call'[c].pc = "idle" /\ \A d \in KeyCalls \ {c} : call'[d] = call[d]
      BY <2>1 DEF UsageTyped, Usage!Idle
    <2>3. UsageTyped'
      BY <1>0, <2>0, <2>1 DEF UsageTyped, Usage!Idle
    <2>4. G' = G /\ (C' = C \/ C' = C - 1)
      BY <1>c, <2>1, <2>2, <2>3 DEF Daily
    <2> QED  BY <1>0, <2>0, <2>3, <2>4
  <1>6. CASE Usage!UpdateApiKeyStatus
    <2>1. keyStatus # "gone" /\ UNCHANGED <<usage, call, counted, lost>> /\ keyStatus' \in {"active", "inactive"}
      BY <1>6 DEF Usage!UpdateApiKeyStatus
    <2> QED  BY <2>1 DEF UsageTyped, Daily
  <1>7. CASE Usage!DeleteApiKey
    <2>1. keyStatus' = "gone" /\ usage' = 0 /\ UNCHANGED <<call, counted, lost>>
      BY <1>7 DEF Usage!DeleteApiKey
    <2> QED  BY <2>1 DEF UsageTyped, Daily
  <1>8. CASE Usage!Midnight
    <2>1. usage' = 0 /\ counted' = 0 /\ lost' = 0 /\ UNCHANGED <<keyStatus, call>>
      BY <1>8 DEF Usage!Midnight
    <2>2. C' = C /\ G' = G /\ UsageTyped'
      BY <2>1 DEF UsageTyped, Daily
    <2>3. G <= N /\ DailyLimit >= 1
      BY DailyFinite, LimitsAssumption
    <2> QED  BY <1>0, <2>1, <2>2, <2>3
  <1>9. CASE UNCHANGED Usage!keyUsage
    BY <1>9 DEF Usage!keyUsage, UsageTyped, Daily
  <1> QED  BY <1>1, <1>2, <1>3, <1>4, <1>5, <1>6, <1>7, <1>8, <1>9 DEF Usage!Next

\* A request is let in after it passed its check.
LEMMA UsageIInvBounded == UsageIInv => Usage!OverrunBounded
  <1> SUFFICES ASSUME UsageIInv  PROVE Usage!OverrunBounded
    OBVIOUS
  <1>1. Usage!Cardinality(KeyCalls) = Cardinality(KeyCalls)
    BY Zenon DEF Usage!Cardinality, Cardinality
  <1> QED  BY <1>1, DailyFinite, LimitsAssumption DEF UsageIInv, UsageTyped, Usage!OverrunBounded

---------------------------------------------------------------------------
(* The gate of a key.                                                      *)

\* The asks under way and the entry of the cache give the value that the column had when
\* they looked at it, or later
GateIInv ==
  /\ gate \in BOOLEAN /\ moment \in Nat
  /\ held \in [BOOLEAN -> Nat] /\ held[gate] = moment /\ \A b \in BOOLEAN : held[b] <= moment
  /\ asks \in [Lookups -> [pc : {"idle", "select", "store"}, at : Nat, val : BOOLEAN]]
  /\ \A c \in Lookups : /\ asks[c].pc = "select" => asks[c].at <= moment
                        /\ asks[c].pc = "store" => asks[c].at <= held[asks[c].val]
  /\ cache \in [val : BOOLEAN, until : Nat]
  /\ cache.until <= held[cache.val] + GateTtl

\* Nothing is cached at first.
LEMMA GateInit == Gate!Init => GateIInv
  <1> SUFFICES ASSUME Gate!Init  PROVE GateIInv
    OBVIOUS
  <1>1. gate \in BOOLEAN /\ moment = 0 /\ GateTtl \in Nat
    BY LimitsAssumption DEF Gate!Init
  <1>2. held \in [BOOLEAN -> Nat] /\ \A b \in BOOLEAN : held[b] = 0
    BY DEF Gate!Init
  <1>3. asks \in [Lookups -> [pc : {"idle"}, at : Nat, val : BOOLEAN]]
    BY DEF Gate!Init, Gate!NoAsk
  <1>4. cache \in [val : BOOLEAN, until : Nat] /\ cache.until = 0
    BY DEF Gate!Init
  <1>5. cache.until <= held[cache.val] + GateTtl
    BY <1>1, <1>2, <1>4
  <1>6. held[gate] = 0
    BY <1>1, <1>2
  <1> QED  BY <1>1, <1>2, <1>3, <1>4, <1>5, <1>6 DEF GateIInv

\* A TTL is counted from the time before the SELECT.
LEMMA GateNext == GateIInv /\ [Gate!Next]_(Gate!gateCache) => GateIInv'
  <1> SUFFICES ASSUME GateIInv, [Gate!Next]_(Gate!gateCache)  PROVE GateIInv'
    OBVIOUS
  <1>0. GateTtl \in Nat
    BY LimitsAssumption
  <1>1. ASSUME NEW c \in Lookups, Gate!Lookup(c)  PROVE GateIInv'
    BY <1>1 DEF GateIInv, Gate!Lookup
  <1>2. ASSUME NEW c \in Lookups, Gate!Select(c)  PROVE GateIInv'
    <2>0. asks[c].pc = "select" /\ UNCHANGED <<gate, held, cache, moment>>
          /\ asks' = [asks EXCEPT ![c] = [pc |-> "store", at |-> asks[c].at, val |-> gate]]
      BY <1>2 DEF GateIInv, Gate!Select
    <2>1. asks[c] \in [pc : {"idle", "select", "store"}, at : Nat, val : BOOLEAN]
      BY DEF GateIInv
    <2>2. asks[c].at \in Nat /\ asks[c].at <= held[gate]
      BY <2>0 DEF GateIInv
    <2>3. asks' \in [Lookups -> [pc : {"idle", "select", "store"}, at : Nat, val : BOOLEAN]]
      BY <2>0, <2>1, <2>2 DEF GateIInv
    <2>4. asks'[c].pc = "store" /\ asks'[c].at = asks[c].at /\ asks'[c].val = gate
      BY <2>0 DEF GateIInv
    <2>5. \A d \in Lookups \ {c} : asks'[d] = asks[d]
      BY <2>0 DEF GateIInv
    <2>6. \A d \in Lookups : /\ asks'[d].pc = "select" => asks'[d].at <= moment
                             /\ asks'[d].pc = "store" => asks'[d].at <= held[asks'[d].val]
      BY <2>2, <2>4, <2>5 DEF GateIInv
    <2> QED  BY <2>0, <2>3, <2>6 DEF GateIInv
  <1>3. ASSUME NEW c \in Lookups, Gate!Store(c)  PROVE GateIInv'
    <2>1. /\ asks[c].at \in Nat /\ asks[c].val \in BOOLEAN
          /\ asks[c].at <= held[asks[c].val] /\ held[asks[c].val] \in Nat
      BY <1>3 DEF GateIInv, Gate!Store
    <2>2. /\ cache' = [val |-> asks[c].val, until |-> asks[c].at + GateTtl]
          /\ asks' = [asks EXCEPT ![c] = Gate!NoAsk] /\ UNCHANGED <<gate, held, moment>>
      BY <1>3 DEF Gate!Store
    <2>3. cache' \in [val : BOOLEAN, until : Nat] /\ cache'.until <= held[cache'.val] + GateTtl
      BY <1>0, <2>1, <2>2
    <2> QED  BY <2>2, <2>3 DEF GateIInv, Gate!NoAsk
  <1>4. ASSUME NEW c \in Lookups, Gate!LookupFails(c)  PROVE GateIInv'
    BY <1>4 DEF GateIInv, Gate!LookupFails, Gate!NoAsk
  <1>5. CASE Gate!SetGate
    <2>1. /\ gate' \in BOOLEAN /\ held' = [held EXCEPT ![gate'] = moment]
          /\ UNCHANGED <<cache, asks, moment>>
      BY <1>5 DEF GateIInv, Gate!SetGate
    <2>2. held' \in [BOOLEAN -> Nat] /\ \A b \in BOOLEAN : held[b] <= held'[b] /\ held'[b] <= moment
      BY <2>1 DEF GateIInv
    <2>3. held'[gate'] = moment
      BY <2>1 DEF GateIInv
    <2> QED  BY <1>0, <2>1, <2>2, <2>3 DEF GateIInv
  <1>6. CASE Gate!Tick
    <2>1. moment' = moment + 1 /\ held' = [held EXCEPT ![gate] = moment + 1] /\ UNCHANGED <<gate, cache, asks>>
      BY <1>6 DEF Gate!Tick
    <2>2. held' \in [BOOLEAN -> Nat] /\ \A b \in BOOLEAN : held[b] <= held'[b] /\ held'[b] <= moment + 1
      BY <2>1 DEF GateIInv
    <2>3. held'[gate'] = moment'
      BY <2>1 DEF GateIInv
    <2> QED  BY <1>0, <2>1, <2>2, <2>3 DEF GateIInv
  <1>7. CASE UNCHANGED Gate!gateCache
    BY <1>7 DEF GateIInv, Gate!gateCache
  <1> QED  BY <1>1, <1>2, <1>3, <1>4, <1>5, <1>6, <1>7 DEF Gate!Next

\* An entry that still answers was stored for a lookup of less than a TTL ago.
LEMMA GateIInvRecent == GateIInv => Gate!GateRecent
  BY LimitsAssumption DEF GateIInv, Gate!GateRecent
\* For every window, limit, TTL and number of requests under way: no window lets more through
\* than the limiters allow, a day no more than the key's limit and what overlapped or was not
\* counted, and a gate that the cache answers with was the table's less than a TTL ago
\* (RateLimiter.allow, checkRotateRateLimit, incrementUsage, getSymbolicHardGate).
THEOREM LimitsHold == Limits!Spec /\ Usage!Spec /\ Gate!Spec => []LimitsKept
  <1>1. LimitsIInv => Limits!WindowKept
    BY DEF LimitsIInv
  <1>2. Limits!WindowKept /\ Usage!OverrunBounded /\ Gate!GateRecent => LimitsKept
    BY DEF LimitsKept
  <1> QED
    BY <1>1, <1>2, LimitsInit, LimitsNext, UsageInit, UsageNext, UsageIInvBounded,
       GateInit, GateNext, GateIInvRecent, PTL
    DEF Limits!Spec, Usage!Spec, Gate!Spec

---------------------------------------------------------------------------
(* What the admin console sends.                                           *)

\* Dialogs about a key or a session
OfPanel == {"status", "deleteKey", "createKey", "assign", "terminate"}

\* ... keep the id of the panel whose button opened them
ConsoleIInv ==
  /\ modal.op \in Console!InDialog \cup {"none", "credential"}
  /\ modal.op \in OfPanel => modal.item = modal.painted
  /\ Console!ActsOnShown

\* No dialog is open at first.
LEMMA ConsoleInit == Console!Init => ConsoleIInv
  <1> SUFFICES ASSUME Console!Init  PROVE ConsoleIInv
    OBVIOUS
  <1>1. modal = Console!NoModal /\ lastClick.view = "none"
    BY DEF Console!Init
  <1>2. modal.op = "none"
    BY <1>1 DEF Console!NoModal
  <1> QED  BY <1>1, <1>2 DEF ConsoleIInv, OfPanel, Console!ActsOnShown

\* A button on the page acts on the id it was painted with.
LEMMA DirectKept ==
  ASSUME ConsoleIInv, NEW at, NEW op, NEW item, NEW arg, NEW painted,
         at \in {"keys", "sessions"} => item = painted, Console!Direct(at, op, item, arg, painted)
  PROVE  ConsoleIInv'
  <1>1. lastClick' = [view |-> at, sent |-> item, painted |-> painted] /\ modal' = modal
    BY DEF Console!Direct, Console!Send
  <1> QED  BY <1>1 DEF ConsoleIInv, Console!ActsOnShown

\* A dialog opens with the id of the panel.
LEMMA ShowKept ==
  ASSUME ConsoleIInv, NEW op \in Console!InDialog, NEW item, NEW painted, NEW arg,
         item = painted, Console!ShowModal(op, item, painted, arg)
  PROVE  ConsoleIInv'
  <1>1. modal' = [op |-> op, item |-> item, painted |-> painted, arg |-> arg] /\ lastClick' = lastClick
    BY DEF Console!ShowModal
  <1> QED  BY <1>1 DEF ConsoleIInv, Console!ActsOnShown

\* A dialog that is confirmed sends the id it kept; dialogs about groups are not judged.
LEMMA ConfirmKept == ASSUME ConsoleIInv, Console!Confirm  PROVE ConsoleIInv'
  <1>1. /\ modal' = modal /\ modal.op \in Console!InDialog
        /\ lastClick' = [view |-> Console!ViewOf(modal.op), sent |-> Console!Target(modal), painted |-> modal.painted]
    BY DEF Console!Confirm, Console!Send, ConsoleIInv
  <1>2. CASE modal.op \in OfPanel
    <2>1. Console!ViewOf(modal.op) \in {"keys", "sessions"}
      BY <1>2 DEF OfPanel, Console!ViewOf
    <2>2. Console!Target(modal) = modal.painted
      BY <1>2, <2>1 DEF Console!Target, ConsoleIInv
    <2> QED  BY <1>1, <2>2 DEF ConsoleIInv, Console!ActsOnShown
  <1>3. CASE modal.op \notin OfPanel
    <2>1. modal.op \in {"addMember", "deleteGroup", "createGroup"}
      BY <1>1, <1>3 DEF OfPanel, Console!InDialog
    <2>2. Console!ViewOf(modal.op) = "groups"
      BY <2>1 DEF Console!ViewOf
    <2> QED  BY <1>1, <2>2 DEF ConsoleIInv, Console!ActsOnShown
  <1> QED  BY <1>2, <1>3

\* An answer may close the dialog; it opens none that is about a panel.
LEMMA ArriveKept == ASSUME ConsoleIInv, Console!Arrive  PROVE ConsoleIInv'
  <1>1. lastClick' = lastClick
    BY DEF Console!Arrive, Console!Answered, Console!PaintKeys, Console!ListGroups, Console!PaintGroups,
       Console!ListSessions, Console!AppendSessions, Console!PaintView, Console!ListLogs, Console!PaintMetrics
  <1>2. \/ modal' = modal \/ modal' = Console!NoModal
        \/ modal' = [Console!NoModal EXCEPT !.op = "credential"]
    BY DEF Console!Arrive, Console!Answered, Console!PaintKeys, Console!ListGroups, Console!PaintGroups,
       Console!ListSessions, Console!AppendSessions, Console!PaintView, Console!ListLogs, Console!PaintMetrics
  <1>3. modal' # modal => modal'.op \in {"none", "credential"}
    BY <1>2 DEF Console!NoModal
  <1> QED  BY <1>1, <1>3 DEF ConsoleIInv, Console!ActsOnShown, OfPanel

\* Every click, answer and poll keeps the invariant.
LEMMA ConsoleNext == ConsoleIInv /\ [Console!Next]_(Console!console) => ConsoleIInv'
  <1> SUFFICES ASSUME ConsoleIInv, [Console!Next]_(Console!console)  PROVE ConsoleIInv'
    OBVIOUS
  <1> DEFINE Same == UNCHANGED <<modal, lastClick>>
  <1>0. Same => ConsoleIInv'
    BY DEF ConsoleIInv, Console!ActsOnShown
  <1>1. CASE Console!Operate
    <2>1. Same
      BY <1>1 DEF Console!Operate, Console!Navigate, Console!Refresh, Console!RowClick,
         Console!CloseInspector, Console!FilterKeys
    <2> QED  BY <1>0, <2>1
  <1>2. CASE Console!ChangeKeys
    <2> SUFFICES ASSUME NEW p, NEW q, NEW n, NEW g, NEW perms
                 PROVE  /\ Console!SetFragmentLimit => ConsoleIInv'
                        /\ Console!ToggleStatus => ConsoleIInv'
                        /\ Console!DeleteKey => ConsoleIInv'
                        /\ Console!TogglePermission(p) => ConsoleIInv'
                        /\ Console!RemoveFromGroup(g) => ConsoleIInv'
                        /\ Console!AssignGroup(q) => ConsoleIInv'
                        /\ Console!AddGroup(n) => ConsoleIInv'
                        /\ Console!CreateKey(perms) => ConsoleIInv'
      BY <1>2 DEF Console!ChangeKeys
    <2>1. Console!SetFragmentLimit => ConsoleIInv'
      BY DirectKept DEF Console!SetFragmentLimit
    <2>2. Console!ToggleStatus => ConsoleIInv'
      BY ShowKept DEF Console!ToggleStatus, Console!InDialog
    <2>3. Console!DeleteKey => ConsoleIInv'
      BY ShowKept DEF Console!DeleteKey, Console!InDialog
    <2>4. Console!TogglePermission(p) => ConsoleIInv'
      BY DirectKept DEF Console!TogglePermission
    <2>5. Console!RemoveFromGroup(g) => ConsoleIInv'
      BY DirectKept DEF Console!RemoveFromGroup
    <2>6. Console!AssignGroup(q) => ConsoleIInv'
      BY DirectKept DEF Console!AssignGroup
    <2>7. Console!CreateKey(perms) => ConsoleIInv'
      BY ShowKept DEF Console!CreateKey, Console!InDialog
    <2>8. Console!AddGroup(n) => ConsoleIInv'
      BY ShowKept DEF Console!AddGroup, Console!InDialog
    <2> QED  BY <2>1, <2>2, <2>3, <2>4, <2>5, <2>6, <2>7, <2>8
  <1>3. CASE Console!ChangeGroups
    <2>1. ASSUME NEW k, Console!AddMember(k)  PROVE ConsoleIInv'
      BY <2>1, ShowKept DEF Console!AddMember, Console!InDialog
    <2>2. ASSUME NEW k, Console!RemoveMember(k)  PROVE ConsoleIInv'
      BY <2>2, DirectKept DEF Console!RemoveMember
    <2>3. CASE Console!DeleteGroup
      BY <2>3, ShowKept DEF Console!DeleteGroup, Console!InDialog
    <2>4. CASE Console!CreateGroup
      BY <2>4, ShowKept DEF Console!CreateGroup, Console!InDialog
    <2> QED  BY <1>3, <2>1, <2>2, <2>3, <2>4 DEF Console!ChangeGroups
  <1>4. CASE Console!ChangeSessions
    <2>1. CASE Console!ReflectSession
      BY <2>1, DirectKept DEF Console!ReflectSession
    <2>2. CASE Console!TerminateSession
      BY <2>2, ShowKept DEF Console!TerminateSession, Console!InDialog
    <2>3. ASSUME NEW op, Console!OnAllSessions(op)  PROVE ConsoleIInv'
      BY <2>3, DirectKept DEF Console!OnAllSessions
    <2> QED  BY <1>4, <2>1, <2>2, <2>3 DEF Console!ChangeSessions
  <1>5. CASE Console!Confirm
    BY <1>5, ConfirmKept
  <1>6. CASE Console!CloseModal
    <2>1. modal' = Console!NoModal /\ lastClick' = lastClick
      BY <1>6 DEF Console!CloseModal
    <2> QED  BY <2>1 DEF ConsoleIInv, Console!ActsOnShown, Console!NoModal, OfPanel
  <1>7. CASE Console!Arrive
    BY <1>7, ArriveKept
  <1>8. CASE Console!PollMetrics
    BY <1>0, <1>8 DEF Console!PollMetrics
  <1>9. CASE UNCHANGED Console!console
    BY <1>0, <1>9 DEF Console!console
  <1> QED  BY <1>1, <1>2, <1>3, <1>4, <1>5, <1>6, <1>7, <1>8, <1>9 DEF Console!Next

\* Whatever the operator selects, opens, confirms twice or leaves while answers are under way:
\* a change of a key or a session goes to the one whose panel was clicked (keys.js, sessions.js).
THEOREM ConsoleActsOnShown == Console!Spec => []ActsOnShown
  <1>1. ConsoleIInv => ActsOnShown
    BY DEF ConsoleIInv, ActsOnShown
  <1> QED
    BY <1>1, ConsoleInit, ConsoleNext, PTL DEF Console!Spec

---------------------------------------------------------------------------
(* What the admin console shows.                                           *)

\* Half a window is less than one.
LEMMA HalfOf == ASSUME NEW w \in Nat  PROVE w \div 2 \in Nat /\ 2 * (w \div 2) <= w
  OBVIOUS

(* The numbered window is an interval of 1 to the last page, as long as both allow. *)
LEMMA WindowShape ==
  ASSUME NEW c \in Nat \ {0}, NEW n \in Nat \ {0}
  PROVE  \E a, b \in Nat :
           /\ Memory!Window(c, n) = a..b /\ 1 <= a /\ b <= n
           /\ b - a + 1 = Memory!SmallerOf(WindowSize, n)
           /\ c <= n => a <= c /\ c <= b
  <1> DEFINE h == WindowSize \div 2
             start == Memory!LargerOf(1, c - h)
             end == start + WindowSize - 1
  <1>1. WindowSize \in Nat \ {0} /\ h \in Nat /\ 2 * h <= WindowSize
    BY HalfOf, PagesAssumption
  <1>2. Memory!Window(c, n) = IF end > n THEN Memory!LargerOf(1, n - WindowSize + 1)..n ELSE start..end
    BY DEF Memory!Window
  <1> HIDE DEF h
  <1>3. start \in Nat /\ 1 <= start /\ c - h <= start /\ (start = 1 \/ start = c - h)
    BY <1>1 DEF Memory!LargerOf
  <1>4. CASE end > n
    <2>1. CASE WindowSize <= n
      <3> DEFINE a == n - WindowSize + 1
      <3>1. a \in Nat /\ 1 <= a /\ n - a + 1 = WindowSize /\ (c <= n => a <= c)
        BY <1>1, <1>3, <1>4, <2>1
      <3>2. Memory!Window(c, n) = a..n /\ Memory!SmallerOf(WindowSize, n) = WindowSize
        BY <1>1, <1>2, <1>4, <2>1, <3>1 DEF Memory!LargerOf, Memory!SmallerOf
      <3> QED  BY <3>1, <3>2
    <2>2. CASE ~(WindowSize <= n)
      <3>1. Memory!Window(c, n) = 1..n /\ Memory!SmallerOf(WindowSize, n) = n
        BY <1>1, <1>2, <1>4, <2>2 DEF Memory!LargerOf, Memory!SmallerOf
      <3> QED  BY <3>1
    <2> QED  BY <2>1, <2>2
  <1>5. CASE ~(end > n)
    <2>1. end \in Nat /\ end <= n /\ end - start + 1 = Memory!SmallerOf(WindowSize, n)
      BY <1>1, <1>3, <1>5 DEF Memory!SmallerOf
    <2>2. c <= n => start <= c /\ c <= end
      BY <1>1, <1>3, <1>5
    <2> QED  BY <1>2, <1>3, <1>5, <2>1, <2>2
  <1> QED  BY <1>4, <1>5

(* The console's module counts as FiniteSets does. *)
LEMMA SameCardinality == ASSUME NEW S  PROVE Memory!Cardinality(S) = Cardinality(S)
  BY Zenon DEF Memory!Cardinality, Cardinality

\* A painted list has the window and the buttons it should.
LEMMA PaintedFits ==
  ASSUME NEW c \in Nat \ {0}, NEW n \in Nat \ {0}, fragments = Memory!PaintedList(c, n)
  PROVE  Memory!WindowFits
  <1> SUFFICES ASSUME n > 1  PROVE Memory!WindowFits
    BY DEF Memory!WindowFits, Memory!PaintedList
  <1>1. PICK a \in Nat, b \in Nat :
          /\ Memory!Window(c, n) = a..b /\ 1 <= a /\ b <= n
          /\ b - a + 1 = Memory!SmallerOf(WindowSize, n)
          /\ c <= n => a <= c /\ c <= b
    BY WindowShape
  <1>2. /\ fragments.page = c /\ fragments.of = n /\ fragments.window = a..b
        /\ fragments.buttons = ((a..b) \cup {1, n, c - 1, c + 1}) \cap (1..n)
    BY <1>1 DEF Memory!PaintedList, Memory!PageButtons
  <1>3. Cardinality(a..b) = Memory!SmallerOf(WindowSize, n)
    <2>1. a <= b + 1 /\ a \in Int /\ b \in Int
      BY <1>1, PagesAssumption DEF Memory!SmallerOf
    <2>2. Cardinality(a..b) = IF a > b THEN 0 ELSE b - a + 1
      BY <2>1, FS_Interval
    <2> QED  BY <1>1, <2>1, <2>2
  <1>4. a..b \subseteq 1..n
    BY <1>1
  <1>5. c <= n => c \in a..b
    BY <1>1
  <1>6. {1, fragments.of} \subseteq fragments.buttons
    BY <1>2
  <1>7. fragments.window \subseteq fragments.buttons /\ fragments.buttons \subseteq 1..fragments.of
    BY <1>2, <1>4
  <1>8. Memory!Cardinality(fragments.window) = Memory!SmallerOf(WindowSize, fragments.of)
    BY <1>2, <1>3, SameCardinality, Zenon
  <1>9. fragments.page <= fragments.of => fragments.page \in fragments.window
    BY <1>2, <1>5
  <1> QED  BY <1>6, <1>7, <1>8, <1>9, Zenon DEF Memory!WindowFits

\* The list on the page was painted from a page number and a number of pages
MemoryIInv ==
  /\ pageNo \in Nat \ {0} /\ pages \in Nat \ {0}
  /\ \/ fragments = Memory!NoList
     \/ \E c, n \in Nat \ {0} : fragments = Memory!PaintedList(c, n)

\* No list is painted at first.
LEMMA MemoryInit == Memory!Init => MemoryIInv
  BY DEF Memory!Init, MemoryIInv

\* Lists are painted by renderMemory alone, from page numbers the console has.
LEMMA MemoryNext == MemoryIInv /\ [Memory!Next]_(Memory!memory) => MemoryIInv'
  <1> SUFFICES ASSUME MemoryIInv, [Memory!Next]_(Memory!memory)  PROVE MemoryIInv'
    OBVIOUS
  <1>1. CASE fragments' \in {fragments, Memory!NoList} /\ pages' = pages /\ pageNo' \in {pageNo, 1}
    BY <1>1 DEF MemoryIInv
  <1>2. ASSUME NEW p \in 1..MaxPages, Memory!GoToPage(p)  PROVE MemoryIInv'
    BY <1>2, PagesAssumption DEF Memory!GoToPage, Memory!AskList, MemoryIInv
  <1>3. ASSUME NEW i, NEW n \in 1..MaxPages, Memory!ListArrives(i, n)  PROVE MemoryIInv'
    BY <1>3, PagesAssumption DEF Memory!ListArrives, MemoryIInv
  <1>4. ASSUME NEW i, Memory!ListFails(i)  PROVE MemoryIInv'
    BY <1>4 DEF Memory!ListFails, MemoryIInv
  <1>5. CASE UNCHANGED Memory!memory
    BY <1>1, <1>5 DEF Memory!memory
  <1>6. CASE Memory!Open \/ Memory!ApplyFilters \/ Memory!DownloadExport \/ Memory!CloseFragmentInspector
    BY <1>1, <1>6 DEF Memory!Open, Memory!ApplyFilters, Memory!DownloadExport,
       Memory!CloseFragmentInspector, Memory!AskList
  <1>7. ASSUME NEW f, Memory!Type(f) \/ Memory!ViewInGraph(f) \/ Memory!ShowFragmentDetail(f)
        PROVE MemoryIInv'
    BY <1>1, <1>7 DEF Memory!Type, Memory!ViewInGraph, Memory!ShowFragmentDetail
  <1>8. ASSUME NEW i, NEW ok, Memory!DetailArrives(i, ok)  PROVE MemoryIInv'
    BY <1>1, <1>8 DEF Memory!DetailArrives
  <1> QED
    BY <1>2, <1>3, <1>4, <1>5, <1>6, <1>7, <1>8 DEF Memory!Next

\* OneAnimation, with what loads and moons can be
GraphIInv == Graph!OneAnimation /\ moons \subseteq Nat \ {0} /\ loads \in Nat

\* No frame is scheduled at first.
LEMMA GraphInit == Graph!Init => GraphIInv
  BY DEF Graph!Init, GraphIInv, Graph!OneAnimation

\* Every step schedules with the slot and cancels with it.
LEMMA GraphNext == GraphIInv /\ [Graph!Next]_(Graph!graph) => GraphIInv'
  <1> SUFFICES ASSUME GraphIInv, [Graph!Next]_(Graph!graph)  PROVE GraphIInv'
    OBVIOUS
  <1> USE DEF GraphIInv, Graph!OneAnimation, Graph!CancelFrame, Graph!StartFrame
  <1>1. CASE Graph!LoadGraph
    BY <1>1 DEF Graph!LoadGraph
  <1>2. ASSUME NEW l \in 1..loads, NEW hasMoons, Graph!DrawGraph(l, hasMoons)  PROVE GraphIInv'
    BY <1>2 DEF Graph!DrawGraph
  <1>3. ASSUME NEW l \in 1..loads, Graph!SimEnds(l)  PROVE GraphIInv'
    BY <1>3 DEF Graph!SimEnds
  <1>4. CASE Graph!Drag
    BY <1>4 DEF Graph!Drag
  <1>5. CASE Graph!HideTab
    BY <1>5 DEF Graph!HideTab
  <1>6. CASE Graph!ShowTab
    BY <1>6 DEF Graph!ShowTab
  <1>7. ASSUME NEW l \in 1..loads, Graph!AnimateMoons(l)  PROVE GraphIInv'
    BY <1>7 DEF Graph!AnimateMoons
  <1>8. CASE UNCHANGED Graph!graph
    BY <1>8 DEF Graph!graph
  <1> QED
    BY <1>1, <1>2, <1>3, <1>4, <1>5, <1>6, <1>7, <1>8 DEF Graph!Next

\* For any window size and number of pages the buttons fit, and for any number of loads,
\* drags and tab changes one animation runs, which _moonRafId can cancel
\* (renderPagination, loadGraph, _animateMoons).
THEOREM ConsoleViewsHold == Memory!Spec /\ Graph!Spec => []ViewsHold
  <1>1. MemoryIInv => Memory!WindowFits
    BY PaintedFits DEF MemoryIInv, Memory!WindowFits, Memory!NoList
  <1>2. GraphIInv => Graph!OneAnimation
    BY DEF GraphIInv
  <1>3. Memory!WindowFits /\ Graph!OneAnimation => ViewsHold
    BY DEF ViewsHold
  <1> QED
    BY <1>1, <1>2, <1>3, MemoryInit, MemoryNext, GraphInit, GraphNext, PTL
    DEF Memory!Spec, Graph!Spec

---------------------------------------------------------------------------
(* The pages of a recall.                                                  *)

Paged == DOMAIN Births

\* How many fragments have a better score
Before(f, t) == Cardinality({g \in Paged : Paging!Distance(g, t) < Paging!Distance(f, t)})

\* What was served of the fragments whose score no other has when the cursor stands at offset
Served(offset, t) ==
  \A f \in Paged : Paging!Untied(f, t) => served[f] = IF Before(f, t) < offset THEN 1 ELSE 0

\* The property speaks of the end; the invariant says of every cursor that what lies before
\* its offset in the order of its anchor was served once, and nothing else
PagingIInv ==
  /\ cursor.at \in {"first", "next", "end"} /\ room \in Nat /\ clock \in Nat
  /\ cursor.at = "next" => cursor.offset \in Nat /\ cursor.anchor \in Nat
  /\ cursor = [at |-> cursor.at, offset |-> cursor.offset, anchor |-> cursor.anchor]
  /\ room >= Cardinality(Paged) =>
       /\ cursor.at = "first" => \A f \in Paged : served[f] = 0
       /\ cursor.at = "next"  => Served(cursor.offset, cursor.anchor)
       /\ cursor.at = "end"   => \A f \in Paged : Paging!Untied(f, cursor.anchor) => served[f] = 1

\* Paging counts as everybody does.
LEMMA PagesCount == ASSUME NEW S  PROVE Paging!Cardinality(S) = Cardinality(S)
  BY Zenon DEF Paging!Cardinality, Cardinality

\* There are finitely many fragments.
LEMMA PagesFinite ==
  /\ IsFiniteSet(Paged) /\ Cardinality(Paged) \in Nat
  /\ Paging!Pageable = Paged /\ PageSize \in Nat \ {0}
  <1>1. Births \in Seq(Int) /\ Len(Births) \in Nat /\ Paged = 1..Len(Births)
    BY PagingAssumption DEF Paged
  <1>2. IsFiniteSet(Paged) /\ Cardinality(Paged) \in Nat
    BY <1>1, FS_Interval, FS_CardinalityType
  <1> QED  BY <1>2, PagingAssumption DEF Paging!Pageable, Paged

\* A set without f is smaller than one with it.
LEMMA Fewer ==
  ASSUME NEW S, IsFiniteSet(S), NEW f \in S, NEW T \in SUBSET (S \ {f})
  PROVE  Cardinality(T) \in Nat /\ Cardinality(T) < Cardinality(S)
  <1>1. IsFiniteSet(S \ {f}) /\ Cardinality(S \ {f}) = Cardinality(S) - 1 /\ Cardinality(S) \in Nat
    BY FS_RemoveElement, FS_CardinalityType
  <1>2. Cardinality(T) <= Cardinality(S \ {f}) /\ IsFiniteSet(T)
    BY <1>1, FS_Subset
  <1>3. Cardinality(T) \in Nat /\ Cardinality(S \ {f}) \in Nat
    BY <1>1, <1>2, FS_CardinalityType
  <1> QED  BY <1>1, <1>2, <1>3

\* Where the budget has room for all, the search finds all.
LEMMA AllFound ==
  ASSUME NEW t, NEW rank \in Paging!Ranks(t), room \in Nat, room >= Cardinality(Paged)
  PROVE  Paging!Searched(rank) = Paged
  <1>1. rank \in [Paged -> 1..Cardinality(Paged)]
    BY PagesFinite, PagesCount DEF Paging!Ranks
  <1>2. \A f \in Paged : rank[f] <= room
    BY <1>1, PagesFinite
  <1> QED  BY <1>2, PagesFinite DEF Paging!Searched

\* Scores are numbers.
LEMMA DistanceTyped ==
  ASSUME NEW f \in Paged, NEW t \in Int  PROVE Paging!Distance(f, t) \in Int
  <1>1. Births[f] \in Int
    BY PagingAssumption DEF Paged
  <1> QED  BY <1>1 DEF Paging!Distance

\* There are fewer before a fragment than there are.
LEMMA BeforeCount ==
  ASSUME NEW f \in Paged, NEW t \in Int
  PROVE  Before(f, t) \in Nat /\ Before(f, t) < Cardinality(Paged)
  <1> DEFINE T == {g \in Paged : Paging!Distance(g, t) < Paging!Distance(f, t)}
  <1>1. T \in SUBSET (Paged \ {f})
    BY DistanceTyped
  <1> HIDE DEF T
  <1>2. Cardinality(T) \in Nat /\ Cardinality(T) < Cardinality(Paged)
    BY <1>1, PagesFinite, Fewer
  <1> QED  BY <1>2 DEF Before, T

\* Where no other has its score, the place of a fragment is the number of those before it,
\* however the search ranks the others.
LEMMA UntiedPlace ==
  ASSUME NEW t \in Int, NEW rank \in Paging!Ranks(t), NEW f \in Paged, Paging!Untied(f, t)
  PROVE  Paging!Place(f, Paged, t, rank) = Before(f, t)
  <1> DEFINE T == {g \in Paged : Paging!Nearer(g, f, t, rank)}
             U == {g \in Paged : Paging!Distance(g, t) < Paging!Distance(f, t)}
  <1>1. rank[f] \in Int
    BY PagesFinite, PagesCount DEF Paging!Ranks
  <1>2. ASSUME NEW g \in Paged  PROVE g \in T <=> g \in U
    <2>1. CASE g = f
      BY <1>1, <2>1 DEF Paging!Nearer
    <2>2. CASE g # f
      BY <2>2, PagesFinite DEF Paging!Nearer, Paging!Untied
    <2> QED  BY <2>1, <2>2
  <1>3. T = U
    BY <1>2
  <1> HIDE DEF T, U
  <1>4. Paging!Place(f, Paged, t, rank) = Paging!Cardinality(T)
    BY DEF Paging!Place, T
  <1> QED  BY <1>3, <1>4, PagesCount DEF Before, U

\* Nothing was served at first.
LEMMA PagingInit == Paging!Init => PagingIInv
  BY PagesFinite, PagingAssumption DEF Paging!Init, Paging!First, PagingIInv

\* A page goes on where the one before it ended.
LEMMA PageKept == ASSUME PagingIInv, Paging!Page  PROVE PagingIInv'
  <1> DEFINE at == Paging!Started
  <1>1. cursor.at # "end" /\ UNCHANGED <<clock, room>>
    BY DEF Paging!Page, Paging!Serve
  <1>2. PICK rank \in Paging!Ranks(at.anchor) : Paging!Serve(at, rank)
    BY DEF Paging!Page
  <1> DEFINE ranked == Paging!Searched(rank)
             stop == at.offset + PageSize
             slice == {f \in ranked : Paging!Place(f, ranked, at.anchor, rank) \in at.offset..(stop - 1)}
  <1>3. /\ served' = [f \in Paging!Pageable |-> IF f \in slice THEN served[f] + 1 ELSE served[f]]
        /\ cursor' = IF stop < Paging!Cardinality(ranked) THEN [at EXCEPT !.offset = stop]
                     ELSE Paging!End(at.anchor)
    BY <1>2 DEF Paging!Serve
  <1>4. /\ at.at = "next" /\ at.offset \in Nat /\ at.anchor \in Nat
        /\ at = [at |-> "next", offset |-> at.offset, anchor |-> at.anchor]
    <2>1. CASE cursor.at = "first"
      BY <2>1 DEF PagingIInv, Paging!Started
    <2>2. CASE cursor.at = "next"
      BY <2>2 DEF PagingIInv, Paging!Started
    <2> QED  BY <1>1, <2>1, <2>2 DEF PagingIInv
  <1>5. ASSUME room >= Cardinality(Paged)  PROVE Served(at.offset, at.anchor)
    <2>1. CASE cursor.at = "first"
      <3>1. at.offset = 0 /\ \A f \in Paged : served[f] = 0
        BY <1>5, <2>1 DEF PagingIInv, Paging!Started
      <3> HIDE DEF at
      <3>2. \A f \in Paged : ~(Before(f, at.anchor) < 0)
        BY <1>4, BeforeCount
      <3> QED  BY <3>1, <3>2 DEF Served
    <2>2. CASE cursor.at = "next"
      BY <1>5, <2>2 DEF PagingIInv, Paging!Started
    <2> QED  BY <1>1, <2>1, <2>2 DEF PagingIInv
  <1> HIDE DEF at
  <1>6. stop \in Nat /\ stop > at.offset
    BY <1>4, PagesFinite
  <1>7. ASSUME room >= Cardinality(Paged)
        PROVE  /\ ranked = Paged
               /\ \A f \in Paged : Paging!Untied(f, at.anchor) =>
                    served'[f] = IF Before(f, at.anchor) < stop THEN 1 ELSE 0
    <2>1. ranked = Paged
      BY <1>7, AllFound DEF PagingIInv
    <2>2. slice = {f \in Paged : Paging!Place(f, Paged, at.anchor, rank) \in at.offset..(stop - 1)}
      BY <2>1
    <2> HIDE DEF ranked, slice, stop
    <2>3. ASSUME NEW f \in Paged, Paging!Untied(f, at.anchor)
          PROVE  served'[f] = IF Before(f, at.anchor) < stop THEN 1 ELSE 0
      <3>1. Before(f, at.anchor) \in Nat
        BY <1>4, BeforeCount
      <3>2. served[f] = IF Before(f, at.anchor) < at.offset THEN 1 ELSE 0
        BY <1>5, <1>7, <2>3 DEF Served
      <3>3. f \in slice <=> Before(f, at.anchor) \in at.offset..(stop - 1)
        BY <1>4, <2>2, <2>3, UntiedPlace
      <3>4. served'[f] = IF f \in slice THEN served[f] + 1 ELSE served[f]
        BY <1>3, PagesFinite
      <3> QED  BY <1>4, <1>6, <3>1, <3>2, <3>3, <3>4
    <2> QED  BY <2>1, <2>3
  <1> HIDE DEF ranked, slice, stop
  <1>8. CASE stop < Paging!Cardinality(ranked)
    <2>1. cursor' = [at |-> "next", offset |-> stop, anchor |-> at.anchor]
      BY <1>3, <1>4, <1>8
    <2>2. cursor'.at = "next" /\ cursor'.offset = stop /\ cursor'.anchor = at.anchor
      BY <2>1
    <2>3. room' \in Nat /\ clock' \in Nat /\ room' = room
      BY <1>1 DEF PagingIInv
    <2>4. ASSUME room >= Cardinality(Paged)  PROVE Served(cursor.offset, cursor.anchor)'
      BY <1>7, <2>2, <2>4 DEF Served, Paging!Untied, Paging!Pageable, Paging!Distance, Before
    <2> QED  BY <1>4, <1>6, <2>1, <2>2, <2>3, <2>4 DEF PagingIInv
  <1>9. CASE ~(stop < Paging!Cardinality(ranked))
    <2>1. cursor' = Paging!End(at.anchor) /\ cursor'.anchor = at.anchor
      BY <1>3, <1>9 DEF Paging!End
    <2>2. ASSUME room >= Cardinality(Paged), NEW f \in Paged, Paging!Untied(f, at.anchor)
          PROVE  served'[f] = 1
      <3>1. Before(f, at.anchor) < stop
        BY <1>4, <1>6, <1>7, <1>9, <2>2, BeforeCount, PagesFinite, PagesCount
      <3> QED  BY <1>7, <2>2, <3>1
    <2> QED  BY <1>1, <2>1, <2>2 DEF PagingIInv, Paging!End
  <1> QED  BY <1>8, <1>9

\* Every step keeps the invariant.
LEMMA PagingNext == PagingIInv /\ [Paging!Next]_(Paging!vars) => PagingIInv'
  <1> SUFFICES ASSUME PagingIInv, [Paging!Next]_(Paging!vars)  PROVE PagingIInv'
    OBVIOUS
  <1>1. CASE Paging!Restart
    BY <1>1, PagesFinite DEF Paging!Restart, Paging!First, PagingIInv
  <1>2. ASSUME UNCHANGED <<room, cursor, served>>, clock' \in Nat  PROVE PagingIInv'
    BY <1>2 DEF PagingIInv, Served, Paging!Untied, Paging!Distance, Before
  <1>3. CASE Paging!Tick \/ UNCHANGED Paging!vars
    BY <1>2, <1>3 DEF Paging!Tick, Paging!vars, PagingIInv
  <1> QED  BY <1>1, <1>2, <1>3, PageKept DEF Paging!Next

\* The pages of a recall whose search has room for all return every fragment once that shares its
\* score with no other, for any fragments, page size and passage of time, whatever the pages
\* raise and however the search ranks fragments of one score (recall, the cursor's anchorTime).
THEOREM PagesArePartition == Paging!Spec => []PagesPartition
  <1>1. PagingIInv => PagesPartition
    BY PagesFinite, PagesCount DEF PagingIInv, PagesPartition, Paging!PagesPartition
  <1> QED  BY <1>1, PagingInit, PagingNext, PTL DEF Paging!Spec

---------------------------------------------------------------------------
(* The milestones of an agent.                                             *)

\* A call that has inserted its milestone and not remembered it yet
Open(m) == m.pc \in {"answer", "edge"}

\* Such a milestone is new: it is not the last, nothing precedes or follows it, and no other
\* call has it or is to set an edge from it
Fresh(r) ==
  /\ ms[r].ev \in 1..Len(milestones) /\ ms[r].ev # lastEvent
  /\ \A p \in milestoneEdges : p[1] # ms[r].ev /\ p[2] # ms[r].ev
  /\ \A q \in Runs \ {r} : Open(ms[q]) => ms[q].ev # ms[r].ev
  /\ \A q \in Runs : ms[q].pc = "edge" => ms[q].prev # ms[r].ev

Call == [pc : {"idle", "insert", "answer", "edge"}, item : Fragments \cup {None}, ev : Nat, prev : Nat]

\* MilestonesChained is kept because an edge leads to a fresh milestone
MilestoneIInv ==
  /\ milestones \in Seq(Fragments) /\ lastEvent \in 0..Len(milestones)
  /\ milestoneEdges \subseteq (1..Len(milestones)) \X (1..Len(milestones))
  /\ ms \in [Runs -> Call]
  /\ \A r \in Runs : ms[r].pc = "insert" => ms[r].item \in Fragments
  /\ \A r \in Runs : ms[r].pc = "edge" => ms[r].prev \in 1..Len(milestones)
  /\ \A r \in Runs : Open(ms[r]) => Fresh(r)
  /\ MilestonesChained

\* No milestone at first.
LEMMA MilestonesInit == Milestones!Init => MilestoneIInv
  <1> SUFFICES ASSUME Milestones!Init  PROVE MilestoneIInv
    OBVIOUS
  <1>1. /\ milestones = <<>> /\ milestoneEdges = {} /\ lastEvent = 0
        /\ ms = [r \in Runs |-> [pc |-> "idle", item |-> None, ev |-> 0, prev |-> 0]]
    BY DEF Milestones!Init, Milestones!Idle
  <1>2. MilestonesChained
    BY <1>1 DEF MilestonesChained, Milestones!MilestonesChained, Milestones!NoCircle
  <1>3. ms \in [Runs -> Call] /\ (\A r \in Runs : ms[r].pc = "idle")
    BY <1>1 DEF Call
  <1>4. \A r \in Runs : ~Open(ms[r])
    BY <1>3 DEF Open
  <1>5. milestones \in Seq(Fragments) /\ Len(milestones) = 0
    BY <1>1
  <1> QED  BY <1>1, <1>2, <1>3, <1>4, <1>5 DEF MilestoneIInv

\* A call that moves on without its milestone leaves the rest as it was.
LEMMA MovesOn ==
  ASSUME MilestoneIInv, NEW r \in Runs, NEW m \in Call, ms' = [ms EXCEPT ![r] = m], ~Open(m),
         m.pc = "insert" => m.item \in Fragments, UNCHANGED <<milestones, milestoneEdges, lastEvent>>
  PROVE  MilestoneIInv'
  <1>1. ms' \in [Runs -> Call] /\ ms'[r] = m /\ (\A q \in Runs \ {r} : ms'[q] = ms[q])
    BY DEF MilestoneIInv
  <1>2. m.pc # "edge"
    BY DEF Open
  <1>3. ASSUME NEW q \in Runs, Open(ms'[q])  PROVE Fresh(q)'
    <2>1. q # r /\ ms'[q] = ms[q] /\ Fresh(q)
      BY <1>1, <1>3 DEF MilestoneIInv
    <2> QED  BY <1>1, <1>2, <2>1 DEF Fresh, Open
  <1>4. MilestonesChained'
    BY DEF MilestoneIInv, MilestonesChained, Milestones!MilestonesChained, Milestones!NoCircle
  <1>5. \A q \in Runs : Open(ms[q])' => Fresh(q)'
    BY <1>3 DEF Open
  <1>6. /\ \A q \in Runs : ms'[q].pc = "insert" => ms'[q].item \in Fragments
        /\ \A q \in Runs : ms'[q].pc = "edge" => ms'[q].prev \in 1..Len(milestones)
    BY <1>1, <1>2 DEF MilestoneIInv
  <1> QED  BY <1>1, <1>4, <1>5, <1>6 DEF MilestoneIInv

\* A fragment that has no milestone gets one, without neighbours yet.
LEMMA MilestoneKept == ASSUME MilestoneIInv, NEW r \in Runs, Milestones!Milestone(r)  PROVE MilestoneIInv'
  <1> DEFINE i == ms[r].item
             n == Len(milestones) + 1
  <1>0. /\ i \in Fragments /\ n \in Nat /\ Len(milestones) \in Nat /\ ms[r].pc = "insert"
        /\ UNCHANGED <<milestoneEdges, lastEvent>>
    BY DEF MilestoneIInv, Milestones!Milestone
  <1>1. CASE \E k \in DOMAIN milestones : milestones[k] = i
    <2>1. ms' = [ms EXCEPT ![r] = Milestones!Idle] /\ UNCHANGED <<milestones, milestoneEdges, lastEvent>>
      BY <1>1 DEF Milestones!Milestone
    <2>2. Milestones!Idle \in Call /\ Milestones!Idle.pc = "idle"
      BY DEF Milestones!Idle, Call
    <2> QED  BY <2>1, <2>2, MovesOn DEF Open
  <1>2. CASE ~\E k \in DOMAIN milestones : milestones[k] = i
    <2>1. milestones' = Append(milestones, i) /\ ms' = [ms EXCEPT ![r].pc = "answer", ![r].ev = n]
      BY <1>2 DEF Milestones!Milestone
    <2>2. /\ milestones \in Seq(Fragments) /\ ms \in [Runs -> Call] /\ lastEvent \in 0..Len(milestones)
          /\ milestoneEdges \subseteq (1..Len(milestones)) \X (1..Len(milestones))
      BY DEF MilestoneIInv
    <2>3. /\ milestones' \in Seq(Fragments) /\ Len(milestones') = n /\ DOMAIN milestones = 1..Len(milestones)
          /\ DOMAIN milestones' = 1..n /\ milestones'[n] = i
          /\ \A k \in 1..Len(milestones) : milestones'[k] = milestones[k]
      BY <1>0, <2>1, <2>2
    <2>4. /\ ms' \in [Runs -> Call] /\ ms'[r] = [ms[r] EXCEPT !.pc = "answer", !.ev = n]
          /\ \A q \in Runs \ {r} : ms'[q] = ms[q]
      <3>1. ms' = [ms EXCEPT ![r] = [ms[r] EXCEPT !.pc = "answer", !.ev = n]]
        BY <2>1
      <3>2. [ms[r] EXCEPT !.pc = "answer", !.ev = n] \in Call
        BY <1>0, <2>2 DEF Call
      <3> QED  BY <2>2, <3>1, <3>2
    <2>5. ms'[r].pc = "answer" /\ ms'[r].ev = n
      BY <2>2, <2>4 DEF Call
    <2>6. \A p \in milestoneEdges : p[1] \in 1..Len(milestones) /\ p[2] \in 1..Len(milestones)
      BY <2>2
    <2>7. MilestonesChained'
      <3>1. \A k, l \in 1..n : milestones'[k] = milestones'[l] => k = l
        BY <1>0, <1>2, <2>3 DEF MilestoneIInv, MilestonesChained, Milestones!MilestonesChained
      <3>2. ASSUME NEW S \in SUBSET (1..n), S # {}
            PROVE  \E k \in S : \A p \in milestoneEdges : p[2] = k => p[1] \notin S
        <4>1. CASE S \ {n} = {}
          <5>1. n \in S
            BY <3>2, <4>1
          <5> QED  BY <1>0, <2>6, <5>1
        <4>2. CASE S \ {n} # {}
          <5>1. S \ {n} \in SUBSET (DOMAIN milestones) /\ S \ {n} # {}
            <6>1. \A x \in S : x \in 1..n
              OBVIOUS
            <6>2. \A x \in 1..n : x # n => x \in 1..Len(milestones)
              BY <1>0
            <6> HIDE DEF n
            <6> QED  BY <2>3, <4>2, <6>1, <6>2
          <5>2. PICK k \in S \ {n} : \A p \in milestoneEdges : p[2] = k => p[1] \notin S \ {n}
            BY <5>1 DEF MilestoneIInv, MilestonesChained, Milestones!MilestonesChained, Milestones!NoCircle
          <5> QED  BY <1>0, <2>6, <5>2
        <4> QED  BY <4>1, <4>2
      <3>3. \A p, q \in milestoneEdges : p[2] = q[2] => p = q
        BY DEF MilestoneIInv, MilestonesChained, Milestones!MilestonesChained
      <3>4. Milestones!NoCircle'
        <4>1. \A S \in SUBSET (DOMAIN milestones') :
                 S # {} => \E k \in S : \A p \in milestoneEdges' : p[2] = k => p[1] \notin S
          BY <1>0, <2>3, <3>2
        <4> QED  BY <4>1 DEF Milestones!NoCircle
      <3>5. \A k, l \in DOMAIN milestones' : milestones'[k] = milestones'[l] => k = l
        BY <2>3, <3>1
      <3> QED  BY <1>0, <3>3, <3>4, <3>5 DEF MilestonesChained, Milestones!MilestonesChained
    <2>8. ASSUME NEW q \in Runs, Open(ms'[q])  PROVE Fresh(q)'
      <3>1. \A o \in Runs \ {r} : Open(ms[o]) => Fresh(o)
        BY DEF MilestoneIInv
      <3>2. \A o \in Runs \ {r} : ms[o].pc = "edge" => ms[o].prev \in 1..Len(milestones)
        BY DEF MilestoneIInv
      <3>3. CASE q = r
        <4>1. ms'[q].ev \in 1..Len(milestones') /\ ms'[q].ev # lastEvent'
          BY <1>0, <2>2, <2>3, <2>5, <3>3
        <4>2. \A p \in milestoneEdges' : p[1] # ms'[q].ev /\ p[2] # ms'[q].ev
          BY <1>0, <2>5, <2>6, <3>3
        <4>3. ASSUME NEW o \in Runs \ {q}, Open(ms'[o])  PROVE ms'[o].ev # ms'[q].ev
          <5>1. ms'[o] = ms[o] /\ ms[o].ev \in 1..Len(milestones)
            BY <2>4, <3>1, <3>3, <4>3 DEF Fresh
          <5> QED  BY <1>0, <2>5, <3>3, <5>1
        <4>4. ASSUME NEW o \in Runs, ms'[o].pc = "edge"  PROVE ms'[o].prev # ms'[q].ev
          <5>1. o # r /\ ms'[o] = ms[o]
            BY <2>4, <2>5, <4>4
          <5>2. ms[o].prev \in 1..Len(milestones)
            BY <3>2, <4>4, <5>1
          <5> QED  BY <1>0, <2>5, <3>3, <5>1, <5>2
        <4> QED  BY <4>1, <4>2, <4>3, <4>4 DEF Fresh, Open
      <3>4. CASE q # r
        <4>0. ms'[q] = ms[q] /\ Fresh(q)
          BY <2>4, <2>8, <3>1, <3>4
        <4>1. ms'[q].ev \in 1..Len(milestones') /\ ms'[q].ev # lastEvent' /\ ms'[q].ev # n
          BY <1>0, <2>3, <4>0 DEF Fresh
        <4>2. \A p \in milestoneEdges' : p[1] # ms'[q].ev /\ p[2] # ms'[q].ev
          BY <1>0, <4>0 DEF Fresh
        <4>3. \A o \in Runs \ {q} : Open(ms'[o]) => ms'[o].ev # ms'[q].ev
          BY <2>4, <2>5, <4>0, <4>1 DEF Fresh
        <4>4. \A o \in Runs : ms'[o].pc = "edge" => ms'[o].prev # ms'[q].ev
          BY <2>4, <2>5, <4>0 DEF Fresh
        <4> QED  BY <4>1, <4>2, <4>3, <4>4 DEF Fresh, Open
      <3> QED  BY <3>3, <3>4
    <2>9. \A q \in Runs : Open(ms[q])' => Fresh(q)'
      BY <2>8 DEF Open
    <2>10. /\ \A q \in Runs : ms'[q].pc = "insert" => ms'[q].item \in Fragments
           /\ \A q \in Runs : ms'[q].pc = "edge" => ms'[q].prev \in 1..Len(milestones')
      <3>1. ASSUME NEW q \in Runs  PROVE q = r \/ (q # r /\ ms'[q] = ms[q])
        BY <2>4
      <3>2. \A q \in Runs : ms'[q].pc = "insert" => ms'[q].item \in Fragments
        BY <2>5, <3>1 DEF MilestoneIInv
      <3>3. \A q \in Runs : ms'[q].pc = "edge" => ms[q].prev \in 1..Len(milestones) /\ ms'[q].prev = ms[q].prev
        BY <2>5, <3>1 DEF MilestoneIInv
      <3> QED  BY <1>0, <2>3, <3>2, <3>3
    <2>11. lastEvent' \in 0..Len(milestones') /\ milestoneEdges' \subseteq (1..Len(milestones')) \X (1..Len(milestones'))
      BY <1>0, <2>2, <2>3
    <2> QED  BY <2>3, <2>4, <2>7, <2>9, <2>10, <2>11 DEF MilestoneIInv
  <1> QED  BY <1>1, <1>2

\* A call remembers its milestone, which is nobody else's, as the last.
LEMMA Remembered ==
  ASSUME MilestoneIInv, NEW r \in Runs, Open(ms[r]), lastEvent' = ms[r].ev, UNCHANGED milestones,
         ms' = [ms EXCEPT ![r] = Milestones!Idle], MilestonesChained',
         \/ UNCHANGED milestoneEdges
         \/ ms[r].pc = "edge" /\ milestoneEdges' = milestoneEdges \cup {<<ms[r].prev, ms[r].ev>>}
  PROVE  MilestoneIInv'
  <1>1. Fresh(r) /\ ms \in [Runs -> Call] /\ (\A q \in Runs : Open(ms[q]) => Fresh(q))
    BY DEF MilestoneIInv
  <1>2. Milestones!Idle \in Call /\ Milestones!Idle.pc = "idle"
    BY DEF Milestones!Idle, Call
  <1>3. ms' \in [Runs -> Call] /\ ms'[r].pc = "idle" /\ (\A q \in Runs \ {r} : ms'[q] = ms[q])
    BY <1>1, <1>2
  <1>4. ASSUME NEW q \in Runs, Open(ms'[q])  PROVE Fresh(q)'
    <2>1. q # r /\ ms'[q] = ms[q] /\ Fresh(q)
      BY <1>1, <1>3, <1>4 DEF Open
    <2>2. ms[q].ev # ms[r].ev /\ (ms[r].pc = "edge" => ms[r].prev # ms[q].ev)
      BY <1>1, <2>1 DEF Fresh
    <2>3. \A p \in milestoneEdges' : p[1] # ms'[q].ev /\ p[2] # ms'[q].ev
      BY <2>1, <2>2 DEF Fresh
    <2>4. ms'[q].ev \in 1..Len(milestones') /\ ms'[q].ev # lastEvent'
      BY <2>1, <2>2 DEF Fresh
    <2>5. \A o \in Runs \ {q} : Open(ms'[o]) => ms'[o].ev # ms'[q].ev
      BY <1>3, <2>1 DEF Fresh, Open
    <2>6. \A o \in Runs : ms'[o].pc = "edge" => ms'[o].prev # ms'[q].ev
      BY <1>3, <2>1 DEF Fresh
    <2> QED  BY <2>3, <2>4, <2>5, <2>6 DEF Fresh, Open
  <1>5. \A q \in Runs : Open(ms[q])' => Fresh(q)'
    BY <1>4 DEF Open
  <1>6. /\ \A q \in Runs : ms'[q].pc = "insert" => ms'[q].item \in Fragments
        /\ \A q \in Runs : ms'[q].pc = "edge" => ms'[q].prev \in 1..Len(milestones')
    BY <1>3 DEF MilestoneIInv
  <1>7. milestones' \in Seq(Fragments) /\ lastEvent' \in 0..Len(milestones')
    BY <1>1 DEF MilestoneIInv, Fresh
  <1>8. milestoneEdges' \subseteq (1..Len(milestones')) \X (1..Len(milestones'))
    BY <1>1 DEF MilestoneIInv, Fresh
  <1> QED  BY <1>3, <1>5, <1>6, <1>7, <1>8 DEF MilestoneIInv

\* The last milestone is read, or the new one is the first.
LEMMA PredecessorKept == ASSUME MilestoneIInv, NEW r \in Runs, Milestones!Predecessor(r)  PROVE MilestoneIInv'
  <1>0. /\ ms[r].pc = "answer" /\ UNCHANGED <<milestones, milestoneEdges>> /\ Fresh(r) /\ ms \in [Runs -> Call]
        /\ lastEvent \in 0..Len(milestones) /\ Len(milestones) \in Nat
    BY DEF MilestoneIInv, Milestones!Predecessor, Open
  <1>c. MilestonesChained'
    BY <1>0 DEF MilestoneIInv, MilestonesChained, Milestones!MilestonesChained, Milestones!NoCircle
  <1>f. \A q \in Runs : Open(ms[q]) => Fresh(q)
    BY DEF MilestoneIInv
  <1>1. CASE lastEvent # 0 /\ lastEvent # ms[r].ev
    <2>1. ms' = [ms EXCEPT ![r].pc = "edge", ![r].prev = lastEvent] /\ UNCHANGED lastEvent
      BY <1>1 DEF Milestones!Predecessor
    <2>2. /\ ms' \in [Runs -> Call] /\ ms'[r] = [ms[r] EXCEPT !.pc = "edge", !.prev = lastEvent]
          /\ \A q \in Runs \ {r} : ms'[q] = ms[q]
      <3>1. ms' = [ms EXCEPT ![r] = [ms[r] EXCEPT !.pc = "edge", !.prev = lastEvent]]
        BY <2>1
      <3>2. [ms[r] EXCEPT !.pc = "edge", !.prev = lastEvent] \in Call
        <4> DEFINE m == ms[r]
                   v == lastEvent
        <4>1. m \in Call /\ v \in Nat
          BY <1>0
        <4> HIDE DEF m, v
        <4>2. [m EXCEPT !.pc = "edge", !.prev = v] \in Call
          BY <4>1 DEF Call
        <4> QED  BY <4>2 DEF m, v
      <3> QED  BY <1>0, <3>1, <3>2
    <2>3. ms'[r].pc = "edge" /\ ms'[r].prev = lastEvent /\ ms'[r].ev = ms[r].ev
      BY <1>0, <2>2 DEF Call
    <2>4. \A q \in Runs : ms'[q].ev = ms[q].ev /\ (Open(ms'[q]) => Open(ms[q]))
      <3>1. \A q \in Runs : q = r \/ ms'[q] = ms[q]
        BY <2>2
      <3> QED  BY <1>0, <2>3, <3>1 DEF Open
    <2>5. ASSUME NEW q \in Runs, Open(ms'[q])  PROVE Fresh(q)'
      <3>1. Fresh(q) /\ ms'[q].ev = ms[q].ev
        BY <1>f, <2>4, <2>5
      <3>2. ASSUME NEW o \in Runs, ms'[o].pc = "edge"  PROVE ms'[o].prev # ms'[q].ev
        <4>1. CASE o = r
          BY <2>1, <2>3, <3>1, <4>1 DEF Fresh
        <4>2. CASE o # r
          BY <2>2, <3>1, <3>2, <4>2 DEF Fresh
        <4> QED  BY <4>1, <4>2
      <3>3. \A o \in Runs \ {q} : Open(ms'[o]) => ms'[o].ev # ms'[q].ev
        BY <2>4, <3>1 DEF Fresh
      <3>4. /\ ms'[q].ev \in 1..Len(milestones') /\ ms'[q].ev # lastEvent'
            /\ \A p \in milestoneEdges' : p[1] # ms'[q].ev /\ p[2] # ms'[q].ev
        BY <1>0, <2>1, <3>1 DEF Fresh
      <3> QED  BY <3>2, <3>3, <3>4 DEF Fresh, Open
    <2>6. \A q \in Runs : Open(ms[q])' => Fresh(q)'
      BY <2>5 DEF Open
    <2>7. \A q \in Runs : ms'[q].pc = "insert" => ms'[q].item \in Fragments
      BY <2>2, <2>3 DEF MilestoneIInv
    <2>8. \A q \in Runs : ms'[q].pc = "edge" => ms'[q].prev \in 1..Len(milestones')
      <3>1. lastEvent \in 1..Len(milestones)
        BY <1>0, <1>1
      <3> QED  BY <1>0, <2>2, <2>3, <3>1 DEF MilestoneIInv
    <2>9. /\ milestones' \in Seq(Fragments) /\ lastEvent' \in 0..Len(milestones')
          /\ milestoneEdges' \subseteq (1..Len(milestones')) \X (1..Len(milestones'))
      BY <1>0, <2>1 DEF MilestoneIInv
    <2> QED  BY <1>c, <2>2, <2>6, <2>7, <2>8, <2>9 DEF MilestoneIInv
  <1>2. CASE ~(lastEvent # 0 /\ lastEvent # ms[r].ev)
    <2>1. ms' = [ms EXCEPT ![r] = Milestones!Idle] /\ lastEvent' = ms[r].ev
      BY <1>2 DEF Milestones!Predecessor
    <2>2. Open(ms[r]) /\ UNCHANGED milestones /\ UNCHANGED milestoneEdges
      BY <1>0 DEF Open
    <2> QED  BY <1>c, <2>1, <2>2, Remembered
  <1> QED  BY <1>1, <1>2

\* The edge leads to a milestone without neighbours, so no circle closes.
LEMMA EdgeKept == ASSUME MilestoneIInv, NEW r \in Runs, Milestones!Edge(r)  PROVE MilestoneIInv'
  <1> DEFINE e == ms[r].ev
             v == ms[r].prev
  <1>0. /\ ms[r].pc = "edge" /\ milestoneEdges' = milestoneEdges \cup {<<v, e>>} /\ lastEvent' = e
        /\ ms' = [ms EXCEPT ![r] = Milestones!Idle] /\ UNCHANGED milestones
    BY DEF Milestones!Edge
  <1>1. Open(ms[r]) /\ Fresh(r) /\ v # e /\ (\A p \in milestoneEdges : p[1] # e /\ p[2] # e)
    BY <1>0 DEF MilestoneIInv, Open, Fresh
  <1> HIDE DEF e, v
  <1>2. /\ \A k, n \in DOMAIN milestones : milestones[k] = milestones[n] => k = n
        /\ \A p, q \in milestoneEdges : p[2] = q[2] => p = q
        /\ \A S \in SUBSET (DOMAIN milestones) :
             S # {} => \E k \in S : \A p \in milestoneEdges : p[2] = k => p[1] \notin S
    BY DEF MilestoneIInv, MilestonesChained, Milestones!MilestonesChained, Milestones!NoCircle
  <1>3. ASSUME NEW S \in SUBSET (DOMAIN milestones), S # {}
        PROVE  \E k \in S : \A p \in milestoneEdges' : p[2] = k => p[1] \notin S
    <2>1. CASE S \ {e} = {}
      BY <1>0, <1>1, <1>3, <2>1
    <2>2. CASE S \ {e} # {}
      <3>1. PICK k \in S \ {e} : \A p \in milestoneEdges : p[2] = k => p[1] \notin S \ {e}
        BY <1>2, <2>2
      <3> QED  BY <1>0, <1>1, <3>1
    <2> QED  BY <2>1, <2>2
  <1>4. \A p, q \in milestoneEdges' : p[2] = q[2] => p = q
    BY <1>0, <1>1, <1>2
  <1>5. MilestonesChained'
    BY <1>0, <1>2, <1>3, <1>4 DEF MilestonesChained, Milestones!MilestonesChained, Milestones!NoCircle
  <1> QED  BY <1>0, <1>1, <1>5, Remembered DEF e, v

\* Every step keeps the invariant.
LEMMA MilestonesNext == MilestoneIInv /\ [Milestones!Next]_(Milestones!milestones) => MilestoneIInv'
  <1> SUFFICES ASSUME MilestoneIInv, [Milestones!Next]_(Milestones!milestones)  PROVE MilestoneIInv'
    OBVIOUS
  <1>1. ASSUME NEW r \in Runs, NEW i \in Fragments, Milestones!Start(r, i)  PROVE MilestoneIInv'
    <2>1. ms' = [ms EXCEPT ![r] = [Milestones!Idle EXCEPT !.pc = "insert", !.item = i]]
          /\ UNCHANGED <<milestones, milestoneEdges, lastEvent>>
      BY <1>1 DEF Milestones!Start
    <2> DEFINE idle == Milestones!Idle
               m == [idle EXCEPT !.pc = "insert", !.item = i]
    <2>2. idle \in Call
      BY DEF Milestones!Idle, Call
    <2> HIDE DEF idle
    <2>3. m \in Call /\ m.pc = "insert" /\ m.item \in Fragments
      BY <2>2 DEF Call
    <2>4. ms' = [ms EXCEPT ![r] = m] /\ UNCHANGED <<milestones, milestoneEdges, lastEvent>> /\ ~Open(m)
      BY <2>1, <2>3 DEF idle, Open
    <2> HIDE DEF m
    <2> QED  BY <2>3, <2>4, MovesOn
  <1>2. ASSUME NEW r \in Runs, Milestones!MilestoneFails(r)  PROVE MilestoneIInv'
    <2>1. ms' = [ms EXCEPT ![r] = Milestones!Idle] /\ UNCHANGED <<milestones, milestoneEdges, lastEvent>>
      BY <1>2 DEF Milestones!MilestoneFails
    <2>2. Milestones!Idle \in Call /\ Milestones!Idle.pc = "idle"
      BY DEF Milestones!Idle, Call
    <2> QED  BY <2>1, <2>2, MovesOn DEF Open
  <1>3. CASE Milestones!Crash
    <2>1. /\ ms' = [r \in Runs |-> Milestones!Idle] /\ lastEvent' = 0 /\ UNCHANGED <<milestones, milestoneEdges>>
      BY <1>3 DEF Milestones!Crash
    <2>2. Milestones!Idle \in Call /\ Milestones!Idle.pc = "idle"
      BY DEF Milestones!Idle, Call
    <2>3. ms' \in [Runs -> Call] /\ (\A r \in Runs : ms'[r].pc = "idle")
      BY <2>1, <2>2
    <2>4. MilestonesChained'
      BY <2>1 DEF MilestoneIInv, MilestonesChained, Milestones!MilestonesChained, Milestones!NoCircle
    <2>5. milestones' \in Seq(Fragments) /\ lastEvent' \in 0..Len(milestones')
      BY <2>1 DEF MilestoneIInv
    <2>6. milestoneEdges' \subseteq (1..Len(milestones')) \X (1..Len(milestones'))
      BY <2>1 DEF MilestoneIInv
    <2> QED  BY <2>3, <2>4, <2>5, <2>6 DEF MilestoneIInv, Open
  <1>4. CASE UNCHANGED Milestones!milestones
    <2>1. UNCHANGED <<milestones, milestoneEdges, lastEvent, ms>>
      BY <1>4 DEF Milestones!milestones
    <2>2. MilestonesChained'
      BY <2>1 DEF MilestoneIInv, MilestonesChained, Milestones!MilestonesChained, Milestones!NoCircle
    <2> QED  BY <2>1, <2>2 DEF MilestoneIInv, Fresh, Open
  <1> QED  BY <1>1, <1>2, <1>3, <1>4, MilestoneKept, PredecessorKept, EdgeKept DEF Milestones!Next

\* Whatever reflects overlap, fail, are repeated or cut off by a restart, the milestones of an
\* agent have at most one predecessor each, none twice for an item, and go round in no circle.
THEOREM MilestonesHangTogether == Milestones!Spec => []MilestonesChained
  <1>1. MilestoneIInv => MilestonesChained
    BY DEF MilestoneIInv
  <1> QED  BY <1>1, MilestonesInit, MilestonesNext, PTL DEF Milestones!Spec
=============================================================================
