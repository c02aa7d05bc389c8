------------------------------- MODULE Recall -------------------------------
(***************************************************************************)
(* The read path: tool_recall and recall() of MemoryRecaller over          *)
(* FragmentSearch, its layers (L1 Redis index, hot cache, L2 metadata, L3  *)
(* vectors, temporal, graph neighbours), the linked expansion, what        *)
(* tool_recall attaches to the rows, and the writers that change the rows  *)
(* and the index underneath a recall that is under way.                    *)
(*                                                                         *)
(* Every query to PostgreSQL and every lookup in Redis is a step of its    *)
(* own, so rows and index may change between any two of them.  The         *)
(* keywords and the type of a row follow from its topic; caseId, phase and *)
(* resolutionStatus are one, "case".  What a text is near to is the topic  *)
(* it is about.  A query with a LIMIT answers with that many of its rows,  *)
(* whichever: ORDER BY is left out.  So is what drops rows after the       *)
(* merge: a text's importance floor and reranker, and the recall's own     *)
(* threshold, depth and seen ids; budgets and pages are in Ranking, Paging.*)
(***************************************************************************)
EXTENDS Naturals, FiniteSets

CONSTANTS Frags,      \* fragment ids
          Callers,    \* recalls in flight, one per caller
          Topics,     \* topics a row may be moved to
          FirstRows,  \* [Frags -> Row] the table when the model starts
          Levels,     \* importances a row may be moved to
          Links,      \* pairs of linked fragments, not deleted
          Nearby,     \* pairs of fragments of one session within half an hour
          Limit,      \* how many rows or ids each lookup answers with at most
          Queries,    \* the recalls asked
          None,       \* NULL
          Recent,     \* the key of the recent list in the index
          MaxChanges, \* bound: changes writers begin
          MaxAsks     \* bound: recalls asked

VARIABLES rows,    \* agent_memory.fragments
          index,   \* Redis: <<namespace, topic or Recent, id>>
          hot,     \* Redis: <<namespace, id, payload>>, the hot cache
          fills,   \* cacheFragment calls not yet performed
          edits,   \* writers between their steps
          calls,   \* [Callers -> the locals of recall()]
          changes, \* changes begun so far
          asked    \* recalls asked so far

vars == <<rows, index, hot, fills, edits, calls, changes, asked>>

Layers == {"l2", "l3", "temporal"}
NoRows == [l \in {"cached", "graph"} \cup Layers |-> {}]

Free == [pc |-> "idle", q |-> None, since |-> None, l1 |-> {}, fallback |-> FALSE,
         hits |-> {}, todo |-> {}, found |-> NoRows, out |-> {}, linked |-> {}, nearby |-> {}]

---------------------------------------------------------------------------
(* Scopes and filters.  A query's keys are None for the master key.        *)

KeyOk(r, q)   == q.keys = None \/ r.key \in q.keys
AgentOk(r, q) == q.peers \/ r.agent \in {q.agent, "default"}
SpaceOk(r, q) == q.space = None \/ r.space \in {q.space, None}
CurOk(r, q)   == q.past \/ r.cur
CaseOk(r, q)  == q.case = None \/ r.case = q.case
MoodOk(r, q)  == q.affect = None \/ r.affect = q.affect
TimeOk(r, q)  == q.window => r.recent

ApplyTo(r, q) == AgentOk(r, q) /\ SpaceOk(r, q) /\ CaseOk(r, q) /\ MoodOk(r, q)

Scoped(r, q) == KeyOk(r, q) /\ AgentOk(r, q) /\ SpaceOk(r, q) /\ CurOk(r, q)

Namespaces(q) == IF q.keys = None THEN {None} ELSE q.keys

Snap(P(_)) == {[id |-> f, row |-> rows[f]] : f \in {g \in Frags : rows[g].live /\ P(rows[g])}}

Ids(S) == {x.id : x \in S}

\* The answers of a lookup that S matches: all of S, or as many as its LIMIT allows
Cuts(S, by) == {T \in SUBSET S : Cardinality(T) <= Limit[by] /\ (T = S \/ Cardinality(T) = Limit[by])}

\* getByIds through _getScopedByIds: no workspace and no topic in its WHERE
ByIds(ids, q) ==
  {x \in Snap(LAMBDA r : KeyOk(r, q) /\ AgentOk(r, q) /\ CurOk(r, q)) : x.id \in ids}

\* searchByKeywords and searchByTopic put the same conditions in their WHERE; the
\* least importance is the query's, or 0.1
Matches(r, q) == /\ r.topic = q.about /\ r.imp >= q.least
                 /\ Scoped(r, q) /\ TimeOk(r, q) /\ CaseOk(r, q) /\ MoodOk(r, q)

Matching(q) == Snap(LAMBDA r : Matches(r, q))

\* The keywords of the query, or those its text implies
ByKeywords(q) == IF q.by = "keywords" \/ q.text THEN Matching(q) ELSE {}
ByTopic(q)    == IF q.by = "topic" THEN Matching(q) ELSE {}

\* searchBySemantic knows no caseId: scope.applyTo removes those rows after
BySemantic(q) ==
  {x \in Snap(LAMBDA r : r.topic = q.about /\ Scoped(r, q) /\ TimeOk(r, q)) : ApplyTo(x.row, q)}

\* searchByTimeRange as _searchTemporal calls it: the affect is not passed on
ByTime(q) == Snap(LAMBDA r : Scoped(r, q) /\ TimeOk(r, q) /\ CaseOk(r, q))

Near(ids) == {f \in Frags : \E g \in ids : <<f, g>> \in Links \/ <<g, f>> \in Links} \ ids

\* Graph rows carry no case and no affect, so a query that names one keeps none
Neighbours(ids, q) ==
  {x \in Snap(LAMBDA r : r.cur /\ KeyOk(r, q) /\ AgentOk(r, q) /\ SpaceOk(r, q)) :
     x.id \in Near(ids) /\ q.case = None /\ q.affect = None}

LinkedTo(ids, q) == {x \in Snap(LAMBDA r : Scoped(r, q)) : x.id \in Near(ids)}

\* What tool_recall attaches to the rows `ids`: x.row of another fragment to x.of.
\* fetchLinkedFragments asks for current rows and for nothing else of them
Previews(ids) ==
  {[of |-> l[1], id |-> l[2], row |-> rows[l[2]]] :
     l \in {m \in Links : m[1] \in ids /\ rows[m[2]].live /\ rows[m[2]].cur}}

\* searchBySource compares the caller's own key and the agent, and no workspace
OwnOk(r, q) == /\ r.cur /\ (q.own = None \/ r.key = q.own)
               /\ r.agent \in {q.agent, "default"}

Bundle(ids, q) ==
  {[of |-> p[1], id |-> p[2], row |-> rows[p[2]]] :
     p \in {n \in Nearby : n[1] \in ids /\ rows[n[2]].live /\ OwnOk(rows[n[2]], q)}}

---------------------------------------------------------------------------
(* The index and the hot cache.                                            *)

Entries(f, r) == {<<r.key, r.topic, f>>, <<r.key, Recent, f>>}

Lookup(q, t) == {e[3] : e \in {x \in index : x[1] \in Namespaces(q) /\ x[2] = t}}

\* cacheFragment names its key with keyNs(), which throws for the array every
\* API key's recall passes: only the master's results are cached.
Cacheable(q) == q.keys = None

Fill(x) ==
  /\ x \in fills
  /\ hot' = {h \in hot : h[2] # x.id} \cup {<<None, x.id, x.row>>}
  /\ fills' = fills \ {x}
  /\ UNCHANGED <<rows, index, edits, calls, changes, asked>>

RedisLost ==
  /\ index # {} \/ hot # {}
  /\ index' = {} /\ hot' = {}
  /\ UNCHANGED <<rows, fills, edits, calls, changes, asked>>

Warmup ==
  /\ index = {}
  /\ index' = UNION {Entries(f, rows[f]) : f \in {g \in Frags : rows[g].live /\ rows[g].cur}}
  /\ UNCHANGED <<rows, hot, fills, edits, calls, changes, asked>>

---------------------------------------------------------------------------
(* Writers.                                                                *)

Change(f, r) == rows' = [rows EXCEPT ![f] = [r EXCEPT !.ver = @ + 1]]

\* A change of a current row begins
Begin(f) ==
  /\ rows[f].live /\ rows[f].cur /\ changes < MaxChanges
  /\ \A e \in edits : e.id # f
  /\ changes' = changes + 1
  /\ UNCHANGED <<index, hot, fills, calls, asked>>

\* amend: the row first, then deindex with the old values, then index
Amend(f) ==
  /\ Begin(f)
  /\ \E t \in Topics, i \in Levels : Change(f, [rows[f] EXCEPT !.topic = t, !.imp = i])
  /\ edits' = edits \cup {[id |-> f, op |-> "deindex", old |-> rows[f], new |-> rows'[f]]}

\* Decay, verdicts and rewards set the importance and leave the index alone
Reweigh(f) ==
  /\ Begin(f)
  /\ \E i \in Levels \ {rows[f].imp} : Change(f, [rows[f] EXCEPT !.imp = i])
  /\ UNCHANGED edits

\* forget: deindex, then delete
Forget(f) ==
  /\ Begin(f)
  /\ edits' = edits \cup {[id |-> f, op |-> "drop", old |-> rows[f], new |-> None]}
  /\ UNCHANGED rows

\* supersedes, dedup and contradictions set valid_to and leave the index alone
Supersede(f) ==
  /\ Begin(f)
  /\ Change(f, [rows[f] EXCEPT !.cur = FALSE])
  /\ UNCHANGED edits

Deindex(e) ==
  /\ e \in edits /\ e.op \in {"deindex", "drop"}
  /\ index' = index \ Entries(e.id, e.old)
  /\ hot' = {h \in hot : <<h[1], h[2]>> # <<e.old.key, e.id>>}
  /\ edits' = (edits \ {e}) \cup
       {[e EXCEPT !.op = IF e.op = "drop" THEN "delete" ELSE "index"]}
  /\ UNCHANGED <<rows, fills, calls, changes, asked>>

Reindex(e) ==
  /\ e \in edits /\ e.op = "index"
  /\ index' = index \cup Entries(e.id, e.new)
  /\ edits' = edits \ {e}
  /\ UNCHANGED <<rows, hot, fills, calls, changes, asked>>

Delete(e) ==
  /\ e \in edits /\ e.op = "delete"
  /\ Change(e.id, [rows[e.id] EXCEPT !.live = FALSE, !.cur = FALSE])
  /\ edits' = edits \ {e}
  /\ UNCHANGED <<index, hot, fills, calls, changes, asked>>

---------------------------------------------------------------------------
(* recall() and FragmentSearch.search().                                   *)

At(c, pc) == calls[c].pc = pc
Become(c, r) == /\ calls' = [calls EXCEPT ![c] = r]
                /\ UNCHANGED <<rows, index, hot, edits, changes, asked>>

Ask(c, q) ==
  /\ calls[c].pc \in {"idle", "done"} /\ asked < MaxAsks
  /\ calls' = [calls EXCEPT ![c] =
       [Free EXCEPT !.pc = "l1", !.q = q, !.since = [f \in Frags |-> rows[f].ver]]]
  /\ asked' = asked + 1
  /\ UNCHANGED <<rows, index, hot, fills, edits, changes>>

\* Text alone uses no index; an index without a match falls back to the recent list
SearchL1(c) ==
  LET q  == calls[c].q
      ms == IF q.by # None THEN Lookup(q, q.about) ELSE {}
      fb == ms = {} /\ (q.by # None \/ ~q.text)
  IN  /\ At(c, "l1")
      /\ \E S \in (IF fb THEN Cuts(Lookup(q, Recent), "recent") ELSE {ms}) :
           Become(c, [calls[c] EXCEPT !.pc = "hot", !.fallback = fb, !.l1 = S])
      /\ UNCHANGED fills

\* The payload names a candidate; the row is read again from the database
TryHotCache(c) ==
  /\ At(c, "hot")
  /\ \E S \in Cuts(calls[c].l1, "hot") :
       Become(c, [calls[c] EXCEPT !.pc = "durable",
                    !.hits = {f \in S : \E h \in hot : h[1] \in Namespaces(calls[c].q) /\ h[2] = f}])
  /\ UNCHANGED fills

\* Mutant: the cached payload is the answer
Durable_Mutant(c) ==
  LET q == calls[c].q IN
  /\ At(c, "durable")
  /\ Become(c, [calls[c] EXCEPT !.pc = "layers",
       !.found["cached"] = {x \in {[id |-> h[2], row |-> h[3]] : h \in hot} : x.id \in calls[c].hits /\ ApplyTo(x.row, q)},
       !.todo = {"l2"} \cup (IF q.text \/ q.by = "keywords" THEN {"l3"} ELSE {})
                       \cup (IF q.window THEN {"temporal"} ELSE {})])
  /\ UNCHANGED fills

Durable(c) ==
  LET q == calls[c].q IN
  /\ At(c, "durable")
  /\ Become(c, [calls[c] EXCEPT !.pc = "layers",
       !.found["cached"] = {x \in ByIds(calls[c].hits, q) : ApplyTo(x.row, q)},
       !.todo = {"l2"} \cup (IF q.text \/ q.by = "keywords" THEN {"l3"} ELSE {})
                       \cup (IF q.window THEN {"temporal"} ELSE {})])
  /\ UNCHANGED fills

\* One layer answers.  After L2's own query come the index's ids that the hot
\* cache did not have; L3 may fail or time out, and is then empty.
Asks(c, l) == At(c, "layers") /\ l \in calls[c].todo

Answer(c, l, S) ==
  /\ Become(c, [calls[c] EXCEPT !.found[IF l = "ids" THEN "l2" ELSE l] = S,
                  !.todo = (@ \ {l}) \cup (IF l = "l2" THEN {"ids"} ELSE {})])
  /\ UNCHANGED fills

\* The topic is tried when no row has the keywords
ByMetadata(q) == IF ByKeywords(q) # {} THEN ByKeywords(q) ELSE ByTopic(q)

\* Mutant: what the index found is enough
SearchL2_Mutant(c) ==
  /\ Asks(c, "l2")
  /\ \E S \in Cuts(IF calls[c].l1 # {} /\ ~calls[c].fallback THEN {} ELSE ByMetadata(calls[c].q), "l2") :
       Answer(c, "l2", S)

SearchL2(c) ==
  /\ Asks(c, "l2")
  /\ \E S \in Cuts(ByMetadata(calls[c].q), "l2") : Answer(c, "l2", S)

MissedIds(c) ==
  LET k    == calls[c]
      miss == IF k.fallback THEN {} ELSE k.l1 \ (Ids(k.found["cached"]) \cup Ids(k.found["l2"]))
  IN  /\ Asks(c, "ids")
      /\ Answer(c, "ids", k.found["l2"] \cup {x \in ByIds(miss, k.q) : ApplyTo(x.row, k.q)})

\* Some of the rows near the text: its two queries have limits of their own, a least
\* similarity that is learned, and rows the scope removes after them
SearchL3(c) ==
  /\ Asks(c, "l3")
  /\ \E S \in SUBSET BySemantic(calls[c].q) : Answer(c, "l3", S)

SearchTemporal(c) ==
  /\ Asks(c, "temporal")
  /\ \E S \in Cuts(ByTime(calls[c].q), "temporal") : Answer(c, "temporal", S)

\* The first rows of L2 are the seeds; a failure gives no neighbours
SearchGraph(c) ==
  LET k == calls[c] IN
  /\ At(c, "layers") /\ k.todo = {}
  /\ \E seeds \in (IF k.q.text THEN Cuts(Ids(k.found["l2"]), "seeds") ELSE {{}}) :
       \E S \in {{}} \cup Cuts(Neighbours(seeds, k.q), "graph") :
         Become(c, [k EXCEPT !.pc = "clean", !.found["graph"] = S])
  /\ UNCHANGED fills

\* Of the layers that have an id, the first in `order` gives its row
Orders(q) == IF q.text THEN <<"cached", "l2", "graph", "l3", "temporal">>
                       ELSE <<"l2", "cached", "temporal", "l3", "graph">>

FirstFound(found, order) ==
  UNION {{x \in found[order[i]] : \A j \in 1..(i - 1) : x.id \notin Ids(found[order[j]])} :
           i \in DOMAIN order}

\* mergeRRF enters the L1 ids first, as entries without content that the rows of
\* later layers only add score to; the filter on content then removes them.
Merged(k) ==
  LET all == FirstFound(k.found, Orders(k.q)) IN
  IF k.q.text THEN {x \in all : x.id \notin k.l1} ELSE all

Clean(c) ==
  LET k   == calls[c]
      out == {x \in Merged(k) : CurOk(x.row, k.q)}
  IN  /\ At(c, "clean")
      /\ Become(c, [Free EXCEPT !.pc = IF k.q.links /\ out # {} THEN "links" ELSE "previews",
                                !.q = k.q, !.since = k.since, !.out = out])
      /\ fills' = IF Cacheable(k.q) THEN fills \cup out ELSE fills

Expand(c) ==
  LET k == calls[c] IN
  /\ At(c, "links")
  /\ \E S \in Cuts(LinkedTo(Ids(k.out), k.q), "links") :
       Become(c, [k EXCEPT !.pc = "previews", !.out = @ \cup {x \in S : x.id \notin Ids(k.out)}])
  /\ UNCHANGED fills

\* tool_recall has the page, which are rows of `out`, and attaches to each row of it
\* some of S; a failed query attaches none
Attach(S, by) ==
  {T \in SUBSET S : \A f \in Frags : Cardinality({x \in T : x.of = f}) <= Limit[by]}

AttachLinked(c) ==
  LET k == calls[c] IN
  /\ At(c, "previews")
  /\ \E T \in Attach(Previews(Ids(k.out)), "previews") :
       Become(c, [k EXCEPT !.pc = IF k.q.context THEN "nearby" ELSE "done", !.linked = T])
  /\ UNCHANGED fills

AttachNearby(c) ==
  LET k == calls[c] IN
  /\ At(c, "nearby")
  /\ \E T \in Attach(Bundle(Ids(k.out), k.q), "nearby") :
       Become(c, [k EXCEPT !.pc = "done", !.nearby = T])
  /\ UNCHANGED fills

---------------------------------------------------------------------------
Init ==
  /\ rows = FirstRows
  /\ index = UNION {Entries(f, FirstRows[f]) : f \in {g \in Frags : FirstRows[g].live}}
  /\ hot \in {{}, {<<None, f, FirstRows[f]>> : f \in Frags}}   \* what earlier recalls left
  /\ fills = {} /\ edits = {}
  /\ calls = [c \in Callers |-> Free]
  /\ changes = 0 /\ asked = 0

Write == \E f \in Frags : Amend(f) \/ Reweigh(f) \/ Forget(f) \/ Supersede(f)
WriteOn == \E e \in edits : Deindex(e) \/ Reindex(e) \/ Delete(e)

Search(c) ==
  \/ SearchL1(c) \/ TryHotCache(c) \/ Durable(c) \/ SearchL2(c) \/ MissedIds(c)
  \/ SearchL3(c) \/ SearchTemporal(c) \/ SearchGraph(c) \/ Clean(c) \/ Expand(c)
  \/ AttachLinked(c) \/ AttachNearby(c)

Next ==
  \/ Write \/ WriteOn
  \/ \E x \in fills : Fill(x)
  \/ RedisLost \/ Warmup
  \/ \E c \in Callers : Search(c) \/ \E q \in Queries : Ask(c, q)

Spec == Init /\ [][Next]_vars

---------------------------------------------------------------------------
Done(c) == calls[c].pc = "done"

Fresh(c) ==
  \A x \in calls[c].out \cup calls[c].linked \cup calls[c].nearby :
    x.row.live /\ x.row.ver >= calls[c].since[x.id]

InScope(c) ==
  /\ \A x \in calls[c].out : Scoped(x.row, calls[c].q)
  /\ \A x \in calls[c].nearby : OwnOk(x.row, calls[c].q)

\* What is attached is current and belongs to a row that is answered
Attached(c) ==
  \A x \in calls[c].linked \cup calls[c].nearby : x.row.cur /\ x.of \in Ids(calls[c].out)

\* A recall never returns a row older than the one that stood in the database when
\* it was asked, attached rows included.  The rows recall() answers with are in the
\* caller's key group, agent and workspace, whatever way they came (index, hot
\* cache, recent list, metadata, vectors, time, graph, links) and whatever Redis
\* still remembers of a row amended, superseded or deleted before (_tryHotCache,
\* _getScopedByIds).  What tool_recall attaches is current, but scoped by less: the
\* nearby_context by key and agent alone, the linked previews by nothing.
Sound == \A c \in Callers : Done(c) => Fresh(c) /\ InScope(c) /\ Attached(c)

\* The rows a query asks for that nobody touches while it runs
Steady(c) ==
  LET q == calls[c].q IN
  {f \in Frags : rows[f].live /\ rows[f].ver = calls[c].since[f] /\ Matches(rows[f], q)}

Matched(c) == {x \in calls[c].out : Matches(x.row, calls[c].q)}

\* A recall by keyword or topic finds every row of the least importance that matches
\* it and that no writer touches meanwhile, whatever Redis lost, kept too long or
\* never had; unless as many matching rows as L2's LIMIT are found (_searchL2).
StructuredComplete ==
  \A c \in Callers :
    Done(c) /\ calls[c].q.by # None /\ ~calls[c].q.text
      => Steady(c) \subseteq Ids(calls[c].out) \/ Cardinality(Ids(Matched(c))) >= Limit["l2"]
=============================================================================
