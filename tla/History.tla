------------------------------- MODULE History -------------------------------
(***************************************************************************)
(* reconstruct_history and search_traces: the timeline of a case or an     *)
(* entity, its case events with their edges, the causal chains walked over *)
(* the links, and what is still open.  Rows, events and links are read one *)
(* after the other while clients expire and link fragments.                *)
(*                                                                         *)
(* Filters on case, entity, time and text are the set of the fragments     *)
(* they match; the wording of the summary is left out.                     *)
(***************************************************************************)
EXTENDS Integers, SequencesExt

CONSTANTS Order,      \* the fragments, oldest first
          KeyOf, SpaceOf, StatusOf,  \* of a fragment: owner, workspace, resolution_status
          None,
          EventKey,   \* [events of the case, numbered as they were made -> owner]
          EventLimit, \* events that are read of a case, 100
          EventLinks, \* their edges: [from, to, type]
          LinkSets,   \* the links there may be at first: sets of [from, to, type]
          Queries,    \* [hits, case, key, group, space, limit]
          MaxMoves    \* bound of the changes meanwhile

VARIABLES current,  \* fragments with valid_to IS NULL
          links,    \* links with deleted_at IS NULL
          h,        \* the call: what it has read and its answer
          shifts    \* changes so far

history == <<current, links, h, shifts>>

Frags == ToSet(Order)
Causal == {"caused_by", "resolved_by"}
Nothing == [pc |-> "idle", q |-> None, timeline |-> {}, events |-> {}, dag |-> {},
            edges |-> {}, chains |-> {}, open |-> {}, rest |-> {}]

Init ==
  /\ current = Frags /\ links \in LinkSets
  /\ h = Nothing /\ shifts = 0

\* The WHERE of both tools: the group of the key, or any row for the master, and
\* the workspace asked for or none
Scoped(f, q) ==
  /\ f \in current \cap q.hits
  /\ q.key = None \/ KeyOf[f] \in q.group
  /\ q.space = None \/ SpaceOf[f] \in {None, q.space}

\* ORDER BY created_at LIMIT n, ascending or descending
Oldest(q, n) ==
  LET places == {i \in DOMAIN Order : Scoped(Order[i], q)}
  IN  {Order[i] : i \in {i \in places : Cardinality({j \in places : j <= i}) <= n}}

Newest(q, n) ==
  LET places == {i \in DOMAIN Order : Scoped(Order[i], q)}
  IN  {Order[i] : i \in {i \in places : Cardinality({j \in places : j >= i}) <= n}}

---------------------------------------------------------------------------
(* The reads *)

Ask(q) ==
  /\ h.pc = "idle"
  /\ h' = [Nothing EXCEPT !.pc = "timeline", !.q = q]
  /\ UNCHANGED <<current, links, shifts>>

\* Events only with a caseId
FetchTimeline ==
  /\ h.pc = "timeline"
  /\ h' = [h EXCEPT !.timeline = Oldest(h.q, h.q.limit),
                    !.pc = IF h.q.case THEN "events" ELSE "links"]
  /\ UNCHANGED <<current, links, shifts>>

\* The events of the key alone, not of its group, and the oldest only
GetByCase ==
  LET mine == {e \in DOMAIN EventKey : h.q.key = None \/ EventKey[e] = h.q.key} IN
  /\ h.pc = "events"
  /\ h' = [h EXCEPT !.events = {e \in mine : Cardinality({o \in mine : o < e}) < EventLimit},
                    !.pc = IF mine = {} THEN "links" ELSE "edges"]
  /\ UNCHANGED <<current, links, shifts>>

\* Edges with an end among the events; of a key's events only
GetEdgesByEvents ==
  /\ h.pc = "edges"
  /\ h' = [h EXCEPT !.pc = "links", !.dag = {d \in EventLinks :
             /\ {d.from, d.to} \cap h.events # {}
             /\ h.q.key = None \/ (EventKey[d.from] = h.q.key /\ EventKey[d.to] = h.q.key)}]
  /\ UNCHANGED <<current, links, shifts>>

\* A failed read of events or edges leaves them out; one of rows or links ends the call
Fail ==
  /\ h.pc \in {"timeline", "events", "edges", "links"}
  /\ h' = IF h.pc \in {"timeline", "links"} THEN Nothing ELSE [h EXCEPT !.pc = "links"]
  /\ UNCHANGED <<current, links, shifts>>

---------------------------------------------------------------------------
(* The causal chains *)

\* Mutant: the ends of the links, not their starts
Roots_Mutant(edges) == {l.to : l \in edges} \ {l.from : l \in edges}

\* Where a causal link starts and none ends
Roots(edges) == {l.from : l \in edges} \ {l.to : l \in edges}

\* A turn of the queue: its first is visited and its links are followed, to whatever
\* they name; only fragments of the timeline are kept
Visit(a, timeline, edges) ==
  LET x == Head(a.queue)
      next == SetToSeq({l \in edges : l.from = x /\ l.to \notin a.visited \cup {x}})
  IN  IF a.queue = <<>> THEN a
      ELSE IF x \in a.visited THEN [a EXCEPT !.queue = Tail(a.queue)]
      ELSE [queue |-> Tail(a.queue) \o [i \in DOMAIN next |-> next[i].to],
            visited |-> a.visited \cup {x},
            chain |-> IF x \in timeline THEN Append(a.chain, x) ELSE a.chain]

\* Breadth first from a root: it and the end of each link are in the queue at most once
Search(root, timeline, edges) ==
  LET turns == Cardinality(edges) + 1
      at[n \in 0..turns] ==
        IF n = 0 THEN [queue |-> <<root>>, visited |-> {}, chain |-> <<>>]
        ELSE Visit(at[n - 1], timeline, edges)
  IN  at[turns].chain

\* _buildCausalChains
Chains(timeline, edges) ==
  {c \in {[root |-> r, chain |-> Search(r, timeline, edges)] : r \in Roots(edges)} : c.chain # <<>>}

\* is_resolved: one fragment of the chain is
IsResolved(c) == \E f \in ToSet(c.chain) : StatusOf[f] = "resolved"

Chained(chains) == UNION {ToSet(c.chain) : c \in chains}

\* The links with an end in the timeline, whoever owns the other one
FetchLinks ==
  LET edges == {l \in {l \in links : {l.from, l.to} \cap h.timeline # {}} \cup h.dag : l.type \in Causal}
      chains == Chains(h.timeline, edges)
  IN  /\ h.pc = "links"
      /\ h' = [h EXCEPT !.pc = "answered", !.edges = edges, !.chains = chains,
                 !.open = {f \in h.timeline : StatusOf[f] = "open"}
                            \ Chained({c \in chains : IsResolved(c)}),
                 !.rest = h.timeline \ Chained(chains)]
      /\ UNCHANGED <<current, links, shifts>>

\* search_traces: the same scope, the newest rows
SearchTraces(q) ==
  /\ h.pc = "idle"
  /\ h' = [Nothing EXCEPT !.pc = "answered", !.q = q,
             !.rest = Newest(q, q.limit)]
  /\ UNCHANGED <<current, links, shifts>>

---------------------------------------------------------------------------
(* What others do meanwhile *)

Move == shifts < MaxMoves /\ shifts' = shifts + 1 /\ UNCHANGED h

Expire(f) == Move /\ current' = current \ {f} /\ UNCHANGED links
Link(l) == Move /\ l \notin links /\ links' = links \cup {l} /\ UNCHANGED current
Unlink(l) == Move /\ links' = links \ {l} /\ UNCHANGED current

Next ==
  \/ \E q \in Queries : Ask(q) \/ SearchTraces(q)
  \/ FetchTimeline \/ GetByCase \/ GetEdgesByEvents \/ Fail \/ FetchLinks
  \/ h.pc # "answered" /\
       \/ \E f \in current : Expire(f)
       \/ \E l \in UNION LinkSets : Link(l)
       \/ \E l \in links : Unlink(l)

Spec == Init /\ [][Next]_history

---------------------------------------------------------------------------
Nodes == Frags \cup DOMAIN EventKey

\* What the edges lead to from x
Reached(x, edges) ==
  {f \in Nodes : \A S \in SUBSET Nodes :
     x \in S /\ (\A l \in edges : l.from \in S => l.to \in S) => f \in S}

\* An answer shows only rows the caller may read although the links of others
\* are walked; each chain is what its root leads to, once each; a fragment with
\* a causal link is in some chain unless a cycle leads to it, a set in which
\* everyone has a predecessor; and an open fragment is only left out beside a
\* resolved one (_buildCausalChains, _detectUnresolvedBranches).
HistoryExact ==
  h.pc = "answered" =>
    /\ \A f \in h.timeline \cup h.rest \cup h.open \cup Chained(h.chains) :
         (h.q.key = None \/ KeyOf[f] \in h.q.group) /\ f \in h.q.hits
    /\ \A c \in h.chains :
         IsInjective(c.chain) /\ ToSet(c.chain) = h.timeline \cap Reached(c.root, h.edges)
    /\ \A f \in h.timeline : (\E l \in h.edges : f \in {l.from, l.to}) =>
         \/ f \in Chained(h.chains)
         \/ \E S \in SUBSET Nodes : f \in S /\ \A x \in S : \E l \in h.edges : l.to = x /\ l.from \in S
    /\ \A f \in h.timeline \ h.open : StatusOf[f] = "open" =>
         \E c \in h.chains : f \in ToSet(c.chain) /\ \E g \in ToSet(c.chain) : StatusOf[g] = "resolved"
=============================================================================
