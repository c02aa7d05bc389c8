------------------------------ MODULE MCParts ------------------------------
(***************************************************************************)
(* Small instances of the parts of the server that keep to themselves:     *)
(* those of Parts and Answers, whose parameters get their values here.     *)
(* `part` says which of them a behaviour is about: that one moves, the     *)
(* rest stand still.                                                       *)
(***************************************************************************)
EXTENDS Parts, Answers, TLC

CONSTANTS f1, f2, f3, t1, t2, k1, k2, k3, a1, a2, s1, s2, c1, m1, g1, g2, g3

VARIABLE part

---------------------------------------------------------------------------
(* Values for the parameters of Parts and Answers.                         *)

Three == {f1, f2, f3}

(* Recall: f1 is the caller's own, f2 of its group in another workspace,   *)
(* f3 of the master and another agent; they are linked and of one session. *)
(* Three rows match the master's recalls, one more than L2 answers with.   *)
Columns == {t1, t2, k1, k2, a1, a2, s1, s2, c1, m1, None}

Standing(topic, key, agent, space, of, affect) ==
  [ver |-> 0, topic |-> topic, key |-> key, agent |-> agent, space |-> space, case |-> of,
   affect |-> affect, imp |-> 1, recent |-> TRUE, cur |-> TRUE, live |-> TRUE]

Table == (f1 :> Standing(t1, k1, a1, s1, c1, m1)) @@ (f2 :> Standing(t1, k2, a1, s2, None, None))
         @@ (f3 :> Standing(t1, None, a2, None, c1, None))

Linked == {<<f1, f2>>, <<f1, f3>>}

LayerLimits == [l2 |-> 2, temporal |-> 2, seeds |-> 1, graph |-> 1, links |-> 1,
                recent |-> 1, hot |-> 1, previews |-> 1, nearby |-> 1]

OneSession == {p \in Three \X Three : p[1] # p[2]}

Plain == [keys |-> {k1, k2}, own |-> k1, agent |-> a1, peers |-> FALSE, space |-> s1, by |-> "keywords",
          about |-> t1, least |-> 1, case |-> None, affect |-> None, window |-> FALSE, text |-> FALSE,
          past |-> FALSE, links |-> FALSE, context |-> FALSE]
Master == [Plain EXCEPT !.keys = None, !.own = None, !.space = None]

Asked ==
  {[Plain EXCEPT !.links = TRUE, !.context = TRUE],
   [Master EXCEPT !.by = "topic", !.peers = TRUE],
   [Master EXCEPT !.window = TRUE, !.affect = m1],
   [Plain EXCEPT !.text = TRUE, !.by = None, !.links = TRUE],
   [Plain EXCEPT !.text = TRUE, !.case = c1, !.past = TRUE, !.keys = {k1}]}

(* The cuts of lists of two or three candidates.                           *)
Candidates(n, costs, tags) ==
  {[i \in 1..n |-> [cost |-> cs[i], tag |-> ts[i]]] : cs \in [1..n -> costs], ts \in [1..n -> tags]}

CandidateLists ==
  Candidates(3, {1, 3}, {"exact", "supplement", "plain"}) \cup Candidates(2, {1, 3, 5}, {"anchor", "plain"})

(* Pages of one of three fragments.                                        *)
Created == <<0, 2, 3>>

(* Two of three entries exceed the working memory; one is guarded.         *)
Estimate == (f1 :> 1) @@ (f2 :> 2) @@ (f3 :> 1)

(* Links: f1 and f2 are of different keys and cases, f3 of the master in   *)
(* another workspace; all have keywords in common.                         *)
Owner == (f1 :> k1) @@ (f2 :> k2) @@ (f3 :> None)
Group == (k1 :> {k1}) @@ (k2 :> {k2}) @@ (None :> {})
Space == (f1 :> s1) @@ (f2 :> None) @@ (f3 :> s2)
OfCase == (f1 :> c1) @@ (f2 :> m1) @@ (f3 :> c1)
OneTopic == [f \in Three |-> t1]
SameWords == {<<f1, f2>>, <<f1, f3>>, <<f2, f3>>}
Together == {<<f1, f2>>}
Naming == (f1 :> {}) @@ (f2 :> {f1}) @@ (f3 :> {})
Marker == (f1 :> "uses") @@ (f2 :> None) @@ (f3 :> "forbids")
Settings == {[mode |-> "off", claims |-> TRUE, gate |-> FALSE],
             [mode |-> "auto", claims |-> TRUE, gate |-> TRUE],
             [mode |-> "auto", claims |-> FALSE, gate |-> FALSE]}

(* Cases: two errors, one of which a batch may store, and a procedure; no  *)
(* more than AtOnce of their recordings at a time.  The end of a session:  *)
(* an error and a decision, two reflects.                                  *)
AtOnce == 2
ReflectKinds == (f1 :> "error") @@ (f2 :> "decision")

(* Histories: up to two causal links among three rows, f2 of another key,  *)
(* before one more is made or taken away; a fix and an error among the     *)
(* events.                                                                 *)
Born == <<f1, f2, f3>>
WhoseRow == (f1 :> k1) @@ (f2 :> k2) @@ (f3 :> k1)
WhereRow == (f1 :> s1) @@ (f2 :> None) @@ (f3 :> None)
Resolution == (f1 :> "open") @@ (f2 :> "resolved") @@ (f3 :> "open")
WhoseEvent == (1 :> k1) @@ (2 :> k2)
FixEdge == {[from |-> 1, to |-> 2, type |-> "resolved_by"]}
Causal(p) == [from |-> p[1], to |-> p[2], type |-> "caused_by"]
FirstLinks ==
  {{[from |-> f1, to |-> f2, type |-> "related"]}} \cup
  {{Causal(p) : p \in S} : S \in {S \in SUBSET (Three \X Three) :
                                   Cardinality(S) <= 2 /\ \A p \in S : p[1] # p[2]}}
Whole == [hits |-> Three, case |-> TRUE, key |-> None, group |-> {}, space |-> None, limit |-> 3]
Told == {Whole, [Whole EXCEPT !.limit = 2, !.case = FALSE],
         [Whole EXCEPT !.key = k1, !.group = {k1}, !.space = s1]}

(* The console: the operator stays with one page, or walks among those     *)
(* without actions of their own.                                           *)
Visits == {{"keys"}, {"sessions"}, {"groups"}, {"overview", "logs", "memory", "graph", "metrics"}}
FirstMember == {<<g1, k1>>}

---------------------------------------------------------------------------
Init ==
  /\ part \in {"recall", "ranking", "paging", "context", "reflection", "milestones", "cases", "history",
               "feedback", "links", "access", "limits", "usage", "gate", "tools", "console", "memory", "graph"}
  /\ Recall!Init /\ (part # "recall" => hot = {})
  /\ IF part = "ranking" THEN Ranking!Init ELSE list = <<>> /\ budget = 4 /\ kept = <<>>
  /\ Paging!Init /\ (part # "paging" => room = 3)
  /\ Context!Init /\ Reflection!Init /\ Milestones!Init /\ Cases!Init
  /\ History!Init /\ (part # "history" => rowLinks = {})
  /\ Feedback!Init /\ (part # "feedback" => weight = 20)
  /\ AutoLinks!Init /\ (part # "links" => symbolic.mode = "off")
  /\ Access!Init /\ (part # "access" => redis)
  /\ Limits!Init /\ Usage!Init /\ Gate!Init
  /\ Tools!Init /\ (part # "tools" => grants = {"read"} /\ mode = None)
  /\ Console!Init /\ (part # "console" => menu = {"keys"})
  /\ Memory!Init /\ Graph!Init

\* The parts but one stand still
Still(p) ==
  /\ UNCHANGED part
  /\ p = "recall" \/ UNCHANGED recallVars
  /\ p = "ranking" \/ UNCHANGED rankingVars
  /\ p = "paging" \/ UNCHANGED pagingVars
  /\ p = "context" \/ UNCHANGED contextVars
  /\ p = "reflection" \/ UNCHANGED reflectionVars
  /\ p = "milestones" \/ UNCHANGED milestoneVars
  /\ p = "cases" \/ UNCHANGED caseVars
  /\ p = "history" \/ UNCHANGED historyVars
  /\ p = "feedback" \/ UNCHANGED feedbackVars
  /\ p = "links" \/ UNCHANGED linkVars
  /\ p = "access" \/ UNCHANGED accessVars
  /\ p = "limits" \/ UNCHANGED limitVars
  /\ p = "usage" \/ UNCHANGED usageVars
  /\ p = "gate" \/ UNCHANGED gateVars
  /\ p = "tools" \/ UNCHANGED toolVars
  /\ p = "console" \/ UNCHANGED consoleVars
  /\ p = "memory" \/ UNCHANGED memoryVars
  /\ p = "graph" \/ UNCHANGED graphVars

Next ==
  \/ part = "recall" /\ Recall!Next /\ Still(part)
  \/ part = "ranking" /\ Ranking!Next /\ Still(part)
  \/ part = "paging" /\ Paging!Next /\ Still(part)
  \/ part = "context" /\ Context!Next /\ Still(part)
  \/ part = "reflection" /\ Reflection!Next /\ Still(part)
  \/ part = "milestones" /\ Milestones!Next /\ Still(part)
  \/ /\ part = "cases" /\ Cases!Next /\ Still(part)
     /\ Cardinality({f \in Three : pc'[f] \notin {"new", "insert", "done"}}) <= AtOnce
  \/ part = "history" /\ History!Next /\ Still(part)
  \/ part = "feedback" /\ Feedback!Next /\ Still(part)
  \/ part = "links" /\ AutoLinks!Next /\ Still(part)
  \/ part = "access" /\ Access!Next /\ Still(part)
  \/ part = "limits" /\ Limits!Next /\ Still(part)
  \/ part = "usage" /\ Usage!Next /\ Still(part)
  \/ part = "gate" /\ Gate!Next /\ Still(part)
  \/ part = "tools" /\ Tools!Next /\ Still(part)
  \/ part = "console" /\ Console!Next /\ Still(part)
  \/ part = "memory" /\ Memory!Next /\ Still(part)
  \/ part = "graph" /\ Graph!Next /\ Still(part)

allVars == <<part, recallVars, rankingVars, pagingVars, contextVars, reflectionVars, milestoneVars,
             caseVars, historyVars, feedbackVars, linkVars, accessVars, limitVars, usageVars,
             gateVars, toolVars, consoleVars, memoryVars, graphVars>>

Spec == Init /\ [][Next]_allVars
=============================================================================
