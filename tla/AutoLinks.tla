------------------------------ MODULE AutoLinks ------------------------------
(***************************************************************************)
(* What follows the insert of a fragment (write/RememberPostProcessor.js): *)
(* the links the caller named, then work nobody waits for: the assertion   *)
(* check, temporal links, links to fragments with the same keywords        *)
(* (ProactiveRecall, with its symbolic gate) and the extraction of claims. *)
(* Each piece reads and writes on its own while other fragments are        *)
(* inserted, superseded and forgotten.                                     *)
(***************************************************************************)
EXTENDS Naturals, FiniteSets

CONSTANTS
  Frags, None,
  KeyOf,       \* fragment -> api key that writes it, None for the master
  GroupOf,     \* api key -> the keys of its group (groupKeyIds)
  SpaceOf,     \* fragment -> workspace or None
  CaseOf,      \* fragment -> case or None
  TopicOf,     \* fragment -> topic
  Alike,       \* pairs whose keywords overlap enough (keywordOverlapMin)
  Near,        \* pairs of one session or written within the adjacency window
  Named,       \* fragment -> the ids its caller may pass as linkedTo
  MarkerOf,    \* fragment -> the polarity marker found in its content, or None
  Positive, Negative,   \* the two lists of markers
  Deployments, \* settings to consider: [mode, claims, gate]
  MaxTodo,     \* pieces of earlier inserts still going when another begins
  MaxChanges   \* amends, supersessions and forgets besides

VARIABLES
  stored,      \* rows of fragments
  current,     \* those with valid_to IS NULL
  links,       \* fragment_links: <<from, to, relation_type>>
  claims,      \* fragment_claims: fragment -> None or [predicate, polarity]
  status,      \* assertion_status
  todo,        \* work in flight: <<task, fragment>>
  found,       \* what the search of a fragment's ProactiveRecall returned
  symbolic,    \* proactiveRecall.mode and the symbolic flags of this deployment
  written,     \* ids used so far
  changes      \* amends, supersessions and forgets so far

autolinks == <<stored, current, links, claims, status, todo, found, symbolic, written, changes>>

Symmetric(rel, f, g) == <<f, g>> \in rel \/ <<g, f>> \in rel

\* Rows a key may see: the master sees all of them.
Visible(f, keys) == {g \in stored : KeyOf[f] = None \/ KeyOf[g] \in keys}

-----------------------------------------------------------------------------
(* Claims (lib/symbolic) *)

\* ClaimExtractor: the predicate is the marker that decided the polarity.
Extract(f) ==
  [predicate |-> IF MarkerOf[f] = None THEN "mentions" ELSE MarkerOf[f],
   polarity  |-> CASE MarkerOf[f] \in Negative -> "negative"
                   [] MarkerOf[f] \in Positive -> "positive"
                   [] OTHER -> "uncertain"]

\* ClaimStore.findPolarityConflicts on the topic as subject: same predicate,
\* opposite polarity, same key.
FindPolarityConflicts(f, key) ==
  {g \in Frags \ {f} :
     /\ claims[f] # None /\ claims[g] # None
     /\ TopicOf[f] = TopicOf[g] /\ KeyOf[f] = key /\ KeyOf[g] = key
     /\ claims[f].predicate = claims[g].predicate
     /\ {claims[f].polarity, claims[g].polarity} = {"positive", "negative"}}

\* evaluateProactiveGate: rows carry case_id and session_id but no workspace_id,
\* so its workspace test compares two undefined values and passes.
Gate(f, g) ==
  /\ CaseOf[f] = None \/ CaseOf[g] = None \/ CaseOf[f] = CaseOf[g]
  /\ (CaseOf[f] = None \/ CaseOf[g] = None) => Symmetric(Near, f, g)
  /\ FindPolarityConflicts(g, KeyOf[f]) = {}

-----------------------------------------------------------------------------
(* Actions *)

\* createLink: one row for a pair, the later relation_type replaces the earlier;
\* the foreign keys refuse a row that is gone.
CreateLinks(f, gs, kind) ==
  IF f \in stored
  THEN links' = {l \in links : ~(l[1] = f /\ l[2] \in gs \intersect stored)}
                \union {<<f, g, kind>> : g \in gs \intersect stored}
  ELSE UNCHANGED links

\* Mutant: the named ids are linked without asking who owns them.
Allowed_Mutant(f, ids) == ids \intersect stored

\* getByIds with the caller's key: the ids it may link.
Allowed(f, ids) == ids \intersect Visible(f, {KeyOf[f]})

\* run(): the named links are awaited, the rest is started.
Remember(f, ids) ==
  /\ f \notin written /\ Cardinality(todo) <= MaxTodo
  /\ ids \subseteq Named[f]
  /\ written' = written \union {f}
  /\ stored' = stored \union {f}
  /\ current' = current \union {f}
  /\ links' = links \union {<<f, g, "related">> : g \in Allowed(f, ids)}
  /\ todo' = todo \union {<<"assert", f>>, <<"temporal", f>>}
                  \union (IF symbolic.mode = "off" THEN {} ELSE {<<"search", f>>})
                  \union (IF symbolic.claims THEN {<<"claims", f>>} ELSE {})
  /\ UNCHANGED <<claims, status, found, symbolic, changes>>

Done(t, f) == <<t, f>> \in todo /\ todo' = todo \ {<<t, f>>}

\* checkAssertionConsistency: a similar row of the topic that is already judged
\* makes the new one "inferred".
CheckAssertion(f) ==
  /\ Done("assert", f)
  /\ LET judged == {g \in Visible(f, {KeyOf[f]}) \intersect current :
                      g # f /\ TopicOf[g] = TopicOf[f] /\ Symmetric(Alike, f, g)
                      /\ status[g] \in {"verified", "rejected"}}
     IN status' = IF judged # {} /\ f \in stored THEN [status EXCEPT ![f] = "inferred"] ELSE status
  /\ UNCHANGED <<stored, current, links, claims, found, symbolic, written, changes>>

\* linkTemporalNeighbors: same topic, within the window, in the caller's group.
LinkTemporalNeighbors(f) ==
  /\ Done("temporal", f)
  /\ CreateLinks(f, {g \in Visible(f, GroupOf[KeyOf[f]]) \intersect current :
                       g # f /\ TopicOf[g] = TopicOf[f] /\ Symmetric(Near, f, g)}, "temporal")
  /\ UNCHANGED <<stored, current, claims, status, found, symbolic, written, changes>>

\* _proactiveRecall: the search, by keywords and key ...
ProactiveSearch(f) ==
  /\ <<"search", f>> \in todo
  /\ todo' = (todo \ {<<"search", f>>}) \union {<<"link", f>>}
  /\ found' = [found EXCEPT ![f] = {g \in Visible(f, {KeyOf[f]}) \intersect current :
                                      g # f /\ Symmetric(Alike, f, g)}]
  /\ UNCHANGED <<stored, current, links, claims, status, symbolic, written, changes>>

\* ... then one link after the other.
ProactiveLink(f) ==
  /\ <<"link", f>> \in todo
  /\ IF found[f] = {}
     THEN todo' = todo \ {<<"link", f>>} /\ UNCHANGED <<links, found>>
     ELSE \E g \in found[f] :
            /\ found' = [found EXCEPT ![f] = @ \ {g}]
            /\ IF symbolic.mode = "auto" /\ symbolic.gate /\ ~Gate(f, g)
               THEN UNCHANGED links
               ELSE CreateLinks(f, {g}, "related")
            /\ UNCHANGED todo
  /\ UNCHANGED <<stored, current, claims, status, symbolic, written, changes>>

\* _extractSymbolicClaims: fragment and context have the same key here.
ExtractSymbolicClaims(f) ==
  /\ Done("claims", f)
  /\ claims' = IF f \in stored THEN [claims EXCEPT ![f] = Extract(f)] ELSE claims
  /\ UNCHANGED <<stored, current, links, status, found, symbolic, written, changes>>

\* amend, supersession and forget go on meanwhile.
Judge(f, s) ==
  /\ f \in current /\ status[f] = "observed" /\ changes < MaxChanges
  /\ status' = [status EXCEPT ![f] = s] /\ changes' = changes + 1
  /\ UNCHANGED <<stored, current, links, claims, todo, found, symbolic, written>>
Supersede(f) ==
  /\ f \in current /\ changes < MaxChanges
  /\ current' = current \ {f} /\ changes' = changes + 1
  /\ UNCHANGED <<stored, links, claims, status, todo, found, symbolic, written>>
Forget(f) ==
  /\ f \in stored /\ changes < MaxChanges
  /\ stored' = stored \ {f} /\ current' = current \ {f} /\ changes' = changes + 1
  /\ links' = {l \in links : l[1] # f /\ l[2] # f}
  /\ claims' = [claims EXCEPT ![f] = None]
  /\ UNCHANGED <<status, todo, found, symbolic, written>>

Init ==
  /\ stored = {} /\ current = {} /\ links = {} /\ todo = {} /\ written = {} /\ changes = 0
  /\ claims = [f \in Frags |-> None]
  /\ status = [f \in Frags |-> "observed"]
  /\ found = [f \in Frags |-> {}]
  /\ symbolic \in Deployments

Next ==
  \E f \in Frags :
    \/ \E ids \in SUBSET Named[f] : Remember(f, ids)
    \/ CheckAssertion(f) \/ LinkTemporalNeighbors(f)
    \/ ProactiveSearch(f) \/ ProactiveLink(f) \/ ExtractSymbolicClaims(f)
    \/ \E s \in {"verified", "rejected"} : Judge(f, s)
    \/ Supersede(f) \/ Forget(f)

Spec == Init /\ [][Next]_autolinks

-----------------------------------------------------------------------------
(* Properties *)

\* Whoever wrote meanwhile and whatever ids were named, a link made after an
\* insert joins fragments the writer's key or its group may see (getByIds,
\* groupKeyIds and the key of the search are the only checks: createLink has none).
LinksStayInGroup ==
  \A l \in links :
    KeyOf[l[1]] = None \/ KeyOf[l[2]] \in {KeyOf[l[1]]} \union GroupOf[KeyOf[l[1]]]

\* What docs/configuration.en.md says of requireSameWorkspace (on by default):
\* ProactiveRecall links no two fragments of different workspaces in auto mode.
WorkspacesApart ==
  [][ \A f, g \in Frags :
        (symbolic.mode = "auto" /\ <<f, g, "related">> \in links' \ links /\ f \in stored)
          => SpaceOf[f] = None \/ SpaceOf[g] = None \/ SpaceOf[f] = SpaceOf[g] ]_autolinks

=============================================================================
