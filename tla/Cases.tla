-------------------------------- MODULE Cases --------------------------------
(***************************************************************************)
(* Cases: how remember assigns one to a fragment of a session and topic,   *)
(* what it leaves in case_events, case_event_edges and fragment_evidence   *)
(* after it has answered, and what reconstruct_history makes of it.        *)
(*                                                                         *)
(* The fragments are those of one session, topic and key.  Those of        *)
(* batchRemember get no case of their own.                                 *)
(***************************************************************************)
EXTENDS Naturals, FiniteSetsExt

CONSTANTS Frags,    \* fragments, each remembered once
          ErrorFrags, ProcedureFrags,   \* those of type error and procedure
          Batched,  \* those that batchRemember may store
          None,
          EventLimit, \* rows that getByCase reads unless told otherwise, 100
          MaxTroubles  \* bound of the failed inserts and the deletions of old events together

VARIABLES pc,        \* [Frags -> where its remember is]
          case,      \* [Frags -> its case in the table, or None]; a case is named
                     \* by the fragment whose remember made it
          picked,    \* [Frags -> the case its remember assigned]
          backfill,  \* updates of case_id under way: <<fragment, case>>
          events,    \* committed events: [of, at, no, after], after being the fragments
                     \* whose events had been committed before
          begun,     \* [Frags -> created_at, the order of the BEGINs, or 0]
          next,      \* [Frags -> the sequence_no it read]
          edges,     \* <<from, to, type>> between the fragments of two events
          evidence,  \* fragments with fragment_evidence
          failed,    \* fragments an insert of which failed
          expiries

record == <<events, begun, next, edges, evidence, failed, expiries>>
cases == <<pc, case, picked, backfill, record>>

Init ==
  /\ pc = [f \in Frags |-> "new"]
  /\ case = [f \in Frags |-> None] /\ picked = case /\ backfill = {}
  /\ events = {} /\ edges = {} /\ evidence = {} /\ failed = {} /\ expiries = 0
  /\ begun = [f \in Frags |-> 0] /\ next = begun

Go(f, label) == pc' = [pc EXCEPT ![f] = label]
Stored == {f \in Frags : pc[f] \notin {"new", "insert"}}
Errors == {f \in Stored : f \in ErrorFrags}
Troubles == Cardinality(failed) + expiries

\* The committed events of the case of f
Known(f) == {e \in events : picked[e.of] = picked[f]}

\* getByCase: ORDER BY created_at, sequence_no LIMIT 100, the newest left out
First(E) ==
  {e \in E : Cardinality({o.of : o \in {o \in E : o.at < e.at}}) < EventLimit}
Listed(f) == First({e \in Known(f) : e.of \in ErrorFrags})

---------------------------------------------------------------------------
(* _autoAssignCaseId *)

Assign(f) ==
  LET open == {case[g] : g \in Stored} \ {None} IN
  /\ pc[f] = "new"
  /\ Go(f, "insert")
  /\ \/ /\ f \in Batched
        /\ UNCHANGED <<picked, backfill>>
     \/ /\ \E k \in open : picked' = [picked EXCEPT ![f] = k]
        /\ UNCHANGED backfill
     \/ /\ open = {}
        /\ IF f \in ErrorFrags \/ Errors # {}
           THEN picked' = [picked EXCEPT ![f] = f] ELSE UNCHANGED picked
        /\ backfill' = backfill \cup (IF f \in ErrorFrags THEN {} ELSE {<<e, f>> : e \in Errors})
  /\ UNCHANGED <<case, record>>

\* The row is stored and remember answers; the event is left to itself
Insert(f) ==
  /\ pc[f] = "insert"
  /\ case' = [case EXCEPT ![f] = picked[f]]
  /\ Go(f, IF picked[f] = None THEN "done" ELSE "append")
  /\ UNCHANGED <<picked, backfill, record>>

\* updateCaseId, not awaited, whatever case the error has by then
Backfill(u) ==
  /\ backfill' = backfill \ {u}
  /\ case' \in {case, [case EXCEPT ![u[1]] = u[2]]}
  /\ UNCHANGED <<pc, picked, record>>

---------------------------------------------------------------------------
(* _recordCaseEvent: append in a READ COMMITTED transaction, the evidence, *)
(* the event before it, and the errors that a procedure resolves.          *)

Begin(f) ==
  /\ pc[f] = "append"
  /\ begun' = [begun EXCEPT ![f] = 1 + Cardinality({g \in Frags : begun[g] > 0})]
  /\ Go(f, "number")
  /\ UNCHANGED <<case, picked, backfill, events, next, edges, evidence, failed, expiries>>

Number(f) ==
  /\ pc[f] = "number"
  /\ next' = [next EXCEPT ![f] = IF Known(f) = {} THEN 0 ELSE 1 + Max({e.no : e \in Known(f)})]
  /\ Go(f, "commit")
  /\ UNCHANGED <<case, picked, backfill, events, begun, edges, evidence, failed, expiries>>

Commit(f) ==
  /\ pc[f] = "commit"
  /\ events' = events \cup {[of |-> f, at |-> begun[f], no |-> next[f],
                                after |-> {e.of : e \in events}]}
  /\ Go(f, "evidence")
  /\ UNCHANGED <<case, picked, backfill, begun, next, edges, evidence, failed, expiries>>

\* Each insert may fail: that of the event ends the recording, the others are ignored
Fail(f) ==
  /\ pc[f] \in {"commit", "evidence", "precede", "resolve"} /\ Troubles < MaxTroubles
  /\ failed' = failed \cup {f}
  /\ Go(f, CASE pc[f] = "evidence" -> "precede"
             [] pc[f] = "precede" -> "resolve"
             [] OTHER -> "done")
  /\ UNCHANGED <<case, picked, backfill, events, begun, next, edges, evidence, expiries>>

Evidence(f) ==
  /\ pc[f] = "evidence"
  /\ evidence' = evidence \cup {f}
  /\ Go(f, "precede")
  /\ UNCHANGED <<case, picked, backfill, events, begun, next, edges, failed, expiries>>

\* ORDER BY created_at, sequence_no LIMIT 2: of the two oldest events the first
\* that is another one
Oldest(f) == LET S == {e \in Known(f) : e.of # f}
             IN  {e \in S : \A o \in S : e.at <= o.at}

Precede(f) ==
  /\ pc[f] = "precede"
  /\ edges' = edges \cup {<<f, e.of, "preceded_by">> : e \in Oldest(f)}
  /\ Go(f, "resolve")
  /\ UNCHANGED <<case, picked, backfill, events, begun, next, evidence, failed, expiries>>

\* Mutant: only the errors that were begun before
Resolve_Mutant(f) ==
  /\ pc[f] = "resolve"
  /\ edges' = edges \cup {<<f, e.of, "resolved_by">> : e \in
       {e \in Listed(f) : f \in ProcedureFrags /\ e.at < begun[f]}}
  /\ Go(f, "done")
  /\ UNCHANGED <<case, picked, backfill, events, begun, next, evidence, failed, expiries>>

Resolve(f) ==
  /\ pc[f] = "resolve"
  /\ edges' = edges \cup {<<f, e.of, "resolved_by">> : e \in
       {e \in Listed(f) : f \in ProcedureFrags}}
  /\ Go(f, "done")
  /\ UNCHANGED <<case, picked, backfill, events, begun, next, evidence, failed, expiries>>

\* deleteExpired: the events before some instant, with their edges and evidence
DeleteExpired ==
  /\ Troubles < MaxTroubles
  /\ expiries' = expiries + 1
  /\ \E t \in {begun[f] : f \in Frags} :
       LET old == {e.of : e \in {e \in events : e.at < t}} IN
       /\ \A f \in old : pc[f] = "done"
       /\ events' = {e \in events : e.of \notin old}
       /\ edges' = {d \in edges : d[1] \notin old /\ d[2] \notin old}
       /\ evidence' = evidence \ old
  /\ UNCHANGED <<pc, case, picked, backfill, begun, next, failed>>

Next ==
  \/ \E f \in Frags : \/ Assign(f) \/ Insert(f) \/ Begin(f) \/ Number(f) \/ Commit(f)
                      \/ Fail(f) \/ Evidence(f) \/ Precede(f) \/ Resolve(f)
  \/ \E u \in backfill : Backfill(u)
  \/ DeleteExpired

Spec == Init /\ [][Next]_cases

---------------------------------------------------------------------------
(* reconstruct_history *)

\* _detectUnresolvedBranches, of the events of case k
Unresolved(k) ==
  LET E == {e.of : e \in First({e \in events : picked[e.of] = k})}
      resolved == {d[1] : d \in {d \in edges : d[3] = "resolved_by"}}
  IN  {f \in E : f \in ErrorFrags /\ f \notin resolved}

\* The errors of its case whose recording began before that of err
Earlier(err) ==
  {g \in Frags : /\ g \in ErrorFrags /\ picked[g] = picked[err]
                /\ 0 < begun[g] /\ begun[g] < begun[err]}

\* A fix that was recorded without a failure is connected with every error of
\* its case whose event was committed before, though transactions that began
\* before it may commit later (_recordCaseEvent), unless EventLimit or more
\* errors of the case had begun before that one (getByCase's default LIMIT).
FixCoversErrors ==
  \A fix, err \in events :
    /\ err.of \in fix.after /\ picked[fix.of] = picked[err.of]
    /\ pc[fix.of] = "done" /\ fix.of \notin failed
    /\ fix.of \in ProcedureFrags /\ err.of \in ErrorFrags
    /\ Cardinality(Earlier(err.of)) < EventLimit
    => <<fix.of, err.of, "resolved_by">> \in edges

\* docs/architecture.en.md: an edge resolved_by says that "A was resolved by B";
\* an error that a recorded fix is connected with is not among the unresolved.
FixedIsResolved ==
  \A d \in edges : d[3] = "resolved_by" =>
    {d[1], d[2]} \cap Unresolved(picked[d[1]]) = {}
=============================================================================
