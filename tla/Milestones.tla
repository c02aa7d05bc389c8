----------------------------- MODULE Milestones -----------------------------
(***************************************************************************)
(* The milestones that reflects leave in case_events: linkEpisodeMilestone *)
(* inserts an event for the first fragment of a reflect, unless it has one *)
(* already, and an edge from the event that was remembered last for the    *)
(* agent.  Nobody waits for it; a reflect that is repeated calls it again. *)
(***************************************************************************)
EXTENDS Naturals, Sequences

CONSTANTS Runs,      \* calls at the same time
          Items,     \* fragments
          None,
          MaxCalls,  \* bound of the calls
          Crashes    \* bound of the restarts

VARIABLES events,  \* fragments of the milestones, in the order of their inserts
          edges,   \* preceded_by, as pairs of indexes of events
          last,    \* lastEventByAgent of the agent, 0 for none
          ms,      \* [Runs -> a call and its locals]
          calls, crashes

milestones == <<events, edges, last, ms, calls, crashes>>

Idle == [pc |-> "idle", item |-> None, ev |-> 0, prev |-> 0]

Init ==
  /\ events = <<>> /\ edges = {} /\ last = 0
  /\ ms = [r \in Runs |-> Idle] /\ calls = 0 /\ crashes = 0

\* A reflect that saved i first
Start(r, i) ==
  /\ ms[r].pc = "idle"
  /\ calls < MaxCalls
  /\ calls' = calls + 1
  /\ ms' = [ms EXCEPT ![r] = [Idle EXCEPT !.pc = "insert", !.item = i]]
  /\ UNCHANGED <<events, edges, last, crashes>>

\* Mutant: a conflict returns the event that exists
Milestone_Mutant(r) ==
  LET i == ms[r].item
      n == Len(events) + 1
  IN  /\ ms[r].pc = "insert"
      /\ IF \E k \in DOMAIN events : events[k] = i
         THEN /\ UNCHANGED events
              /\ ms' = [ms EXCEPT ![r].pc = "answer",
                                  ![r].ev = CHOOSE k \in DOMAIN events : events[k] = i]
         ELSE /\ events' = Append(events, i)
              /\ ms' = [ms EXCEPT ![r].pc = "answer", ![r].ev = n]
      /\ UNCHANGED <<edges, last, calls, crashes>>

\* ON CONFLICT (idempotency_key) DO NOTHING: one event for an item
Milestone(r) ==
  LET i == ms[r].item
      n == Len(events) + 1
  IN  /\ ms[r].pc = "insert"
      /\ IF \E k \in DOMAIN events : events[k] = i
         THEN ms' = [ms EXCEPT ![r] = Idle] /\ UNCHANGED events
         ELSE /\ events' = Append(events, i)
              /\ ms' = [ms EXCEPT ![r].pc = "answer", ![r].ev = n]
      /\ UNCHANGED <<edges, last, calls, crashes>>

\* The event that was remembered last becomes the predecessor
Predecessor(r) ==
  /\ ms[r].pc = "answer"
  /\ IF last # 0 /\ last # ms[r].ev
     THEN ms' = [ms EXCEPT ![r].pc = "edge", ![r].prev = last] /\ UNCHANGED last
     ELSE ms' = [ms EXCEPT ![r] = Idle] /\ last' = ms[r].ev
  /\ UNCHANGED <<events, edges, calls, crashes>>

Edge(r) ==
  /\ ms[r].pc = "edge"
  /\ edges' = edges \cup {<<ms[r].prev, ms[r].ev>>}
  /\ last' = ms[r].ev
  /\ ms' = [ms EXCEPT ![r] = Idle]
  /\ UNCHANGED <<events, calls, crashes>>

\* A query fails: the event stays as it is and is not remembered
MilestoneFails(r) ==
  /\ ms[r].pc # "idle"
  /\ ms' = [ms EXCEPT ![r] = Idle]
  /\ UNCHANGED <<events, edges, last, calls, crashes>>

\* The cache of the last event is the process's
Crash ==
  /\ crashes < Crashes
  /\ crashes' = crashes + 1
  /\ ms' = [r \in Runs |-> Idle] /\ last' = 0
  /\ UNCHANGED <<events, edges, calls>>

Next ==
  \/ Crash
  \/ \E r \in Runs : \/ \E i \in Items : Start(r, i)
                     \/ Milestone(r) \/ Predecessor(r) \/ Edge(r) \/ MilestoneFails(r)

Spec == Init /\ [][Next]_milestones

\* No milestones go round in a circle: some of them has no predecessor among them
NoCircle ==
  \A S \in SUBSET (DOMAIN events) :
    S # {} => \E k \in S : \A p \in edges : p[2] = k => p[1] \notin S

\* Concurrent and retried reflects leave milestones without a cycle, each with
\* at most one predecessor, and none twice for an item, though the last event
\* is read before the edge is inserted and set after (linkEpisodeMilestone).
MilestonesChained ==
  /\ \A k, n \in DOMAIN events : events[k] = events[n] => k = n
  /\ \A p, q \in edges : p[2] = q[2] => p = q
  /\ NoCircle
=============================================================================
