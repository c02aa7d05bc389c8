----------------------------- MODULE JobDelivery -----------------------------
(***************************************************************************)
(* What an asynchronous batch_remember call promises, with no queue in     *)
(* sight: a job that was taken on stays pending until its fragments have   *)
(* been processed or it has been parked in the dead-letter list.  A parked *)
(* job may still be completed by another copy of it (delivery is at least  *)
(* once); a completed job is never anything else again.                    *)
(***************************************************************************)
CONSTANT Jobs

VARIABLE delivery

JobStates == {"absent", "pending", "dead", "done"}

Init == delivery = [j \in Jobs |-> "absent"]

Move(j, from, to) ==
    /\ delivery[j] \in from
    /\ delivery' = [delivery EXCEPT ![j] = to]

TakeOn(j)   == Move(j, {"absent"}, "pending")
Park(j)     == Move(j, {"pending"}, "dead")
Complete(j) == Move(j, {"pending", "dead"}, "done")

Next == \E j \in Jobs : TakeOn(j) \/ Park(j) \/ Complete(j)

Spec == Init /\ [][Next]_delivery
=============================================================================
