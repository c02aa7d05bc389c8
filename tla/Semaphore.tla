------------------------------ MODULE Semaphore ------------------------------
(***************************************************************************)
(* The counting semaphore of lib/llm/util/semaphore.js, which limits the   *)
(* concurrent calls to a language-model provider or embedding service:     *)
(* acquire takes a free slot or queues, release hands the slot of the      *)
(* leaving task to the first waiter without touching the counter, and a    *)
(* timer takes a waiter out of the queue.                                  *)
(***************************************************************************)
EXTENDS Naturals, Sequences, FiniteSets

CONSTANTS Tasks,    \* the callers
          Limit     \* slots

ASSUME SemaphoreAssumption == Limit \in Nat \ {0} /\ IsFiniteSet(Tasks)

VARIABLES active,    \* _active
          waiters,   \* _waiters, oldest first
          holding    \* tasks between a successful acquire and their release

vars == <<active, waiters, holding>>

Waiting == {waiters[n] : n \in 1..Len(waiters)}

Init == active = 0 /\ waiters = <<>> /\ holding = {}

\* s without its n-th element.
Without(s, n) == [m \in 1..(Len(s) - 1) |-> IF m < n THEN s[m] ELSE s[m + 1]]

Acquire(t) ==
    /\ t \notin holding /\ t \notin Waiting
    /\ IF active < Limit
       THEN active' = active + 1 /\ holding' = holding \cup {t} /\ UNCHANGED waiters
       ELSE waiters' = Append(waiters, t) /\ UNCHANGED <<active, holding>>

Release_NoWake(t) ==         \* Mutant: the first waiter is not woken
    /\ t \in holding
    /\ active' = active - 1
    /\ holding' = holding \ {t}
    /\ UNCHANGED waiters

Release(t) ==
    /\ t \in holding
    /\ IF waiters # <<>>
       THEN /\ holding' = (holding \ {t}) \cup {Head(waiters)}
            /\ waiters' = Tail(waiters)
            /\ UNCHANGED active
       ELSE /\ active' = active - 1
            /\ holding' = holding \ {t}
            /\ UNCHANGED waiters

\* The timer of a waiter fires; resolve and the timer exclude each other
\* because release clears the timer in the same turn.
Timeout(n) ==
    /\ n \in 1..Len(waiters)
    /\ waiters' = Without(waiters, n)
    /\ UNCHANGED <<active, holding>>

Next ==
    \/ \E t \in Tasks : Acquire(t) \/ Release(t)
    \/ \E n \in DOMAIN waiters : Timeout(n)

Spec == Init /\ [][Next]_vars

\* A task that has a slot gives it back (the finally block of its caller).
FairSpec == Spec /\ \A t \in Tasks : WF_vars(Release(t))

-----------------------------------------------------------------------------
(* Properties *)

\* The counter of active calls never passes the limit; waiters and holders are
\* callers.
TypeOK ==
    /\ active \in 0..Limit
    /\ waiters \in Seq(Tasks)
    /\ holding \in SUBSET Tasks

\* The counter is the number of tasks that have a slot: no hand-over,
\* timeout or release leaks or invents one.
CountsHolders == active = Cardinality(holding)

\* Nobody waits while a slot is free, and nobody waits twice or while it
\* holds a slot: a release never loses a wake-up.
NoLostWakeup ==
    /\ waiters # <<>> => active = Limit
    /\ Waiting \cap holding = {}
    /\ \A m, n \in 1..Len(waiters) : m # n => waiters[m] # waiters[n]

\* Slots go to the waiters in the order in which they came: a waiter is
\* overtaken by nobody who came later, except when its own timer fires.
FirstComeFirstServed ==
    [][\A m, n \in 1..Len(waiters) :
         m < n /\ waiters[n] \in holding' => waiters[m] \in holding']_vars

\* No slot is leaked, invented or left idle: a hand-over, a timeout or a release
\* in any order keeps the counter and wakes who waits.
SlotsKept == CountsHolders /\ NoLostWakeup

SemaphoreInv == TypeOK /\ CountsHolders /\ NoLostWakeup
=============================================================================
