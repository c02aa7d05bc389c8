--------------------------- MODULE ServicesProofs ---------------------------
(***************************************************************************)
(* For any finite set of callers and any limit: the counter of a semaphore *)
(* is the number of slots in use, never above the limit, nobody waits      *)
(* while a slot is free, and waiters are served in order.  The invariant   *)
(* is inductive as it stands; the hand-over step needs all of it (the head *)
(* of the queue has no slot yet, so the number of holders stays).          *)
(*                                                                         *)
(* For any finite set of requests, chain of providers, limits and          *)
(* timeouts: the dispatch chain bounds its calls, and uses the semaphores  *)
(* as they may be used.  What the counters of the slots need beside the    *)
(* holders is who waits where (Queued): the head of a queue is the request *)
(* that a release gives the slot to.                                       *)
(*                                                                         *)
(* For any callers, threshold and durations: the circuit breaker of a      *)
(* process stays open as long as it should.                                *)
(***************************************************************************)
EXTENDS Services, FiniteSetTheorems, TLAPS

(***************************************************************************)
(* The semaphore                                                           *)
(***************************************************************************)

\* A set of callers is finite, so adding and removing one changes its size
\* by one.
LEMMA SlotCount ==
  ASSUME NEW S \in SUBSET Tasks, NEW t \in Tasks
  PROVE  /\ Cardinality(S) \in Nat
         /\ t \notin S => Cardinality(S \cup {t}) = Cardinality(S) + 1
         /\ t \in S => Cardinality(S \ {t}) = Cardinality(S) - 1
<1>1. IsFiniteSet(S)
  BY SemaphoreAssumption, FS_Subset
<1> QED BY <1>1, FS_CardinalityType, FS_AddElement, FS_RemoveElement

\* The semaphore starts with the invariant.
LEMMA InitInv == Init => SemaphoreInv
<1> SUFFICES ASSUME Init PROVE SemaphoreInv
  OBVIOUS
<1>1. TypeOK
  BY SemaphoreAssumption DEF Init, TypeOK
<1>2. CountsHolders
  BY FS_EmptySet DEF Init, CountsHolders
<1>3. NoLostWakeup
  BY DEF Init, NoLostWakeup
<1> QED BY <1>1, <1>2, <1>3 DEF SemaphoreInv

\* acquire keeps the invariant: it takes a free slot, or queues when none is.
LEMMA AcquireKeeps ==
  ASSUME SemaphoreInv, NEW t \in Tasks, Acquire(t)
  PROVE  SemaphoreInv'
<1> USE SemaphoreAssumption
<1>0. TypeOK /\ CountsHolders /\ NoLostWakeup
  BY DEF SemaphoreInv
<1>1. CASE active < Limit
  <2>1. waiters = <<>> /\ waiters' = <<>>
    BY <1>0, <1>1 DEF NoLostWakeup, TypeOK, Acquire
  <2>2. TypeOK'
    BY <1>0, <1>1 DEF TypeOK, Acquire
  <2>3. CountsHolders'
    BY <1>0, <1>1, SlotCount DEF TypeOK, Acquire, CountsHolders
  <2>4. NoLostWakeup'
    BY <2>1 DEF NoLostWakeup, Waiting
  <2> QED BY <2>2, <2>3, <2>4 DEF SemaphoreInv
<1>2. CASE ~(active < Limit)
  <2>1. waiters' = Append(waiters, t) /\ active' = active /\ holding' = holding
    BY <1>2 DEF Acquire
  <2>2. TypeOK' /\ active = Limit
    BY <1>0, <1>2, <2>1 DEF TypeOK
  <2>3. CountsHolders'
    BY <1>0, <2>1 DEF CountsHolders
  <2>4. Len(waiters') = Len(waiters) + 1 /\ waiters'[Len(waiters) + 1] = t
        /\ \A n \in 1..Len(waiters) : waiters'[n] = waiters[n]
    BY <1>0, <2>1 DEF TypeOK
  <2>5. \A n \in 1..Len(waiters) : waiters[n] # t
    BY DEF Acquire, Waiting
  <2>6. NoLostWakeup'
    BY <1>0, <2>1, <2>2, <2>4, <2>5 DEF NoLostWakeup, Waiting, TypeOK, Acquire
  <2> QED BY <2>2, <2>3, <2>6 DEF SemaphoreInv
<1> QED BY <1>1, <1>2

\* release keeps the invariant: the slot goes to the head of the queue, or
\* becomes free when nobody waits.
LEMMA ReleaseKeeps ==
  ASSUME SemaphoreInv, NEW t \in Tasks, Release(t)
  PROVE  SemaphoreInv'
<1> USE SemaphoreAssumption
<1>0. TypeOK /\ CountsHolders /\ NoLostWakeup
  BY DEF SemaphoreInv
<1>1. CASE waiters # <<>>
  <2> DEFINE h == Head(waiters)
  <2>1. /\ holding' = (holding \ {t}) \cup {h}
        /\ waiters' = Tail(waiters) /\ active' = active
    BY <1>1 DEF Release
  <2>2. Len(waiters) >= 1 /\ h = waiters[1] /\ h \in Tasks /\ Len(Tail(waiters)) = Len(waiters) - 1
        /\ \A n \in 1..Len(Tail(waiters)) : Tail(waiters)[n] = waiters[n + 1]
    BY <1>0, <1>1 DEF TypeOK
  <2>3. h \notin holding
    BY <1>0, <2>2 DEF NoLostWakeup, Waiting
  <2>4. TypeOK'
    BY <1>0, <1>1, <2>1, <2>2 DEF TypeOK
  <2>5. Cardinality(holding') = Cardinality(holding)
    <3>1. t \in holding /\ holding \in SUBSET Tasks
      BY <1>0 DEF Release, TypeOK
    <3>2. Cardinality(holding \ {t}) = Cardinality(holding) - 1
          /\ Cardinality(holding) \in Nat
      BY <3>1, SlotCount
    <3>3. Cardinality((holding \ {t}) \cup {h}) = Cardinality(holding \ {t}) + 1
      <4>1. holding \ {t} \in SUBSET Tasks /\ h \notin holding \ {t} /\ h \in Tasks
        BY <3>1, <2>2, <2>3
      <4> HIDE DEF h
      <4> QED BY <4>1, SlotCount
    <3> QED BY <3>2, <3>3, <2>1
  <2>6. CountsHolders'
    BY <1>0, <2>1, <2>5 DEF CountsHolders
  <2>7. \A n \in 1..Len(waiters') : waiters'[n] = waiters[n + 1] /\ n + 1 \in 1..Len(waiters)
    BY <1>0, <2>1, <2>2 DEF TypeOK
  <2>8. active' = Limit
    BY <1>0, <1>1, <2>1 DEF NoLostWakeup
  <2>9. \A n \in 1..Len(waiters') : waiters'[n] # h /\ waiters'[n] \notin holding
    <3> SUFFICES ASSUME NEW n \in 1..Len(waiters')
                 PROVE  waiters'[n] # h /\ waiters'[n] \notin holding
      OBVIOUS
    <3>1. waiters'[n] = waiters[n + 1] /\ n + 1 \in 1..Len(waiters) /\ 1 \in 1..Len(waiters)
          /\ n + 1 # 1
      BY <2>2, <2>4, <2>7 DEF TypeOK
    <3> QED BY <1>0, <2>2, <3>1 DEF NoLostWakeup, Waiting
  <2>10. \A m, n \in 1..Len(waiters') : m # n => waiters'[m] # waiters'[n]
    BY <1>0, <2>7, <2>1, <2>2 DEF NoLostWakeup, TypeOK
  <2>11. NoLostWakeup'
    BY <2>1, <2>8, <2>9, <2>10 DEF NoLostWakeup, Waiting
  <2> QED BY <2>4, <2>6, <2>11 DEF SemaphoreInv
<1>2. CASE waiters = <<>>
  <2>1. active' = active - 1 /\ holding' = holding \ {t} /\ waiters' = <<>>
    BY <1>2 DEF Release
  <2>2. Cardinality(holding') = Cardinality(holding) - 1 /\ Cardinality(holding') \in Nat
    BY <1>0, <2>1, SlotCount DEF Release, TypeOK
  <2>3. CountsHolders'
    BY <1>0, <2>1, <2>2 DEF CountsHolders
  <2>4. TypeOK'
    BY <1>0, <2>1, <2>2 DEF TypeOK, CountsHolders
  <2>5. NoLostWakeup'
    BY <2>1 DEF NoLostWakeup, Waiting
  <2> QED BY <2>3, <2>4, <2>5 DEF SemaphoreInv
<1> QED BY <1>1, <1>2

\* A timeout keeps the invariant: the queue loses one element, in place.
LEMMA TimeoutKeeps ==
  ASSUME SemaphoreInv, NEW n \in Nat, Timeout(n)
  PROVE  SemaphoreInv'
<1>0. TypeOK /\ CountsHolders /\ NoLostWakeup
  BY DEF SemaphoreInv
<1>1. waiters' = Without(waiters, n) /\ active' = active /\ holding' = holding
  BY DEF Timeout
<1>2. Len(waiters) \in Nat /\ n \in 1..Len(waiters)
  BY <1>0 DEF TypeOK, Timeout
<1>3. waiters' \in Seq(Tasks) /\ Len(waiters') = Len(waiters) - 1
  BY <1>0, <1>1, <1>2 DEF TypeOK, Without
<1>4. \A m \in 1..Len(waiters') :
        waiters'[m] = IF m < n THEN waiters[m] ELSE waiters[m + 1]
  BY <1>1, <1>2, <1>3 DEF Without
<1>5. TypeOK' /\ CountsHolders'
  BY <1>0, <1>1, <1>3 DEF TypeOK, CountsHolders
<1>6. active = Limit
  BY <1>0, <1>2 DEF NoLostWakeup
<1>7. \A m \in 1..Len(waiters') : waiters'[m] \in Waiting
  BY <1>2, <1>3, <1>4 DEF Waiting
<1>8. \A l, m \in 1..Len(waiters') : l # m => waiters'[l] # waiters'[m]
  BY <1>0, <1>2, <1>3, <1>4 DEF NoLostWakeup
<1>9. NoLostWakeup'
  BY <1>0, <1>1, <1>6, <1>7, <1>8 DEF NoLostWakeup, Waiting
<1> QED BY <1>5, <1>9 DEF SemaphoreInv

\* Every step keeps the invariant.
THEOREM NextInv == SemaphoreInv /\ [Next]_vars => SemaphoreInv'
<1> SUFFICES ASSUME SemaphoreInv, [Next]_vars PROVE SemaphoreInv'
  OBVIOUS
<1>1. CASE UNCHANGED vars
  BY <1>1 DEF vars, SemaphoreInv, TypeOK, CountsHolders, NoLostWakeup, Waiting
<1>2. DOMAIN waiters \subseteq Nat
  BY DEF SemaphoreInv, TypeOK
<1> QED BY <1>1, <1>2, AcquireKeeps, ReleaseKeeps, TimeoutKeeps DEF Next

\* The counter is exact and bounded by the limit, and no wake-up is lost, in
\* every use of acquire, release and the wait timer.
THEOREM SemaphoreSafe == Spec => [](TypeOK /\ SlotsKept)
<1>1. SemaphoreInv => TypeOK /\ SlotsKept
  BY DEF SemaphoreInv, SlotsKept
<1> QED BY InitInv, NextInv, <1>1, PTL DEF Spec

\* Waiters are served in order (FirstComeFirstServed): only the head of the
\* queue moves to holding.
THEOREM SemaphoreFair == Spec => FirstComeFirstServed
<1>1. SemaphoreInv /\ [Next]_vars =>
        [\A m, n \in 1..Len(waiters) :
           m < n /\ waiters[n] \in holding' => waiters[m] \in holding']_vars
  <2> SUFFICES ASSUME SemaphoreInv, Next,
                      NEW m \in 1..Len(waiters), NEW n \in 1..Len(waiters),
                      m < n, waiters[n] \in holding'
               PROVE  FALSE
    BY DEF vars
  <2>0. TypeOK /\ NoLostWakeup
    BY DEF SemaphoreInv
  <2>1. waiters[n] \notin holding /\ waiters # <<>> /\ waiters[n] # waiters[m]
        /\ waiters[n] # Head(waiters) /\ ~(active < Limit)
    BY <2>0, SemaphoreAssumption DEF NoLostWakeup, Waiting, TypeOK
  <2>2. ASSUME NEW t \in Tasks, Acquire(t) PROVE FALSE
    BY <2>1, <2>2 DEF Acquire
  <2>3. ASSUME NEW t \in Tasks, Release(t) PROVE FALSE
    BY <2>1, <2>3 DEF Release
  <2>4. ASSUME NEW l \in Nat, Timeout(l) PROVE FALSE
    BY <2>1, <2>4 DEF Timeout
  <2>5. DOMAIN waiters \subseteq Nat
    BY <2>0 DEF TypeOK
  <2> QED BY <2>2, <2>3, <2>4, <2>5 DEF Next
<1> QED BY InitInv, NextInv, <1>1, PTL DEF Spec, FirstComeFirstServed

(***************************************************************************)
(* The dispatch chain                                                      *)
(***************************************************************************)

\* The providers of a chain
P == Llm!Providers

\* Where a request is while it is at a provider
AtWork == {"waiting", "granted", "fetching", "reading"}

\* Each request has its place
Placed ==
  /\ pc = [r \in Requests |-> pc[r]] /\ entry = [r \in Requests |-> entry[r]]
  /\ chain = [r \in Requests |-> chain[r]] /\ left = [r \in Requests |-> left[r]]
  /\ timer = [r \in Requests |-> timer[r]] /\ late = [r \in Requests |-> late[r]]
  /\ cooldownUntil = [r \in Requests |-> cooldownUntil[r]]

\* What holds of one request: its types, a chain while it is at a provider, a timer that is
\* due before the deadline, and nothing but an answer to read past it
Standing(r) ==
  /\ pc[r] \in Llm!Phases /\ entry[r] \in 1..(Len(Entries) + 1) /\ chain[r] \in Seq(P)
  /\ left[r] \in 0..ChainTimeout /\ late[r] \in BOOLEAN
  /\ timer[r] \in 0..Llm!Least(ChainTimeout, WaitTimeout + CallTimeout)
  /\ cooldownUntil[r] \in [P -> 0..CooldownTime]
  /\ pc[r] \in AtWork => chain[r] # <<>>
  /\ pc[r] \in {"waiting", "fetching"} => timer[r] <= left[r]
  /\ late[r] => pc[r] = "reading"

\* What holds of the slots: the counters count the holders, who are at work there, and
\* the queues hold those who wait there, once each
Counted ==
  /\ slots \in [P -> Nat] /\ holders \in [P -> SUBSET Requests] /\ queues \in [P -> Seq(Requests)]
  /\ enabled \in BOOLEAN
  /\ \A p \in P : slots[p] <= Slots[p] /\ slots[p] = Cardinality(holders[p])

Held ==
  /\ \A p \in P : \A r \in holders[p] : enabled /\ pc[r] \in AtWork /\ Head(chain[r]) = p
  /\ \A r \in Requests : enabled /\ pc[r] \in {"granted", "fetching", "reading"} => r \in holders[Head(chain[r])]

Queued ==
  /\ \A p \in P : \A n \in 1..Len(queues[p]) :
       LET r == queues[p][n] IN enabled /\ pc[r] = "waiting" /\ Head(chain[r]) = p /\ r \notin holders[p]
  /\ \A p \in P : \A m, n \in 1..Len(queues[p]) : queues[p][m] = queues[p][n] => m = n
  /\ \A r \in Requests : pc[r] = "waiting" =>
       \/ r \in holders[Head(chain[r])]
       \/ \E n \in 1..Len(queues[Head(chain[r])]) : queues[Head(chain[r])][n] = r
  /\ \A r \in Requests : pc[r] \in {"waiting", "granted"} => enabled

LlmIInv == Placed /\ (\A r \in Requests : Standing(r)) /\ Counted /\ Held /\ Queued

\* The constants are numbers.
LEMMA LlmConstants ==
  /\ ChainTimeout \in Nat \ {0} /\ WaitTimeout \in Nat \ {0} /\ CallTimeout \in Nat \ {0} /\ CooldownTime \in Nat
  /\ Slots \in [P -> Nat \ {0}] /\ Entries \in Seq(P) /\ Entries # <<>> /\ Len(Entries) \in Nat
  /\ \A n \in 1..Len(Entries) : Entries[n] \in P
  /\ \A m, n \in Nat : Llm!Least(m, n) \in Nat /\ Llm!Least(m, n) <= m /\ Llm!Least(m, n) <= n
  <1>1. Llm!DispatchAssumption
    BY ServicesAssumption
  <1>2. Entries \in Seq(P) /\ Len(Entries) \in Nat
    BY <1>1 DEF Llm!DispatchAssumption, P
  <1>3. \A m, n \in Nat : Llm!Least(m, n) \in Nat /\ Llm!Least(m, n) <= m /\ Llm!Least(m, n) <= n
    BY DEF Llm!Least
  <1>4. \A n \in 1..Len(Entries) : Entries[n] \in P
    BY DEF P, Llm!Providers
  <1> QED  BY <1>1, <1>2, <1>3, <1>4 DEF Llm!DispatchAssumption, P

\* No request has begun at first.
LEMMA LlmInit == Llm!Init => LlmIInv
  <1> SUFFICES ASSUME Llm!Init  PROVE LlmIInv
    OBVIOUS
  <1>1. \A r \in Requests : /\ pc[r] = "idle" /\ entry[r] = 1 /\ chain[r] = <<>> /\ left[r] = ChainTimeout
                            /\ timer[r] = 0 /\ late[r] = FALSE /\ cooldownUntil[r] = [p \in P |-> 0]
    BY DEF Llm!Init, P
  <1>2. Placed
    BY DEF Llm!Init, Placed
  <1>3. WaitTimeout + CallTimeout \in Nat
    BY LlmConstants
  <1>4. ASSUME NEW r \in Requests  PROVE Standing(r)
    <2>1. Llm!Least(ChainTimeout, WaitTimeout + CallTimeout) \in Nat
      BY <1>3, LlmConstants
    <2>2. [p \in P |-> 0] \in [P -> 0..CooldownTime]
      BY LlmConstants
    <2>3. <<>> \in Seq(P) /\ 1 \in 1..(Len(Entries) + 1) /\ ChainTimeout \in 0..ChainTimeout
      BY LlmConstants
    <2>4. "idle" \in Llm!Phases /\ "idle" \notin AtWork
      BY DEF Llm!Phases, AtWork
    <2>5. 0 \in 0..Llm!Least(ChainTimeout, WaitTimeout + CallTimeout)
      BY <2>1
    <2> HIDE DEF P
    <2> QED  BY <1>1, <2>2, <2>3, <2>4, <2>5 DEF Standing
  <1>5. \A p \in P : slots[p] = 0 /\ queues[p] = <<>> /\ holders[p] = {}
    BY DEF Llm!Init, P
  <1>6. Counted
    BY <1>5, LlmConstants, FS_EmptySet DEF Llm!Init, P, Counted
  <1>7. Held /\ Queued
    BY <1>1, <1>5 DEF Held, Queued
  <1> QED  BY <1>2, <1>4, <1>6, <1>7 DEF LlmIInv

\* A step of one request
Moves(r) ==
  /\ pc' = [pc EXCEPT ![r] = pc'[r]] /\ entry' = [entry EXCEPT ![r] = entry'[r]]
  /\ chain' = [chain EXCEPT ![r] = chain'[r]] /\ left' = [left EXCEPT ![r] = left'[r]]
  /\ timer' = [timer EXCEPT ![r] = timer'[r]] /\ late' = [late EXCEPT ![r] = late'[r]]
  /\ cooldownUntil' = [cooldownUntil EXCEPT ![r] = cooldownUntil'[r]]

\* ... leaves the others where they are.
LEMMA OthersStand ==
  ASSUME LlmIInv, NEW r \in Requests, Moves(r), Standing(r)'
  PROVE  /\ Placed' /\ \A d \in Requests : Standing(d)'
         /\ \A d \in Requests \ {r} : pc'[d] = pc[d] /\ chain'[d] = chain[d]
  <1>1. Placed'
    BY DEF LlmIInv, Placed, Moves
  <1>2. ASSUME NEW d \in Requests \ {r}
        PROVE  /\ pc'[d] = pc[d] /\ entry'[d] = entry[d] /\ chain'[d] = chain[d] /\ left'[d] = left[d]
               /\ timer'[d] = timer[d] /\ late'[d] = late[d] /\ cooldownUntil'[d] = cooldownUntil[d]
    BY DEF LlmIInv, Placed, Moves
  <1>3. ASSUME NEW d \in Requests \ {r}  PROVE Standing(d)'
    BY <1>2 DEF LlmIInv, Standing
  <1> QED  BY <1>1, <1>2, <1>3

\* A set of requests is finite.
LEMMA HoldersCount ==
  ASSUME NEW S \in SUBSET Requests, NEW r \in Requests
  PROVE  /\ Cardinality(S) \in Nat
         /\ r \notin S => Cardinality(S \cup {r}) = Cardinality(S) + 1
         /\ r \in S => Cardinality(S \ {r}) = Cardinality(S) - 1
  <1>1. IsFiniteSet(S)
    BY ServicesAssumption, FS_Subset
  <1> QED  BY <1>1, FS_CardinalityType, FS_AddElement, FS_RemoveElement

\* Who is at a provider has it at the head of its chain.
LEMMA AtProvider ==
  ASSUME LlmIInv, NEW d \in Requests, pc[d] \in AtWork
  PROVE  chain[d] \in Seq(P) /\ chain[d] # <<>> /\ Head(chain[d]) \in P
  BY DEF LlmIInv, Standing

\* A step that touches no slot, of a request that is at no provider, keeps the one it has,
\* or runs where nothing is counted.
LEMMA UntouchedKept ==
  ASSUME LlmIInv, NEW r \in Requests, UNCHANGED <<slots, queues, holders, enabled>>,
         \A d \in Requests \ {r} : pc'[d] = pc[d] /\ chain'[d] = chain[d],
         \/ pc[r] \notin AtWork /\ pc'[r] \notin AtWork
         \/ ~enabled /\ pc'[r] \notin {"waiting", "granted"}
         \/ /\ pc'[r] \in {"fetching", "reading"} /\ chain'[r] = chain[r]
            /\ pc[r] \in AtWork /\ (enabled => r \in holders[Head(chain[r])])
  PROVE  Counted' /\ Held' /\ Queued'
  <1>1. Counted'
    BY DEF LlmIInv, Counted
  <1>2. \A p \in P : r \in holders[p] => pc'[r] \in AtWork /\ chain'[r] = chain[r]
    BY DEF LlmIInv, Held, AtWork
  <1>3. Held'
    <2>1. ASSUME NEW p \in P, NEW d \in holders[p]  PROVE enabled /\ pc'[d] \in AtWork /\ Head(chain'[d]) = p
      <3>1. d \in Requests
        BY DEF LlmIInv, Counted
      <3> QED  BY <1>2, <3>1 DEF LlmIInv, Held
    <2>2. ASSUME NEW d \in Requests, enabled, pc'[d] \in {"granted", "fetching", "reading"}
          PROVE  d \in holders[Head(chain'[d])]
      BY <2>2 DEF LlmIInv, Held, AtWork
    <2> QED  BY <2>1, <2>2 DEF Held
  <1>4. ASSUME NEW p \in P, NEW n \in 1..Len(queues[p])
        PROVE  queues[p][n] \in Requests \ {r}
    <2>1. queues[p][n] \in Requests
      BY DEF LlmIInv, Counted
    <2>2. enabled /\ pc[queues[p][n]] = "waiting" /\ Head(chain[queues[p][n]]) = p /\ queues[p][n] \notin holders[p]
      BY DEF LlmIInv, Queued
    <2> QED  BY <2>1, <2>2 DEF AtWork
  <1>5. Queued'
    <2>1. ASSUME NEW p \in P, NEW n \in 1..Len(queues[p])
          PROVE  /\ enabled /\ pc'[queues[p][n]] = "waiting" /\ Head(chain'[queues[p][n]]) = p
                 /\ queues[p][n] \notin holders[p]
      BY <1>4 DEF LlmIInv, Queued
    <2>2. ASSUME NEW d \in Requests, pc'[d] = "waiting"
          PROVE  \/ d \in holders[Head(chain'[d])]
                 \/ \E n \in 1..Len(queues[Head(chain'[d])]) : queues[Head(chain'[d])][n] = d
      <3>1. d # r
        BY <2>2 DEF LlmIInv, AtWork
      <3> QED  BY <2>2, <3>1 DEF LlmIInv, Queued
    <2>3. ASSUME NEW d \in Requests, pc'[d] \in {"waiting", "granted"}  PROVE enabled
      BY <2>3 DEF LlmIInv, Queued, AtWork
    <2> QED  BY <2>1, <2>2, <2>3 DEF Queued, LlmIInv
  <1> QED  BY <1>1, <1>3, <1>5

\* acquire with a free slot.
LEMMA TakeKept ==
  ASSUME LlmIInv, NEW r \in Requests, NEW p \in P, pc[r] = "dispatch", Head(chain[r]) = p,
         enabled, slots[p] < Slots[p], UNCHANGED <<queues, enabled>>,
         slots' = [slots EXCEPT ![p] = @ + 1], holders' = [holders EXCEPT ![p] = @ \cup {r}],
         \A d \in Requests \ {r} : pc'[d] = pc[d] /\ chain'[d] = chain[d],
         pc'[r] = "granted", chain'[r] = chain[r]
  PROVE  Counted' /\ Held' /\ Queued'
  <1>0. /\ slots \in [P -> Nat] /\ holders \in [P -> SUBSET Requests] /\ queues \in [P -> Seq(Requests)]
        /\ slots[p] = Cardinality(holders[p])
    BY DEF LlmIInv, Counted
  <1>1. \A q \in P : r \notin holders[q]
    BY DEF LlmIInv, Held, AtWork
  <1>2. /\ \A q \in P \ {p} : slots'[q] = slots[q] /\ holders'[q] = holders[q]
        /\ slots'[p] = slots[p] + 1 /\ holders'[p] = holders[p] \cup {r}
    BY <1>0
  <1>3. Counted'
    <2>1. slots'[p] = Cardinality(holders'[p])
      <3>1. holders[p] \in SUBSET Requests /\ r \notin holders[p]
        BY <1>0, <1>1
      <3>2. Cardinality(holders[p] \cup {r}) = Cardinality(holders[p]) + 1
        BY <3>1, HoldersCount
      <3> QED  BY <1>0, <1>2, <3>2
    <2>2. slots'[p] <= Slots[p]
      BY <1>0, <1>2, LlmConstants
    <2>3. slots' \in [P -> Nat] /\ holders' \in [P -> SUBSET Requests]
      BY <1>0
    <2> QED  BY <1>2, <2>1, <2>2, <2>3 DEF LlmIInv, Counted
  <1>4. Held'
    <2>1. ASSUME NEW q \in P, NEW d \in holders'[q]  PROVE enabled /\ pc'[d] \in AtWork /\ Head(chain'[d]) = q
      <3>1. CASE d = r
        BY <1>1, <1>2, <3>1 DEF AtWork
      <3>2. CASE d # r
        <4>1. d \in holders[q] /\ d \in Requests
          BY <1>0, <1>2, <3>2
        <4> QED  BY <4>1, <3>2 DEF LlmIInv, Held
      <3> QED  BY <3>1, <3>2
    <2>2. ASSUME NEW d \in Requests, pc'[d] \in {"granted", "fetching", "reading"}
          PROVE  d \in holders'[Head(chain'[d])]
      <3>1. CASE d = r
        BY <1>2, <3>1
      <3>2. CASE d # r
        <4>1. d \in holders[Head(chain[d])] /\ Head(chain[d]) = Head(chain'[d])
          BY <2>2, <3>2 DEF LlmIInv, Held
        <4>2. Head(chain[d]) \in P
          BY <2>2, <3>2, AtProvider DEF AtWork
        <4> QED  BY <1>2, <4>1, <4>2
      <3> QED  BY <3>1, <3>2
    <2> QED  BY <2>1, <2>2 DEF Held
  <1>5. ASSUME NEW q \in P, NEW n \in 1..Len(queues[q])
        PROVE  queues[q][n] \in Requests \ {r}
    <2>1. queues[q][n] \in Requests
      BY <1>0
    <2>2. pc[queues[q][n]] = "waiting"
      BY DEF LlmIInv, Queued
    <2> QED  BY <2>1, <2>2
  <1>6. Queued'
    <2>1. ASSUME NEW q \in P, NEW n \in 1..Len(queues[q])
          PROVE  /\ enabled /\ pc'[queues[q][n]] = "waiting" /\ Head(chain'[queues[q][n]]) = q
                 /\ queues[q][n] \notin holders'[q]
      BY <1>2, <1>5 DEF LlmIInv, Queued
    <2>2. ASSUME NEW d \in Requests, pc'[d] = "waiting"
          PROVE  \/ d \in holders'[Head(chain'[d])]
                 \/ \E n \in 1..Len(queues[Head(chain'[d])]) : queues[Head(chain'[d])][n] = d
      <3>1. d # r /\ Head(chain'[d]) \in P
        BY <2>2, AtProvider DEF AtWork
      <3> QED  BY <1>2, <2>2, <3>1 DEF LlmIInv, Queued
    <2> QED  BY <2>1, <2>2 DEF Queued, LlmIInv
  <1> QED  BY <1>3, <1>4, <1>6

\* acquire without one: the request goes to the end of the queue.
LEMMA QueueKept ==
  ASSUME LlmIInv, NEW r \in Requests, NEW p \in P, pc[r] = "dispatch", Head(chain[r]) = p,
         enabled, UNCHANGED <<slots, holders, enabled>>,
         queues' = [queues EXCEPT ![p] = Append(@, r)],
         \A d \in Requests \ {r} : pc'[d] = pc[d] /\ chain'[d] = chain[d],
         pc'[r] = "waiting", chain'[r] = chain[r]
  PROVE  Counted' /\ Held' /\ Queued'
  <1>0. /\ holders \in [P -> SUBSET Requests] /\ queues \in [P -> Seq(Requests)]
        /\ queues[p] \in Seq(Requests) /\ Len(queues[p]) \in Nat
    BY DEF LlmIInv, Counted
  <1>1. \A q \in P : r \notin holders[q]
    BY DEF LlmIInv, Held, AtWork
  <1>2. /\ queues' \in [P -> Seq(Requests)] /\ \A q \in P \ {p} : queues'[q] = queues[q]
        /\ queues'[p] = Append(queues[p], r)
    BY <1>0
  <1>3. /\ Len(queues'[p]) = Len(queues[p]) + 1 /\ queues'[p][Len(queues[p]) + 1] = r
        /\ \A n \in 1..Len(queues[p]) : queues'[p][n] = queues[p][n]
    BY <1>0, <1>2
  <1>4. Counted'
    BY <1>2 DEF LlmIInv, Counted
  <1>5. Held'
    <2>1. ASSUME NEW q \in P, NEW d \in holders[q]  PROVE enabled /\ pc'[d] \in AtWork /\ Head(chain'[d]) = q
      <3>1. d \in Requests \ {r}
        BY <1>0, <1>1
      <3> QED  BY <3>1 DEF LlmIInv, Held
    <2>2. ASSUME NEW d \in Requests, pc'[d] \in {"granted", "fetching", "reading"}
          PROVE  d \in holders[Head(chain'[d])]
      BY <2>2 DEF LlmIInv, Held
    <2> QED  BY <2>1, <2>2 DEF Held
  <1>6. ASSUME NEW q \in P, NEW n \in 1..Len(queues[q])
        PROVE  /\ queues[q][n] \in Requests \ {r} /\ pc[queues[q][n]] = "waiting"
               /\ Head(chain[queues[q][n]]) = q /\ queues[q][n] \notin holders[q]
    <2>1. queues[q][n] \in Requests
      BY <1>0
    <2> QED  BY <2>1 DEF LlmIInv, Queued
  <1>7. ASSUME NEW q \in P, NEW n \in 1..Len(queues'[q])
        PROVE  \/ queues'[q][n] = r /\ q = p /\ n = Len(queues[p]) + 1
               \/ n \in 1..Len(queues[q]) /\ queues'[q][n] = queues[q][n]
    BY <1>0, <1>2, <1>3
  <1>8. Queued'
    <2>1. ASSUME NEW q \in P, NEW n \in 1..Len(queues'[q])
          PROVE  /\ enabled /\ pc'[queues'[q][n]] = "waiting" /\ Head(chain'[queues'[q][n]]) = q
                 /\ queues'[q][n] \notin holders[q]
      BY <1>1, <1>6, <1>7
    <2>2. ASSUME NEW q \in P, NEW m \in 1..Len(queues'[q]), NEW n \in 1..Len(queues'[q]),
                 queues'[q][m] = queues'[q][n]
          PROVE  m = n
      <3>1. CASE m \in 1..Len(queues[q]) /\ n \in 1..Len(queues[q]) /\ queues'[q][m] = queues[q][m]
                 /\ queues'[q][n] = queues[q][n]
        BY <2>2, <3>1 DEF LlmIInv, Queued
      <3> QED  BY <2>2, <3>1, <1>6, <1>7
    <2>3. ASSUME NEW d \in Requests, pc'[d] = "waiting"
          PROVE  \/ d \in holders[Head(chain'[d])]
                 \/ \E n \in 1..Len(queues'[Head(chain'[d])]) : queues'[Head(chain'[d])][n] = d
      <3>1. CASE d = r
        BY <3>1, <1>0, <1>3
      <3>2. CASE d # r
        <4>1. Head(chain[d]) \in P /\ pc[d] = "waiting" /\ chain'[d] = chain[d]
          BY <2>3, <3>2, AtProvider DEF AtWork
        <4>2. CASE d \in holders[Head(chain[d])]
          BY <4>1, <4>2
        <4>3. CASE \E n \in 1..Len(queues[Head(chain[d])]) : queues[Head(chain[d])][n] = d
          <5>1. PICK n \in 1..Len(queues[Head(chain[d])]) : queues[Head(chain[d])][n] = d
            BY <4>3
          <5>2. n \in 1..Len(queues'[Head(chain[d])]) /\ queues'[Head(chain[d])][n] = d
            BY <5>1, <4>1, <1>0, <1>2, <1>3
          <5> QED  BY <5>2, <4>1
        <4> QED  BY <4>1, <4>2, <4>3 DEF LlmIInv, Queued
      <3> QED  BY <3>1, <3>2
    <2>4. ASSUME NEW d \in Requests, pc'[d] \in {"waiting", "granted"}  PROVE enabled
      OBVIOUS
    <2> QED  BY <2>1, <2>2, <2>3, <2>4 DEF Queued
  <1> QED  BY <1>4, <1>5, <1>8

\* What is left of a queue without its n-th waiter.
LEMMA WithoutFacts ==
  ASSUME NEW s \in Seq(Requests), NEW n \in 1..Len(s)
  PROVE  /\ Llm!Without(s, n) \in Seq(Requests) /\ Len(Llm!Without(s, n)) = Len(s) - 1
         /\ \A m \in 1..(Len(s) - 1) : Llm!Without(s, n)[m] = s[IF m < n THEN m ELSE m + 1]
  <1>1. Len(s) \in Nat /\ n \in Nat /\ n >= 1 /\ Len(s) - 1 \in Nat
    OBVIOUS
  <1>2. \A m \in 1..(Len(s) - 1) : s[IF m < n THEN m ELSE m + 1] \in Requests
    BY <1>1
  <1>3. Llm!Without(s, n) = [m \in 1..(Len(s) - 1) |-> s[IF m < n THEN m ELSE m + 1]]
    BY DEF Llm!Without
  <1>4. Llm!Without(s, n) \in [1..(Len(s) - 1) -> Requests]
    BY <1>2, <1>3
  <1>5. Llm!Without(s, n) \in Seq(Requests) /\ Len(Llm!Without(s, n)) = Len(s) - 1
    BY <1>1, <1>4
  <1> QED  BY <1>3, <1>5

\* The timer of a waiter.
LEMMA LeaveKept ==
  ASSUME LlmIInv, NEW r \in Requests, NEW p \in P, NEW k \in 1..Len(queues[p]), queues[p][k] = r,
         UNCHANGED <<slots, holders, enabled>>,
         queues' = [queues EXCEPT ![p] = Llm!Without(@, k)],
         \A d \in Requests \ {r} : pc'[d] = pc[d] /\ chain'[d] = chain[d],
         pc'[r] \notin AtWork
  PROVE  Counted' /\ Held' /\ Queued'
  <1>0. /\ holders \in [P -> SUBSET Requests] /\ queues \in [P -> Seq(Requests)]
        /\ queues[p] \in Seq(Requests) /\ Len(queues[p]) \in Nat
    BY DEF LlmIInv, Counted
  <1>1. pc[r] = "waiting" /\ Head(chain[r]) = p /\ r \notin holders[p]
    BY DEF LlmIInv, Queued
  <1>2. /\ queues' \in [P -> Seq(Requests)] /\ \A q \in P \ {p} : queues'[q] = queues[q]
        /\ queues'[p] = Llm!Without(queues[p], k) /\ Len(queues'[p]) = Len(queues[p]) - 1
        /\ \A n \in 1..(Len(queues[p]) - 1) : queues'[p][n] = queues[p][IF n < k THEN n ELSE n + 1]
    BY <1>0, WithoutFacts
  <1>3. Counted'
    BY <1>2 DEF LlmIInv, Counted
  <1>4. \A q \in P : r \notin holders[q]
    BY <1>1 DEF LlmIInv, Held
  <1>5. Held'
    <2>1. ASSUME NEW q \in P, NEW d \in holders[q]  PROVE enabled /\ pc'[d] \in AtWork /\ Head(chain'[d]) = q
      <3>1. d \in Requests \ {r}
        BY <1>0, <1>4
      <3> QED  BY <3>1 DEF LlmIInv, Held
    <2>2. ASSUME NEW d \in Requests, pc'[d] \in {"granted", "fetching", "reading"}, enabled
          PROVE  d \in holders[Head(chain'[d])]
      <3>1. d # r
        BY <2>2 DEF AtWork
      <3> QED  BY <2>2, <3>1 DEF LlmIInv, Held
    <2> QED  BY <2>1, <2>2 DEF Held
  <1>6. ASSUME NEW q \in P, NEW n \in 1..Len(queues[q])
        PROVE  /\ queues[q][n] \in Requests /\ enabled /\ pc[queues[q][n]] = "waiting"
               /\ Head(chain[queues[q][n]]) = q /\ queues[q][n] \notin holders[q]
               /\ (queues[q][n] = r => q = p /\ n = k)
    <2>1. queues[q][n] \in Requests
      BY <1>0
    <2> QED  BY <2>1, <1>1 DEF LlmIInv, Queued
  <1>7. ASSUME NEW n \in 1..Len(queues'[p])
        PROVE  \E m \in 1..Len(queues[p]) : /\ m = (IF n < k THEN n ELSE n + 1) /\ m # k
                                            /\ queues'[p][n] = queues[p][m]
    BY <1>0, <1>2
  <1>8. Queued'
    <2>1. ASSUME NEW q \in P, NEW n \in 1..Len(queues'[q])
          PROVE  /\ enabled /\ pc'[queues'[q][n]] = "waiting" /\ Head(chain'[queues'[q][n]]) = q
                 /\ queues'[q][n] \notin holders[q]
      <3>1. PICK m \in 1..Len(queues[q]) : queues'[q][n] = queues[q][m] /\ (q = p => m # k)
        BY <1>2, <1>7
      <3>2. queues[q][m] # r /\ queues[q][m] \in Requests
        BY <3>1, <1>6
      <3> QED  BY <3>1, <3>2, <1>6
    <2>2. ASSUME NEW q \in P, NEW m \in 1..Len(queues'[q]), NEW n \in 1..Len(queues'[q]),
                 queues'[q][m] = queues'[q][n]
          PROVE  m = n
      <3>1. CASE q = p
        <4>1. PICK i \in 1..Len(queues[p]) : i = (IF m < k THEN m ELSE m + 1) /\ queues'[p][m] = queues[p][i]
          BY <3>1, <1>7
        <4>2. PICK j \in 1..Len(queues[p]) : j = (IF n < k THEN n ELSE n + 1) /\ queues'[p][n] = queues[p][j]
          BY <3>1, <1>7
        <4>3. i = j
          BY <4>1, <4>2, <2>2, <3>1 DEF LlmIInv, Queued
        <4> QED  BY <4>1, <4>2, <4>3, <1>0, <1>2, <3>1
      <3>2. CASE q # p
        BY <2>2, <3>2, <1>2 DEF LlmIInv, Queued
      <3> QED  BY <3>1, <3>2
    <2>3. ASSUME NEW d \in Requests, pc'[d] = "waiting"
          PROVE  \/ d \in holders[Head(chain'[d])]
                 \/ \E n \in 1..Len(queues'[Head(chain'[d])]) : queues'[Head(chain'[d])][n] = d
      <3>1. d # r /\ pc[d] = "waiting" /\ chain'[d] = chain[d]
        BY <2>3 DEF AtWork
      <3>2. Head(chain[d]) \in P
        BY <3>1, AtProvider DEF AtWork
      <3>3. CASE d \in holders[Head(chain[d])]
        BY <3>1, <3>3
      <3>4. CASE \E n \in 1..Len(queues[Head(chain[d])]) : queues[Head(chain[d])][n] = d
        <4>1. PICK n \in 1..Len(queues[Head(chain[d])]) : queues[Head(chain[d])][n] = d
          BY <3>4
        <4>2. CASE Head(chain[d]) # p
          BY <4>1, <4>2, <3>1, <3>2, <1>2
        <4>3. CASE Head(chain[d]) = p
          <5>1. n # k /\ n \in 1..Len(queues[p])
            BY <4>1, <4>3, <3>1
          <5> DEFINE j == IF n < k THEN n ELSE n - 1
          <5>2. j \in 1..(Len(queues[p]) - 1) /\ (IF j < k THEN j ELSE j + 1) = n
            BY <5>1, <1>0
          <5>3. queues'[p][j] = d /\ j \in 1..Len(queues'[p])
            BY <5>2, <1>2, <4>1, <4>3
          <5> QED  BY <5>3, <3>1, <4>3
        <4> QED  BY <4>2, <4>3
      <3> QED  BY <3>1, <3>3, <3>4 DEF LlmIInv, Queued
    <2>4. ASSUME NEW d \in Requests, pc'[d] \in {"waiting", "granted"}  PROVE enabled
      <3>1. d # r
        BY <2>4 DEF AtWork
      <3> QED  BY <2>4, <3>1 DEF LlmIInv, Queued
    <2> QED  BY <2>1, <2>2, <2>3, <2>4 DEF Queued
  <1> QED  BY <1>3, <1>5, <1>8

\* release with somebody waiting: the slot changes hands, the counter does not move.
LEMMA HandOverKept ==
  ASSUME LlmIInv, NEW r \in Requests, NEW p \in P, r \in holders[p], queues[p] # <<>>,
         UNCHANGED <<slots, enabled>>, queues' = [queues EXCEPT ![p] = Tail(@)],
         holders' = [holders EXCEPT ![p] = (@ \ {r}) \cup {Head(queues[p])}],
         \A d \in Requests \ {r} : pc'[d] = pc[d] /\ chain'[d] = chain[d],
         pc'[r] \notin AtWork
  PROVE  Counted' /\ Held' /\ Queued'
  <1> DEFINE w == Head(queues[p])
  <1>0. /\ holders \in [P -> SUBSET Requests] /\ queues \in [P -> Seq(Requests)]
        /\ queues[p] \in Seq(Requests) /\ Len(queues[p]) \in Nat /\ 1 \in 1..Len(queues[p])
        /\ w = queues[p][1] /\ w \in Requests
    BY DEF LlmIInv, Counted
  <1>1. enabled /\ pc[w] = "waiting" /\ Head(chain[w]) = p /\ w \notin holders[p]
    BY <1>0 DEF LlmIInv, Queued
  <1>2. w # r
    BY <1>1
  <1>3. \A q \in P \ {p} : r \notin holders[q]
    BY DEF LlmIInv, Held
  <1>4. /\ queues' \in [P -> Seq(Requests)] /\ holders' \in [P -> SUBSET Requests]
        /\ \A q \in P \ {p} : queues'[q] = queues[q] /\ holders'[q] = holders[q]
        /\ queues'[p] = Tail(queues[p]) /\ holders'[p] = (holders[p] \ {r}) \cup {w}
    BY <1>0
  <1>5. /\ Len(queues'[p]) = Len(queues[p]) - 1
        /\ \A n \in 1..(Len(queues[p]) - 1) : queues'[p][n] = queues[p][n + 1]
    BY <1>0, <1>4
  <1> HIDE DEF w
  <1>6. Counted'
    <2>1. holders[p] \in SUBSET Requests /\ holders[p] \ {r} \in SUBSET Requests /\ w \notin holders[p] \ {r}
      BY <1>0, <1>1
    <2>2. Cardinality(holders[p] \ {r}) = Cardinality(holders[p]) - 1 /\ Cardinality(holders[p]) \in Nat
      BY <2>1, HoldersCount
    <2>3. Cardinality((holders[p] \ {r}) \cup {w}) = Cardinality(holders[p] \ {r}) + 1
      BY <1>0, <2>1, HoldersCount
    <2>4. Cardinality(holders'[p]) = Cardinality(holders[p])
      <3>1. Cardinality((holders[p] \ {r}) \cup {w}) = Cardinality(holders[p])
        BY <2>2, <2>3
      <3>2. holders'[p] = (holders[p] \ {r}) \cup {w}
        BY <1>4
      <3> QED  BY <3>1, <3>2, Zenon
    <2> QED  BY <1>4, <2>4 DEF LlmIInv, Counted
  <1>7. Held'
    <2>1. ASSUME NEW q \in P, NEW d \in holders'[q]  PROVE enabled /\ pc'[d] \in AtWork /\ Head(chain'[d]) = q
      <3>1. CASE d = w
        <4>1. q = p
          BY <3>1, <1>1, <1>4 DEF LlmIInv, Held
        <4> QED  BY <3>1, <4>1, <1>0, <1>1, <1>2 DEF AtWork
      <3>2. CASE d # w
        <4>1. d \in holders[q] /\ d \in Requests \ {r}
          BY <3>2, <1>0, <1>3, <1>4
        <4> QED  BY <4>1 DEF LlmIInv, Held
      <3> QED  BY <3>1, <3>2
    <2>2. ASSUME NEW d \in Requests, pc'[d] \in {"granted", "fetching", "reading"}, enabled
          PROVE  d \in holders'[Head(chain'[d])]
      <3>1. d # r
        BY <2>2 DEF AtWork
      <3>2. d \in holders[Head(chain[d])] /\ chain'[d] = chain[d]
        BY <2>2, <3>1 DEF LlmIInv, Held
      <3>3. Head(chain[d]) \in P
        BY <2>2, <3>1, AtProvider DEF AtWork
      <3> QED  BY <3>1, <3>2, <3>3, <1>4
    <2> QED  BY <2>1, <2>2 DEF Held
  <1>8. ASSUME NEW q \in P, NEW n \in 1..Len(queues[q])
        PROVE  /\ queues[q][n] \in Requests \ {r} /\ pc[queues[q][n]] = "waiting"
               /\ Head(chain[queues[q][n]]) = q /\ queues[q][n] \notin holders[q]
               /\ (queues[q][n] = w => q = p /\ n = 1)
    <2>1. queues[q][n] \in Requests
      BY <1>0
    <2>2. Head(chain[queues[q][n]]) = q /\ queues[q][n] \notin holders[q] /\ pc[queues[q][n]] = "waiting"
      BY DEF LlmIInv, Queued
    <2>3. queues[q][n] # r
      BY <2>2 DEF LlmIInv, Held
    <2>4. queues[q][n] = w => q = p /\ n = 1
      BY <2>2, <1>0, <1>1 DEF LlmIInv, Queued
    <2> QED  BY <2>1, <2>2, <2>3, <2>4
  <1>9. ASSUME NEW n \in 1..Len(queues'[p])
        PROVE  n + 1 \in 1..Len(queues[p]) /\ n + 1 # 1 /\ queues'[p][n] = queues[p][n + 1]
    BY <1>0, <1>5
  <1>10. Queued'
    <2>1. ASSUME NEW q \in P, NEW n \in 1..Len(queues'[q])
          PROVE  /\ enabled' /\ pc'[queues'[q][n]] = "waiting" /\ Head(chain'[queues'[q][n]]) = q
                 /\ queues'[q][n] \notin holders'[q]
      <3>1. PICK m \in 1..Len(queues[q]) : queues'[q][n] = queues[q][m] /\ (q = p => m # 1)
        BY <1>4, <1>9
      <3>2. queues[q][m] \in Requests \ {r} /\ queues[q][m] # w
        BY <3>1, <1>8
      <3>3. queues[q][m] \notin holders'[q]
        BY <3>2, <1>4, <1>8
      <3> QED  BY <3>1, <3>2, <3>3, <1>1, <1>8
    <2>2. ASSUME NEW q \in P, NEW m \in 1..Len(queues'[q]), NEW n \in 1..Len(queues'[q]),
                 queues'[q][m] = queues'[q][n]
          PROVE  m = n
      <3>1. CASE q = p
        <4>1. m + 1 = n + 1
          BY <2>2, <3>1, <1>9 DEF LlmIInv, Queued
        <4>2. m \in Nat /\ n \in Nat
          BY <3>1, <1>0, <1>5
        <4> QED  BY <4>1, <4>2
      <3>2. CASE q # p
        BY <2>2, <3>2, <1>4 DEF LlmIInv, Queued
      <3> QED  BY <3>1, <3>2
    <2>3. ASSUME NEW d \in Requests, pc'[d] = "waiting"
          PROVE  \/ d \in holders'[Head(chain'[d])]
                 \/ \E n \in 1..Len(queues'[Head(chain'[d])]) : queues'[Head(chain'[d])][n] = d
      <3>1. d # r /\ pc[d] = "waiting" /\ chain'[d] = chain[d]
        BY <2>3 DEF AtWork
      <3>2. Head(chain[d]) \in P
        BY <3>1, AtProvider DEF AtWork
      <3>3. CASE d \in holders[Head(chain[d])] \/ d = w
        BY <3>1, <3>2, <3>3, <1>1, <1>4
      <3>4. CASE d # w /\ \E n \in 1..Len(queues[Head(chain[d])]) : queues[Head(chain[d])][n] = d
        <4>1. PICK n \in 1..Len(queues[Head(chain[d])]) : queues[Head(chain[d])][n] = d
          BY <3>4
        <4>2. CASE Head(chain[d]) # p
          BY <4>1, <4>2, <3>1, <3>2, <1>4
        <4>3. CASE Head(chain[d]) = p
          <5>1. n # 1 /\ n \in 1..Len(queues[p])
            BY <4>1, <4>3, <3>4, <1>0
          <5>2. n - 1 \in 1..(Len(queues[p]) - 1) /\ (n - 1) + 1 = n
            BY <5>1, <1>0
          <5>3. queues'[p][n - 1] = d /\ n - 1 \in 1..Len(queues'[p])
            BY <5>2, <1>5, <4>1, <4>3
          <5> QED  BY <5>3, <3>1, <4>3
        <4> QED  BY <4>2, <4>3
      <3> QED  BY <3>1, <3>3, <3>4 DEF LlmIInv, Queued
    <2>4. ASSUME NEW d \in Requests, pc'[d] \in {"waiting", "granted"}  PROVE enabled'
      BY <1>1
    <2>6. (\A q \in P : \A n \in 1..Len(queues[q]) :
             LET d == queues[q][n] IN enabled /\ pc[d] = "waiting" /\ Head(chain[d]) = q /\ d \notin holders[q])'
      BY <2>1
    <2>7. (\A q \in P : \A m, n \in 1..Len(queues[q]) : queues[q][m] = queues[q][n] => m = n)'
      BY <2>2
    <2>8. (\A d \in Requests : pc[d] = "waiting" =>
             \/ d \in holders[Head(chain[d])]
             \/ \E n \in 1..Len(queues[Head(chain[d])]) : queues[Head(chain[d])][n] = d)'
      BY <2>3
    <2>9. (\A d \in Requests : pc[d] \in {"waiting", "granted"} => enabled)'
      BY <2>4
    <2> QED  BY <2>6, <2>7, <2>8, <2>9, Zenon DEF Queued
  <1> QED  BY <1>6, <1>7, <1>10

\* release with nobody waiting.
LEMMA FreeKept ==
  ASSUME LlmIInv, NEW r \in Requests, NEW p \in P, r \in holders[p], UNCHANGED <<queues, enabled>>,
         slots' = [slots EXCEPT ![p] = @ - 1], holders' = [holders EXCEPT ![p] = @ \ {r}],
         \A d \in Requests \ {r} : pc'[d] = pc[d] /\ chain'[d] = chain[d],
         pc'[r] \notin AtWork
  PROVE  Counted' /\ Held' /\ Queued'
  <1>0. /\ holders \in [P -> SUBSET Requests] /\ queues \in [P -> Seq(Requests)] /\ slots \in [P -> Nat]
        /\ slots[p] = Cardinality(holders[p]) /\ slots[p] <= Slots[p] /\ Slots[p] \in Nat
    BY LlmConstants DEF LlmIInv, Counted
  <1>1. \A q \in P \ {p} : r \notin holders[q]
    BY DEF LlmIInv, Held
  <1>2. /\ \A q \in P \ {p} : slots'[q] = slots[q] /\ holders'[q] = holders[q]
        /\ slots'[p] = slots[p] - 1 /\ holders'[p] = holders[p] \ {r}
    BY <1>0
  <1>3. Counted'
    <2>1. Cardinality(holders[p] \ {r}) = Cardinality(holders[p]) - 1 /\ Cardinality(holders[p] \ {r}) \in Nat
      <3>1. holders[p] \in SUBSET Requests /\ holders[p] \ {r} \in SUBSET Requests
        BY <1>0
      <3> QED  BY <3>1, HoldersCount
    <2>2. slots'[p] = Cardinality(holders'[p]) /\ slots'[p] \in Nat /\ slots'[p] <= Slots[p]
      BY <1>0, <1>2, <2>1
    <2>3. slots' \in [P -> Nat] /\ holders' \in [P -> SUBSET Requests]
      BY <1>0, <1>2, <2>2
    <2> QED  BY <1>2, <2>2, <2>3 DEF LlmIInv, Counted
  <1>4. Held'
    <2>1. ASSUME NEW q \in P, NEW d \in holders'[q]  PROVE enabled /\ pc'[d] \in AtWork /\ Head(chain'[d]) = q
      <3>1. d \in holders[q] /\ d \in Requests \ {r}
        BY <1>0, <1>1, <1>2
      <3> QED  BY <3>1 DEF LlmIInv, Held
    <2>2. ASSUME NEW d \in Requests, pc'[d] \in {"granted", "fetching", "reading"}, enabled
          PROVE  d \in holders'[Head(chain'[d])]
      <3>1. d # r
        BY <2>2 DEF AtWork
      <3>2. d \in holders[Head(chain[d])] /\ chain'[d] = chain[d]
        BY <2>2, <3>1 DEF LlmIInv, Held
      <3>3. Head(chain[d]) \in P
        BY <2>2, <3>1, AtProvider DEF AtWork
      <3> QED  BY <3>1, <3>2, <3>3, <1>2
    <2> QED  BY <2>1, <2>2 DEF Held
  <1>5. ASSUME NEW q \in P, NEW n \in 1..Len(queues[q])
        PROVE  queues[q][n] \in Requests \ {r}
    <2>1. queues[q][n] \in Requests
      BY <1>0
    <2>2. Head(chain[queues[q][n]]) = q /\ queues[q][n] \notin holders[q]
      BY DEF LlmIInv, Queued
    <2> QED  BY <2>1, <2>2 DEF LlmIInv, Held
  <1>6. Queued'
    <2>1. ASSUME NEW q \in P, NEW n \in 1..Len(queues[q])
          PROVE  /\ enabled /\ pc'[queues[q][n]] = "waiting" /\ Head(chain'[queues[q][n]]) = q
                 /\ queues[q][n] \notin holders'[q]
      <3>1. queues[q][n] \notin holders'[q]
        BY <1>2 DEF LlmIInv, Queued
      <3> QED  BY <1>5, <3>1 DEF LlmIInv, Queued
    <2>2. ASSUME NEW d \in Requests, pc'[d] = "waiting"
          PROVE  \/ d \in holders'[Head(chain'[d])]
                 \/ \E n \in 1..Len(queues[Head(chain'[d])]) : queues[Head(chain'[d])][n] = d
      <3>1. d # r /\ pc[d] = "waiting" /\ chain'[d] = chain[d]
        BY <2>2 DEF AtWork
      <3>2. Head(chain[d]) \in P
        BY <3>1, AtProvider DEF AtWork
      <3> QED  BY <1>2, <3>1, <3>2 DEF LlmIInv, Queued
    <2>3. ASSUME NEW d \in Requests, pc'[d] \in {"waiting", "granted"}  PROVE enabled
      <3>1. d # r
        BY <2>3 DEF AtWork
      <3> QED  BY <2>3, <3>1 DEF LlmIInv, Queued
    <2> QED  BY <2>1, <2>2, <2>3 DEF Queued, LlmIInv
  <1> QED  BY <1>3, <1>4, <1>6

\* A request that is done with its provider gives back what it has.
LEMMA ReleaseKept ==
  ASSUME LlmIInv, NEW r \in Requests, pc[r] \in AtWork, enabled => r \in holders[Head(chain[r])],
         Llm!Release(Head(chain[r]), r), UNCHANGED enabled,
         \A d \in Requests \ {r} : pc'[d] = pc[d] /\ chain'[d] = chain[d],
         pc'[r] \notin AtWork
  PROVE  Counted' /\ Held' /\ Queued'
  <1> DEFINE p == Head(chain[r])
  <1>1. p \in P
    BY AtProvider
  <1>2. CASE ~enabled
    <2>1. UNCHANGED <<slots, queues, holders, enabled>> /\ pc'[r] \notin {"waiting", "granted"}
      BY <1>2 DEF Llm!Release, Llm!semaphores, AtWork
    <2> QED  BY <1>2, <2>1, UntouchedKept
  <1>3. CASE enabled /\ queues[p] # <<>>
    <2>1. /\ queues' = [queues EXCEPT ![p] = Tail(@)] /\ UNCHANGED slots
          /\ holders' = [holders EXCEPT ![p] = (@ \ {r}) \cup {Head(queues[p])}]
      BY <1>3 DEF Llm!Release
    <2> QED  BY <1>1, <1>3, <2>1, HandOverKept
  <1>4. CASE enabled /\ queues[p] = <<>>
    <2>1. /\ slots' = [slots EXCEPT ![p] = @ - 1] /\ holders' = [holders EXCEPT ![p] = @ \ {r}]
          /\ UNCHANGED queues
      BY <1>4 DEF Llm!Release
    <2> QED  BY <1>1, <1>4, <2>1, FreeKept
  <1>5. enabled \in BOOLEAN
    BY DEF LlmIInv, Counted
  <1> QED  BY <1>2, <1>3, <1>4, <1>5

\* A place that is written, or left alone.
LEMMA PlacePut ==
  ASSUME NEW f, f = [d \in Requests |-> f[d]], NEW r \in Requests
  PROVE  /\ f = [f EXCEPT ![r] = f[r]]
         /\ \A v : /\ [f EXCEPT ![r] = v][r] = v
                   /\ [f EXCEPT ![r] = v] = [f EXCEPT ![r] = [f EXCEPT ![r] = v][r]]
  <1>1. f = [f EXCEPT ![r] = f[r]]
    OBVIOUS
  <1>2. ASSUME NEW v  PROVE [f EXCEPT ![r] = v][r] = v
    OBVIOUS
  <1> QED  BY <1>1, <1>2

\* A request that stays where it is, but for its phase, its chain and its timer.
LEMMA MoveStands ==
  ASSUME LlmIInv, NEW r \in Requests, NEW phase, NEW c, NEW n, NEW b,
         pc' = [pc EXCEPT ![r] = phase], chain' = [chain EXCEPT ![r] = c],
         timer' = [timer EXCEPT ![r] = n], late' = [late EXCEPT ![r] = b],
         UNCHANGED <<entry, left, cooldownUntil>>,
         phase \in Llm!Phases, c \in Seq(P), phase \in AtWork => c # <<>>,
         n \in 0..Llm!Least(ChainTimeout, WaitTimeout + CallTimeout),
         phase \in {"waiting", "fetching"} => n <= left[r],
         b \in BOOLEAN, b => phase = "reading"
  PROVE  /\ Moves(r) /\ Standing(r)' /\ pc'[r] = phase /\ chain'[r] = c
  <1>1. /\ pc'[r] = phase /\ chain'[r] = c /\ timer'[r] = n /\ late'[r] = b
        /\ entry'[r] = entry[r] /\ left'[r] = left[r] /\ cooldownUntil'[r] = cooldownUntil[r]
    BY DEF LlmIInv, Placed
  <1>2. entry = [entry EXCEPT ![r] = entry[r]] /\ left = [left EXCEPT ![r] = left[r]]
    BY PlacePut DEF LlmIInv, Placed
  <1>3. cooldownUntil = [cooldownUntil EXCEPT ![r] = cooldownUntil[r]]
    BY PlacePut DEF LlmIInv, Placed
  <1>4. Moves(r)
    BY <1>1, <1>2, <1>3 DEF Moves
  <1>5. Standing(r)'
    BY <1>1 DEF LlmIInv, Standing
  <1> QED  BY <1>1, <1>4, <1>5

\* A request that ends.
LEMMA FinishStands ==
  ASSUME LlmIInv, NEW r \in Requests, NEW how \in {"done", "failed"}, Llm!Finish(r, how)
  PROVE  /\ Moves(r) /\ Standing(r)' /\ pc'[r] \notin AtWork
  <1>1. /\ pc'[r] = how /\ chain'[r] = <<>> /\ timer'[r] = 0 /\ late'[r] = FALSE
        /\ entry'[r] = 1 /\ left'[r] = 0 /\ cooldownUntil'[r] = [p \in P |-> 0]
    BY DEF LlmIInv, Placed, Llm!Finish, Llm!Goto, P
  <1>2. Moves(r)
    BY <1>1 DEF Moves, Llm!Finish, Llm!Goto, P
  <1>3. 0 \in 0..Llm!Least(ChainTimeout, WaitTimeout + CallTimeout)
    <2>1. WaitTimeout + CallTimeout \in Nat /\ ChainTimeout \in Nat
      BY LlmConstants
    <2> QED  BY <2>1, LlmConstants
  <1>4. [p \in P |-> 0] \in [P -> 0..CooldownTime] /\ <<>> \in Seq(P)
    BY LlmConstants
  <1>5. 1 \in 1..(Len(Entries) + 1) /\ 0 \in 0..ChainTimeout
    BY LlmConstants
  <1>6. how \in Llm!Phases /\ how \notin AtWork
    BY DEF Llm!Phases, AtWork
  <1> HIDE DEF P
  <1>7. Standing(r)'
    BY <1>1, <1>3, <1>4, <1>5, <1>6 DEF Standing
  <1> QED  BY <1>1, <1>2, <1>6, <1>7

\* The time that is left caps a timer.
LEMMA LeastFits ==
  ASSUME LlmIInv, NEW r \in Requests, NEW n \in {WaitTimeout, CallTimeout}
  PROVE  /\ Llm!Least(n, left[r]) \in 0..Llm!Least(ChainTimeout, WaitTimeout + CallTimeout)
         /\ Llm!Least(n, left[r]) <= left[r]
  <1>1. left[r] \in 0..ChainTimeout /\ ChainTimeout \in Nat /\ WaitTimeout \in Nat /\ CallTimeout \in Nat
    BY LlmConstants DEF LlmIInv, Standing
  <1> QED  BY <1>1 DEF Llm!Least

\* The steps that build the chain.
LEMMA BuildSteps ==
  ASSUME LlmIInv, NEW r \in Requests,
         Llm!LlmJson(r) \/ Llm!CheckEntry(r) \/ Llm!ChainBuilt(r)
  PROVE  LlmIInv'
  <1>0. /\ pc[r] \in {"idle", "building"} /\ entry[r] \in 1..(Len(Entries) + 1) /\ chain[r] \in Seq(P)
        /\ cooldownUntil[r] \in [P -> 0..CooldownTime] /\ late[r] = FALSE
        /\ timer[r] \in 0..Llm!Least(ChainTimeout, WaitTimeout + CallTimeout) /\ left[r] \in 0..ChainTimeout
    BY DEF LlmIInv, Standing, Llm!LlmJson, Llm!CheckEntry, Llm!ChainBuilt
  <1>e. /\ pc = [pc EXCEPT ![r] = pc[r]] /\ chain = [chain EXCEPT ![r] = chain[r]]
        /\ entry = [entry EXCEPT ![r] = entry[r]] /\ left = [left EXCEPT ![r] = left[r]]
        /\ timer = [timer EXCEPT ![r] = timer[r]] /\ late = [late EXCEPT ![r] = late[r]]
        /\ cooldownUntil = [cooldownUntil EXCEPT ![r] = cooldownUntil[r]]
    BY PlacePut DEF LlmIInv, Placed
  <1>1. UNCHANGED <<slots, queues, holders, enabled>>
    BY DEF Llm!LlmJson, Llm!CheckEntry, Llm!ChainBuilt, Llm!semaphores
  <1>2. Moves(r) /\ Standing(r)' /\ pc'[r] \notin AtWork
    <2>1. CASE Llm!LlmJson(r) \/ Llm!ChainBuilt(r)
      <3>1. PICK phase \in {"building", "dispatch"} : pc' = [pc EXCEPT ![r] = phase]
        BY <2>1 DEF Llm!LlmJson, Llm!ChainBuilt, Llm!Goto
      <3>2. UNCHANGED <<entry, chain, left, timer, late, cooldownUntil>>
        BY <2>1 DEF Llm!LlmJson, Llm!ChainBuilt
      <3>4. /\ chain' = [chain EXCEPT ![r] = chain[r]] /\ timer' = [timer EXCEPT ![r] = timer[r]]
            /\ late' = [late EXCEPT ![r] = FALSE] /\ UNCHANGED <<entry, left, cooldownUntil>>
        BY <3>2, <1>e, <1>0
      <3>3. phase \in Llm!Phases /\ phase \notin AtWork
        BY DEF Llm!Phases, AtWork
      <3>5. Moves(r) /\ Standing(r)' /\ pc'[r] = phase
        BY <1>0, <3>1, <3>3, <3>4, MoveStands
      <3> QED  BY <3>3, <3>5
    <2>2. CASE Llm!CheckEntry(r)
      <3> DEFINE p == Entries[entry[r]]
                 own == [cooldownUntil[r] EXCEPT ![p] = 0]
      <3>1. /\ pc[r] = "building" /\ entry[r] <= Len(Entries) /\ entry' = [entry EXCEPT ![r] = entry[r] + 1]
            /\ cooldownUntil' = [cooldownUntil EXCEPT ![r] = own]
            /\ chain' = chain \/ chain' = [chain EXCEPT ![r] = Append(chain[r], p)]
            /\ UNCHANGED <<pc, left, timer, late>>
        BY <2>2 DEF Llm!CheckEntry, Llm!CreateProvider
      <3>l. Len(Entries) \in Nat /\ (\A n \in 1..Len(Entries) : Entries[n] \in P) /\ CooldownTime \in Nat
        BY LlmConstants
      <3>2. entry[r] \in 1..Len(Entries) /\ entry[r] + 1 \in 1..(Len(Entries) + 1) /\ p \in P
        <4>1. entry[r] \in 1..(Len(Entries) + 1) /\ entry[r] <= Len(Entries)
          BY <1>0, <3>1
        <4>2. entry[r] \in 1..Len(Entries) /\ entry[r] + 1 \in 1..(Len(Entries) + 1)
          BY <4>1, <3>l
        <4> QED  BY <4>2, <3>l
      <3>3. own \in [P -> 0..CooldownTime]
        <4>1. cooldownUntil[r] \in [P -> 0..CooldownTime] /\ 0 \in 0..CooldownTime
          BY <1>0, <3>l
        <4> HIDE DEF P
        <4> QED  BY <4>1
      <3>4. /\ pc'[r] = pc[r] /\ left'[r] = left[r] /\ timer'[r] = timer[r] /\ late'[r] = late[r]
            /\ entry'[r] = entry[r] + 1 /\ cooldownUntil'[r] = own
            /\ chain'[r] = chain[r] \/ chain'[r] = Append(chain[r], p)
        BY <3>1 DEF LlmIInv, Placed
      <3>5. chain'[r] \in Seq(P)
        <4>1. chain[r] \in Seq(P) /\ p \in P
          BY <1>0, <3>2
        <4>2. Append(chain[r], p) \in Seq(P)
          BY <4>1
        <4> QED  BY <4>1, <4>2, <3>4
      <3> HIDE DEF own, p
      <3>6. chain' = [chain EXCEPT ![r] = chain'[r]]
        BY <1>e, <3>1, PlacePut DEF LlmIInv, Placed
      <3>7. Moves(r)
        BY <1>e, <3>1, <3>4, <3>6 DEF Moves
      <3>8. Standing(r)'
        BY <1>0, <3>1, <3>2, <3>3, <3>4, <3>5 DEF Standing, AtWork, Llm!Phases
      <3> QED  BY <1>0, <3>4, <3>7, <3>8 DEF AtWork
    <2> QED  BY <2>1, <2>2
  <1>3. /\ Placed' /\ \A d \in Requests : Standing(d)'
        /\ \A d \in Requests \ {r} : pc'[d] = pc[d] /\ chain'[d] = chain[d]
    BY <1>2, OthersStand
  <1>4. Counted' /\ Held' /\ Queued'
    <2>1. pc[r] \notin AtWork
      BY <1>0 DEF AtWork
    <2> QED  BY <2>1, <1>1, <1>2, <1>3, UntouchedKept
  <1> QED  BY <1>3, <1>4 DEF LlmIInv

\* A request that ends, or goes to its next provider.
LEMMA LeavingSteps ==
  ASSUME LlmIInv, NEW r \in Requests,
         \/ Llm!BuildDeadline(r) \/ Llm!AllFailed(r) \/ Llm!WaitTimesOut(r)
         \/ Llm!CallSucceeds(r) \/ Llm!CallFails(r) \/ Llm!CallLimited(r)
  PROVE  LlmIInv'
  <1>0. /\ pc[r] \in Llm!Phases /\ entry[r] \in 1..(Len(Entries) + 1) /\ chain[r] \in Seq(P)
        /\ cooldownUntil[r] \in [P -> 0..CooldownTime] /\ (late[r] => pc[r] = "reading") /\ late[r] \in BOOLEAN
        /\ timer[r] \in 0..Llm!Least(ChainTimeout, WaitTimeout + CallTimeout) /\ left[r] \in 0..ChainTimeout
    BY DEF LlmIInv, Standing
  <1>e. timer = [timer EXCEPT ![r] = timer[r]] /\ late = [late EXCEPT ![r] = late[r]]
    BY PlacePut DEF LlmIInv, Placed
  <1>t. 0 \in 0..Llm!Least(ChainTimeout, WaitTimeout + CallTimeout)
    <2>1. WaitTimeout + CallTimeout \in Nat /\ ChainTimeout \in Nat
      BY LlmConstants
    <2> QED  BY <2>1, LlmConstants
  <1>d. "dispatch" \in Llm!Phases /\ "dispatch" \notin AtWork
    BY DEF Llm!Phases, AtWork
  <1>1. CASE Llm!BuildDeadline(r) \/ Llm!AllFailed(r)
    <2>1. Llm!Finish(r, "failed") /\ UNCHANGED <<slots, queues, holders, enabled>> /\ pc[r] \notin AtWork
      BY <1>1 DEF Llm!BuildDeadline, Llm!AllFailed, Llm!semaphores, AtWork
    <2>2. Moves(r) /\ Standing(r)' /\ pc'[r] \notin AtWork
      BY <2>1, FinishStands
    <2>3. /\ Placed' /\ \A d \in Requests : Standing(d)'
          /\ \A d \in Requests \ {r} : pc'[d] = pc[d] /\ chain'[d] = chain[d]
      BY <2>2, OthersStand
    <2>4. Counted' /\ Held' /\ Queued'
      BY <2>1, <2>2, <2>3, UntouchedKept
    <2> QED  BY <2>3, <2>4 DEF LlmIInv
  <1>2. CASE Llm!WaitTimesOut(r)
    <2>1. pc[r] = "waiting" /\ chain[r] \in Seq(P) /\ chain[r] # <<>> /\ Head(chain[r]) \in P /\ late[r] = FALSE
      BY <1>2, <1>0, AtProvider DEF Llm!WaitTimesOut, AtWork
    <2>2. PICK k \in 1..Len(queues[Head(chain[r])]) :
            /\ queues[Head(chain[r])][k] = r
            /\ queues' = [queues EXCEPT ![Head(chain[r])] = Llm!Without(@, k)]
      <3>1. queues[Head(chain[r])] \in Seq(Requests)
        BY <2>1 DEF LlmIInv, Counted
      <3>2. DOMAIN queues[Head(chain[r])] = 1..Len(queues[Head(chain[r])])
        BY <3>1
      <3> QED  BY <1>2, <3>2 DEF Llm!WaitTimesOut
    <2>3. UNCHANGED <<slots, holders, enabled>>
      BY <1>2 DEF Llm!WaitTimesOut
    <2>4. Moves(r) /\ Standing(r)' /\ pc'[r] \notin AtWork
      <3>1. CASE left[r] = 0
        <4>1. Llm!Finish(r, "failed")
          BY <1>2, <3>1 DEF Llm!WaitTimesOut
        <4> QED  BY <4>1, FinishStands
      <3>2. CASE left[r] # 0
        <4>1. /\ pc' = [pc EXCEPT ![r] = "dispatch"] /\ chain' = [chain EXCEPT ![r] = Tail(chain[r])]
              /\ UNCHANGED <<entry, left, timer, late, cooldownUntil>>
          BY <1>2, <3>2 DEF Llm!WaitTimesOut, Llm!Goto
        <4>2. Tail(chain[r]) \in Seq(P)
          BY <2>1
        <4>3. timer' = [timer EXCEPT ![r] = timer[r]] /\ late' = [late EXCEPT ![r] = FALSE]
          BY <4>1, <1>e, <2>1
        <4>5. /\ pc' = [pc EXCEPT ![r] = "dispatch"] /\ chain' = [chain EXCEPT ![r] = Tail(chain[r])]
              /\ UNCHANGED <<entry, left, cooldownUntil>>
          BY <4>1
        <4>4. Moves(r) /\ Standing(r)' /\ pc'[r] = "dispatch"
          BY <4>2, <4>3, <4>5, <1>0, <1>d, MoveStands
        <4> QED  BY <4>4, <1>d
      <3> QED  BY <3>1, <3>2
    <2>5. /\ Placed' /\ \A d \in Requests : Standing(d)'
          /\ \A d \in Requests \ {r} : pc'[d] = pc[d] /\ chain'[d] = chain[d]
      BY <2>4, OthersStand
    <2>6. Counted' /\ Held' /\ Queued'
      BY <2>1, <2>2, <2>3, <2>4, <2>5, LeaveKept
    <2> QED  BY <2>5, <2>6 DEF LlmIInv
  <1>3. CASE Llm!CallSucceeds(r) \/ Llm!CallFails(r) \/ Llm!CallLimited(r)
    <2>1. /\ pc[r] \in {"fetching", "reading"} /\ UNCHANGED enabled /\ Llm!Release(Head(chain[r]), r)
      BY <1>3 DEF Llm!CallSucceeds, Llm!CallFails, Llm!CallLimited
    <2>2. chain[r] \in Seq(P) /\ chain[r] # <<>> /\ Head(chain[r]) \in P
      BY <2>1, AtProvider DEF AtWork
    <2>3. enabled => r \in holders[Head(chain[r])]
      BY <2>1 DEF LlmIInv, Held
    <2>4. Moves(r) /\ Standing(r)' /\ pc'[r] \notin AtWork
      <3>1. CASE Llm!CallSucceeds(r)
        <4>1. Llm!Finish(r, "done")
          BY <3>1 DEF Llm!CallSucceeds
        <4> QED  BY <4>1, FinishStands
      <3>2. CASE Llm!CallFails(r)
        <4>1. /\ pc' = [pc EXCEPT ![r] = "dispatch"] /\ chain' = [chain EXCEPT ![r] = Tail(chain[r])]
              /\ late' = [late EXCEPT ![r] = FALSE] /\ UNCHANGED <<entry, left, timer, cooldownUntil>>
          BY <3>2 DEF Llm!CallFails, Llm!Goto
        <4>2. Tail(chain[r]) \in Seq(P)
          BY <2>2
        <4>3. timer' = [timer EXCEPT ![r] = timer[r]]
          BY <4>1, <1>e
        <4>4. Moves(r) /\ Standing(r)' /\ pc'[r] = "dispatch"
          BY <4>1, <4>2, <4>3, <1>0, <1>d, MoveStands
        <4> QED  BY <4>4, <1>d
      <3>3. CASE Llm!CallLimited(r)
        <4> DEFINE own == [cooldownUntil[r] EXCEPT ![Head(chain[r])] = CooldownTime]
        <4>1. /\ pc' = [pc EXCEPT ![r] = "dispatch"] /\ chain' = [chain EXCEPT ![r] = Tail(chain[r])]
              /\ late' = [late EXCEPT ![r] = FALSE] /\ UNCHANGED <<entry, left, timer>>
              /\ cooldownUntil' = [cooldownUntil EXCEPT ![r] = own]
          BY <3>3 DEF Llm!CallLimited, Llm!Goto
        <4>2. own \in [P -> 0..CooldownTime] /\ Tail(chain[r]) \in Seq(P)
          <5>1. cooldownUntil[r] \in [P -> 0..CooldownTime]
            BY <1>0
          <5>3. CooldownTime \in 0..CooldownTime
            BY LlmConstants
          <5>2. Tail(chain[r]) \in Seq(P)
            BY <2>2
          <5> QED  BY <5>1, <5>2, <5>3
        <4>3. /\ pc'[r] = "dispatch" /\ chain'[r] = Tail(chain[r]) /\ late'[r] = FALSE
              /\ cooldownUntil'[r] = own /\ entry'[r] = entry[r] /\ left'[r] = left[r] /\ timer'[r] = timer[r]
          BY <4>1 DEF LlmIInv, Placed
        <4> HIDE DEF own
        <4>4. entry = [entry EXCEPT ![r] = entry[r]] /\ left = [left EXCEPT ![r] = left[r]]
          BY PlacePut DEF LlmIInv, Placed
        <4>5. Moves(r)
          BY <4>1, <4>3, <4>4, <1>e DEF Moves
        <4>6. Standing(r)'
          BY <4>2, <4>3, <1>0, <1>d DEF Standing
        <4> QED  BY <4>3, <4>5, <4>6, <1>d
      <3> QED  BY <1>3, <3>1, <3>2, <3>3
    <2>5. /\ Placed' /\ \A d \in Requests : Standing(d)'
          /\ \A d \in Requests \ {r} : pc'[d] = pc[d] /\ chain'[d] = chain[d]
      BY <2>4, OthersStand
    <2>6. Counted' /\ Held' /\ Queued'
      BY <2>1, <2>3, <2>4, <2>5, ReleaseKept DEF AtWork
    <2> QED  BY <2>5, <2>6 DEF LlmIInv
  <1> QED  BY <1>1, <1>2, <1>3

\* The attempt at a provider.
LEMMA AttemptSteps ==
  ASSUME LlmIInv, NEW r \in Requests,
         Llm!Attempt(r) \/ Llm!Granted(r) \/ Llm!HeadersArrive(r)
  PROVE  LlmIInv'
  <1>0. /\ pc[r] \in Llm!Phases /\ chain[r] \in Seq(P) /\ (late[r] => pc[r] = "reading") /\ late[r] \in BOOLEAN
        /\ timer[r] \in 0..Llm!Least(ChainTimeout, WaitTimeout + CallTimeout)
        /\ (pc[r] \in AtWork => chain[r] # <<>>)
    BY DEF LlmIInv, Standing
  <1>1. late[r] = FALSE
    BY <1>0 DEF Llm!Attempt, Llm!Granted, Llm!HeadersArrive
  <1>2. chain[r] # <<>> /\ Head(chain[r]) \in P
    <2>1. chain[r] # <<>>
      BY <1>0 DEF Llm!Attempt, Llm!Granted, Llm!HeadersArrive, AtWork
    <2> QED  BY <1>0, <2>1
  <1>3. /\ timer = [timer EXCEPT ![r] = timer[r]] /\ late = [late EXCEPT ![r] = FALSE]
        /\ chain = [chain EXCEPT ![r] = chain[r]]
    BY <1>1, PlacePut DEF LlmIInv, Placed
  <1>4. /\ {"dispatch", "granted", "waiting", "fetching", "reading"} \subseteq Llm!Phases
        /\ "dispatch" \notin AtWork
    BY DEF Llm!Phases, AtWork
  <1>5. enabled \in BOOLEAN
    BY DEF LlmIInv, Counted
  <1> DEFINE Through(phase) ==
        /\ Placed' /\ \A d \in Requests : Standing(d)'
        /\ \A d \in Requests \ {r} : pc'[d] = pc[d] /\ chain'[d] = chain[d]
        /\ pc'[r] = phase
  <1>6. ASSUME NEW phase \in {"granted", "waiting", "fetching", "reading"}, NEW n,
               pc' = [pc EXCEPT ![r] = phase], timer' = [timer EXCEPT ![r] = n],
               UNCHANGED <<chain, late, entry, left, cooldownUntil>>,
               n \in 0..Llm!Least(ChainTimeout, WaitTimeout + CallTimeout),
               phase \in {"waiting", "fetching"} => n <= left[r]
        PROVE  Through(phase) /\ chain'[r] = chain[r]
    <2>1. chain' = [chain EXCEPT ![r] = chain[r]] /\ late' = [late EXCEPT ![r] = FALSE]
      BY <1>3, <1>6
    <2>2. phase \in Llm!Phases
      BY <1>4
    <2>3. Moves(r) /\ Standing(r)' /\ pc'[r] = phase /\ chain'[r] = chain[r]
      BY <1>0, <1>2, <1>6, <2>1, <2>2, MoveStands
    <2> QED  BY <2>3, OthersStand
  <1>7. ASSUME UNCHANGED <<slots, queues, holders, enabled>>, Through("fetching") \/ Through("reading"),
               chain'[r] = chain[r], enabled => pc[r] \in AtWork /\ r \in holders[Head(chain[r])]
        PROVE  LlmIInv'
    <2>1. \/ ~enabled /\ pc'[r] \notin {"waiting", "granted"}
          \/ /\ pc'[r] \in {"fetching", "reading"} /\ chain'[r] = chain[r]
             /\ pc[r] \in AtWork /\ (enabled => r \in holders[Head(chain[r])])
      BY <1>5, <1>7
    <2>2. Counted' /\ Held' /\ Queued'
      BY <1>7, <2>1, UntouchedKept
    <2> QED  BY <1>7, <2>2 DEF LlmIInv
  <1>8. ASSUME Llm!StartCall(r), UNCHANGED <<chain, late, entry, left, cooldownUntil>>
        PROVE  Through("fetching") /\ chain'[r] = chain[r]
    <2>1. /\ pc' = [pc EXCEPT ![r] = "fetching"]
          /\ timer' = [timer EXCEPT ![r] = Llm!Least(CallTimeout, left[r])]
      BY <1>8 DEF Llm!StartCall, Llm!Goto
    <2>2. /\ Llm!Least(CallTimeout, left[r]) \in 0..Llm!Least(ChainTimeout, WaitTimeout + CallTimeout)
          /\ Llm!Least(CallTimeout, left[r]) <= left[r]
      BY LeastFits
    <2> HIDE DEF Through
    <2> QED  BY <1>6, <1>8, <2>1, <2>2
  <1>9. CASE Llm!Attempt(r)
    <2> DEFINE p == Head(chain[r])
    <2>1. pc[r] = "dispatch" /\ UNCHANGED <<enabled, chain, late, entry, left, cooldownUntil>>
      BY <1>9 DEF Llm!Attempt
    <2>2. CASE ~enabled /\ Llm!StartCall(r) /\ UNCHANGED <<slots, queues, holders>>
      BY <1>7, <1>8, <2>1, <2>2
    <2>3. CASE /\ enabled /\ slots[p] < Slots[p]
               /\ slots' = [slots EXCEPT ![p] = @ + 1] /\ holders' = [holders EXCEPT ![p] = @ \cup {r}]
               /\ pc' = [pc EXCEPT ![r] = "granted"] /\ UNCHANGED <<queues, timer>>
      <3>1. Through("granted") /\ chain'[r] = chain[r]
        <4>1. timer' = [timer EXCEPT ![r] = timer[r]]
          BY <1>3, <2>3
        <4> HIDE DEF Through
        <4> QED  BY <1>0, <1>6, <2>1, <2>3, <4>1
      <3>2. Counted' /\ Held' /\ Queued'
        BY <1>2, <2>1, <2>3, <3>1, TakeKept
      <3> QED  BY <3>1, <3>2 DEF LlmIInv
    <2>4. CASE /\ enabled /\ queues' = [queues EXCEPT ![p] = Append(@, r)]
               /\ timer' = [timer EXCEPT ![r] = Llm!Least(WaitTimeout, left[r])]
               /\ pc' = [pc EXCEPT ![r] = "waiting"] /\ UNCHANGED <<slots, holders>>
      <3>1. Through("waiting") /\ chain'[r] = chain[r]
        <4>1. /\ Llm!Least(WaitTimeout, left[r]) \in 0..Llm!Least(ChainTimeout, WaitTimeout + CallTimeout)
              /\ Llm!Least(WaitTimeout, left[r]) <= left[r]
          BY LeastFits
        <4> HIDE DEF Through
        <4> QED  BY <1>6, <2>1, <2>4, <4>1
      <3>2. Counted' /\ Held' /\ Queued'
        BY <1>2, <2>1, <2>4, <3>1, QueueKept
      <3> QED  BY <3>1, <3>2 DEF LlmIInv
    <2> QED  BY <1>9, <2>2, <2>3, <2>4 DEF Llm!Attempt, Llm!Goto, Llm!semaphores
  <1>10. CASE Llm!Granted(r)
    <2>1. /\ pc[r] \in {"granted", "waiting"} /\ pc[r] \in AtWork
          /\ (enabled => r \in holders[Head(chain[r])])
          /\ UNCHANGED <<enabled, entry, left, late, cooldownUntil>>
      <3>1. pc[r] \in {"granted", "waiting"} /\ UNCHANGED <<enabled, entry, left, late, cooldownUntil>>
        BY <1>10 DEF Llm!Granted
      <3>2. enabled => r \in holders[Head(chain[r])]
        BY <1>10 DEF Llm!Granted, LlmIInv, Held
      <3> QED  BY <3>1, <3>2 DEF AtWork
    <2>2. CASE Llm!StartCall(r) /\ UNCHANGED <<slots, queues, holders, chain>>
      BY <1>7, <1>8, <2>1, <2>2
    <2>3. CASE /\ Llm!Release(Head(chain[r]), r) /\ pc' = [pc EXCEPT ![r] = "dispatch"]
               /\ chain' = [chain EXCEPT ![r] = Tail(chain[r])] /\ UNCHANGED timer
      <3>1. Moves(r) /\ Standing(r)' /\ pc'[r] = "dispatch"
        <4>1. timer' = [timer EXCEPT ![r] = timer[r]] /\ late' = [late EXCEPT ![r] = FALSE]
          BY <1>3, <2>1, <2>3
        <4>2. Tail(chain[r]) \in Seq(P)
          BY <1>0, <1>2
        <4>3. UNCHANGED <<entry, left, cooldownUntil>>
          BY <2>1
        <4>4. "dispatch" \in Llm!Phases
          BY <1>4
        <4> QED  BY <1>0, <1>4, <2>3, <4>1, <4>2, <4>3, <4>4, MoveStands
      <3>2. Through("dispatch")
        BY <3>1, OthersStand
      <3>3. Counted' /\ Held' /\ Queued'
        BY <1>4, <2>1, <2>3, <3>2, ReleaseKept
      <3> QED  BY <3>2, <3>3 DEF LlmIInv
    <2> QED  BY <1>10, <2>2, <2>3 DEF Llm!Granted, Llm!Goto, Llm!semaphores
  <1>11. CASE Llm!HeadersArrive(r)
    <2>1. /\ pc[r] = "fetching" /\ pc' = [pc EXCEPT ![r] = "reading"]
          /\ UNCHANGED <<slots, queues, holders, enabled, entry, chain, left, timer, late, cooldownUntil>>
      BY <1>11 DEF Llm!HeadersArrive, Llm!Goto, Llm!semaphores
    <2>2. timer' = [timer EXCEPT ![r] = timer[r]]
      BY <1>3, <2>1
    <2>3. Through("reading") /\ chain'[r] = chain[r]
      <3> HIDE DEF Through
      <3> QED  BY <1>0, <1>6, <2>1, <2>2
    <2>4. enabled => pc[r] \in AtWork /\ r \in holders[Head(chain[r])]
      BY <2>1 DEF LlmIInv, Held, AtWork
    <2> HIDE DEF Through
    <2> QED  BY <1>7, <2>1, <2>3, <2>4
  <1> QED  BY <1>9, <1>10, <1>11

\* Slots, queues, phases and chains that stay as they are.
LEMMA SameSlots ==
  ASSUME LlmIInv, UNCHANGED <<slots, queues, holders, enabled, pc, chain>>
  PROVE  Counted' /\ Held' /\ Queued'
  <1>1. Counted /\ Held /\ Queued
    BY DEF LlmIInv
  <1>2. slots' = slots /\ queues' = queues /\ holders' = holders /\ enabled' = enabled /\ pc' = pc /\ chain' = chain
    OBVIOUS
  <1>3. Counted'
    BY <1>1, <1>2 DEF Counted
  <1>4. Held'
    <2>1. ASSUME NEW p \in P, NEW r \in holders'[p]  PROVE enabled' /\ pc'[r] \in AtWork /\ Head(chain'[r]) = p
      BY <1>1, <1>2 DEF Held
    <2>2. ASSUME NEW r \in Requests, enabled', pc'[r] \in {"granted", "fetching", "reading"}
          PROVE  r \in holders'[Head(chain'[r])]
      BY <1>1, <1>2, <2>2 DEF Held
    <2> QED  BY <2>1, <2>2 DEF Held
  <1>5. Queued'
    <2>1. ASSUME NEW p \in P, NEW n \in 1..Len(queues'[p])
          PROVE  /\ enabled' /\ pc'[queues'[p][n]] = "waiting" /\ Head(chain'[queues'[p][n]]) = p
                 /\ queues'[p][n] \notin holders'[p]
      BY <1>1, <1>2 DEF Queued
    <2>2. ASSUME NEW p \in P, NEW m \in 1..Len(queues'[p]), NEW n \in 1..Len(queues'[p]),
                 queues'[p][m] = queues'[p][n]
          PROVE  m = n
      BY <1>1, <1>2, <2>2 DEF Queued
    <2>3. ASSUME NEW r \in Requests, pc'[r] = "waiting"
          PROVE  \/ r \in holders'[Head(chain'[r])]
                 \/ \E n \in 1..Len(queues'[Head(chain'[r])]) : queues'[Head(chain'[r])][n] = r
      BY <1>1, <1>2, <2>3 DEF Queued
    <2>4. ASSUME NEW r \in Requests, pc'[r] \in {"waiting", "granted"}  PROVE enabled'
      BY <1>1, <1>2, <2>4 DEF Queued
    <2> QED  BY <2>1, <2>2, <2>3, <2>4 DEF Queued
  <1> QED  BY <1>3, <1>4, <1>5

\* Time passes where nothing can run.
LEMMA TickStep == LlmIInv /\ Llm!Tick => LlmIInv'
  <1> SUFFICES ASSUME LlmIInv, Llm!Tick  PROVE LlmIInv'
    OBVIOUS
  <1>1. UNCHANGED <<slots, queues, holders, enabled, pc, entry, chain>>
    BY DEF Llm!Tick, Llm!semaphores
  <1>2. Counted' /\ Held' /\ Queued'
    BY <1>1, SameSlots
  <1>3. Placed'
    BY <1>1 DEF LlmIInv, Placed, Llm!Tick
  <1>4. ASSUME NEW r \in Requests  PROVE Standing(r)'
    <2>1. /\ pc[r] \in Llm!Phases /\ entry[r] \in 1..(Len(Entries) + 1) /\ chain[r] \in Seq(P)
          /\ left[r] \in 0..ChainTimeout /\ late[r] \in BOOLEAN
          /\ timer[r] \in 0..Llm!Least(ChainTimeout, WaitTimeout + CallTimeout)
          /\ (pc[r] \in AtWork => chain[r] # <<>>)
          /\ (pc[r] \in {"waiting", "fetching"} => timer[r] <= left[r])
          /\ (late[r] => pc[r] = "reading")
      BY DEF LlmIInv, Standing
    <2>2. ChainTimeout \in Nat /\ Llm!Least(ChainTimeout, WaitTimeout + CallTimeout) \in Nat /\ CooldownTime \in Nat
      <3>1. WaitTimeout + CallTimeout \in Nat /\ ChainTimeout \in Nat
        BY LlmConstants
      <3> QED  BY <3>1, LlmConstants
    <2>3. ~Llm!Runnable(r)
      BY DEF Llm!Tick
    <2>4. /\ pc'[r] = pc[r] /\ entry'[r] = entry[r] /\ chain'[r] = chain[r]
          /\ left'[r] = (IF Llm!Started(r) THEN Llm!Down(left[r]) ELSE left[r])
          /\ timer'[r] = Llm!Down(timer[r])
          /\ late'[r] = (late[r] \/ (Llm!Started(r) /\ left[r] = 0) \/ (pc[r] = "reading" /\ timer[r] = 0))
          /\ cooldownUntil'[r] = [p \in P |-> Llm!Down(cooldownUntil[r][p])]
      BY <1>1 DEF Llm!Tick, P
    <2>5. left'[r] \in 0..ChainTimeout /\ timer'[r] \in 0..Llm!Least(ChainTimeout, WaitTimeout + CallTimeout)
      BY <2>1, <2>2, <2>4 DEF Llm!Down
    <2>6. cooldownUntil'[r] \in [P -> 0..CooldownTime]
      <3>1. cooldownUntil[r] \in [P -> 0..CooldownTime]
        BY DEF LlmIInv, Standing
      <3> HIDE DEF P
      <3>2. ASSUME NEW p \in P  PROVE Llm!Down(cooldownUntil[r][p]) \in 0..CooldownTime
        <4>1. cooldownUntil[r][p] \in 0..CooldownTime
          BY <3>1
        <4> QED  BY <4>1, <2>2 DEF Llm!Down
      <3> QED  BY <2>4, <3>2
    <2>7. pc[r] \in {"waiting", "fetching"} => timer'[r] <= left'[r]
      BY <2>1, <2>2, <2>4 DEF Llm!Down, Llm!Started
    <2>8. late'[r] => pc[r] = "reading"
      <3>1. Llm!Started(r) /\ left[r] = 0 => pc[r] = "reading"
        <4>1. pc[r] \in {"waiting", "fetching"} /\ left[r] = 0 => timer[r] = 0
          BY <2>1, <2>2
        <4> QED  BY <2>1, <2>3, <4>1 DEF Llm!Started, Llm!Runnable, Llm!Phases
      <3> QED  BY <2>1, <2>4, <3>1
    <2>9. late'[r] \in BOOLEAN
      BY <2>1, <2>4, Zenon
    <2>10. pc'[r] = pc[r] /\ entry'[r] = entry[r] /\ chain'[r] = chain[r]
      BY <2>4
    <2>11. /\ pc'[r] \in Llm!Phases /\ entry'[r] \in 1..(Len(Entries) + 1) /\ chain'[r] \in Seq(P)
           /\ (pc'[r] \in AtWork => chain'[r] # <<>>)
      BY <2>1, <2>10
    <2>12. (pc'[r] \in {"waiting", "fetching"} => timer'[r] <= left'[r]) /\ (late'[r] => pc'[r] = "reading")
      BY <2>7, <2>8, <2>10
    <2> QED  BY <2>5, <2>6, <2>9, <2>11, <2>12 DEF Standing
  <1> QED  BY <1>2, <1>3, <1>4 DEF LlmIInv

\* Every step keeps the invariant.
LEMMA LlmNext == LlmIInv /\ [Llm!Next]_(Llm!vars) => LlmIInv'
  <1>1. ASSUME LlmIInv, Llm!Next  PROVE LlmIInv'
    <2>1. CASE Llm!Tick
      BY <1>1, <2>1, TickStep
    <2>2. CASE \E r \in Requests :
                 \/ Llm!LlmJson(r) \/ Llm!CheckEntry(r) \/ Llm!BuildDeadline(r) \/ Llm!ChainBuilt(r)
                 \/ Llm!AllFailed(r) \/ Llm!Attempt(r) \/ Llm!WaitTimesOut(r) \/ Llm!Granted(r)
                 \/ Llm!HeadersArrive(r) \/ Llm!CallSucceeds(r) \/ Llm!CallFails(r) \/ Llm!CallLimited(r)
      BY <1>1, <2>2, BuildSteps, LeavingSteps, AttemptSteps
    <2> QED  BY <1>1, <2>1, <2>2 DEF Llm!Next
  <1>2. ASSUME LlmIInv, UNCHANGED Llm!vars  PROVE LlmIInv'
    <2>1. UNCHANGED <<slots, queues, holders, enabled, pc, entry, chain, left, timer, late, cooldownUntil>>
      BY <1>2 DEF Llm!vars
    <2>2. Counted' /\ Held' /\ Queued'
      BY <1>2, <2>1, SameSlots
    <2>3. Placed'
      BY <1>2, <2>1 DEF LlmIInv, Placed
    <2>4. ASSUME NEW r \in Requests  PROVE Standing(r)'
      <3>1. Standing(r)
        BY <1>2 DEF LlmIInv
      <3> QED  BY <2>1, <3>1 DEF Standing
    <2> QED  BY <2>2, <2>3, <2>4 DEF LlmIInv
  <1> QED  BY <1>1, <1>2

\* The invariant says that the calls are bounded.
LEMMA LlmBounded == LlmIInv => CallsBounded
  <1> SUFFICES ASSUME LlmIInv  PROVE CallsBounded
    OBVIOUS
  <1>1. Llm!TypeOK
    <2>1. /\ slots \in [P -> Nat] /\ holders \in [P -> SUBSET Requests] /\ enabled \in BOOLEAN
          /\ \A p \in P : slots[p] <= Slots[p] /\ queues[p] \in Seq(Requests)
      BY DEF LlmIInv, Counted
    <2>2. /\ pc \in [Requests -> Llm!Phases] /\ entry \in [Requests -> 1..(Len(Entries) + 1)]
          /\ chain \in [Requests -> Seq(P)] /\ left \in [Requests -> 0..ChainTimeout]
      BY DEF LlmIInv, Placed, Standing
    <2>3. /\ timer \in [Requests -> 0..Llm!Least(ChainTimeout, WaitTimeout + CallTimeout)]
          /\ late \in [Requests -> BOOLEAN] /\ cooldownUntil \in [Requests -> [P -> 0..CooldownTime]]
      BY DEF LlmIInv, Placed, Standing
    <2> QED  BY <2>1, <2>2, <2>3 DEF Llm!TypeOK, P
  <1>2. Llm!SlotsInUse
    <2> SUFFICES ASSUME enabled, NEW p \in P, NEW r \in Requests
                 PROVE  /\ r \in holders[p] => pc[r] \in AtWork /\ Head(chain[r]) = p
                        /\ pc[r] \in {"granted", "fetching", "reading"} /\ Head(chain[r]) = p => r \in holders[p]
                        /\ pc[r] = "waiting" /\ Head(chain[r]) = p =>
                             r \in holders[p] \/ \E n \in 1..Len(queues[p]) : queues[p][n] = r
      BY DEF Llm!SlotsInUse, P, AtWork
    <2> QED  BY DEF LlmIInv, Held, Queued
  <1>3. Llm!DeadlineKept
    BY DEF LlmIInv, Standing, Llm!DeadlineKept
  <1> QED  BY <1>1, <1>2, <1>3 DEF CallsBounded, Llm!CallsBounded

\* dispatchChain: however calls fail, wait, time out or run into the deadline, no provider runs
\* more calls than its limit, no call keeps its slot or goes without one, and past the deadline a
\* request only reads the answer of a call it has begun.
THEOREM CallsAreBounded == Llm!Spec => []CallsBounded
  <1>1. LlmIInv => CallsBounded
    BY LlmBounded
  <1> QED  BY <1>1, LlmInit, LlmNext, PTL DEF Llm!Spec

\* What one step does to the semaphore of p
SemStep(p) == Llm!Sem(p)!Next \/ UNCHANGED <<slots[p], queues[p], holders[p]>>

\* A request that gives back what it has makes a release of one semaphore.
LEMMA ReleaseIsStep ==
  ASSUME LlmIInv, NEW r \in Requests, pc[r] \in AtWork, enabled => r \in holders[Head(chain[r])],
         Llm!Release(Head(chain[r]), r)
  PROVE  UNCHANGED <<slots, queues, holders>> \/ \A p \in P : SemStep(p)
  <1>q. PICK q : q = Head(chain[r])
    OBVIOUS
  <1> USE <1>q
  <1>1. q \in P /\ enabled \in BOOLEAN
    BY AtProvider DEF LlmIInv, Counted
  <1>2. CASE ~enabled
    BY <1>2 DEF Llm!Release, Llm!semaphores
  <1>3. CASE enabled
    <2>1. /\ slots \in [P -> Nat] /\ holders \in [P -> SUBSET Requests] /\ queues \in [P -> Seq(Requests)]
      BY DEF LlmIInv, Counted
    <2>2. ASSUME NEW p \in P \ {q}  PROVE UNCHANGED <<slots[p], queues[p], holders[p]>>
      BY <1>3, <2>1 DEF Llm!Release
    <2>3. /\ r \in holders[q]
          /\ IF queues[q] # <<>>
             THEN /\ holders'[q] = (holders[q] \ {r}) \cup {Head(queues[q])}
                  /\ queues'[q] = Tail(queues[q]) /\ slots'[q] = slots[q]
             ELSE /\ slots'[q] = slots[q] - 1 /\ holders'[q] = holders[q] \ {r} /\ queues'[q] = queues[q]
      BY <1>1, <1>3, <2>1 DEF Llm!Release
    <2>4. Llm!Sem(q)!Release(r)
      BY <2>3 DEF Llm!Sem!Release
    <2>5. SemStep(q)
      BY <2>4 DEF SemStep, Llm!Sem!Next
    <2> QED  BY <2>2, <2>5 DEF SemStep
  <1> QED  BY <1>1, <1>2, <1>3

\* Each step of a request is a step of the semaphores it touches.
LEMMA RequestUsesSemaphores ==
  ASSUME LlmIInv, NEW r \in Requests,
         \/ Llm!LlmJson(r) \/ Llm!CheckEntry(r) \/ Llm!BuildDeadline(r) \/ Llm!ChainBuilt(r)
         \/ Llm!AllFailed(r) \/ Llm!Attempt(r) \/ Llm!WaitTimesOut(r) \/ Llm!Granted(r)
         \/ Llm!HeadersArrive(r) \/ Llm!CallSucceeds(r) \/ Llm!CallFails(r) \/ Llm!CallLimited(r)
  PROVE  UNCHANGED <<slots, queues, holders>> \/ \A p \in P : SemStep(p)
  <1>0. /\ slots \in [P -> Nat] /\ holders \in [P -> SUBSET Requests] /\ queues \in [P -> Seq(Requests)]
    BY DEF LlmIInv, Counted
  <1>q. PICK q : q = Head(chain[r])
    OBVIOUS
  <1> USE <1>q
  <1>1. CASE Llm!LlmJson(r) \/ Llm!CheckEntry(r) \/ Llm!BuildDeadline(r) \/ Llm!ChainBuilt(r)
             \/ Llm!AllFailed(r) \/ Llm!HeadersArrive(r)
    BY <1>1 DEF Llm!LlmJson, Llm!CheckEntry, Llm!BuildDeadline, Llm!ChainBuilt, Llm!AllFailed,
                Llm!HeadersArrive, Llm!semaphores
  <1>2. CASE Llm!CallSucceeds(r) \/ Llm!CallFails(r) \/ Llm!CallLimited(r)
    <2>1. pc[r] \in {"fetching", "reading"} /\ Llm!Release(q, r)
      BY <1>2 DEF Llm!CallSucceeds, Llm!CallFails, Llm!CallLimited
    <2>2. pc[r] \in AtWork /\ (enabled => r \in holders[q])
      BY <2>1 DEF LlmIInv, Held, AtWork
    <2> QED  BY <2>1, <2>2, ReleaseIsStep
  <1>3. CASE Llm!Granted(r)
    <2>1. pc[r] \in AtWork /\ (enabled => r \in holders[q])
      BY <1>3 DEF Llm!Granted, LlmIInv, Held, AtWork
    <2>2. Llm!Release(q, r) \/ UNCHANGED <<slots, queues, holders>>
      BY <1>3 DEF Llm!Granted, Llm!semaphores
    <2> QED  BY <2>1, <2>2, ReleaseIsStep
  <1>4. CASE Llm!WaitTimesOut(r)
    <2>1. q \in P
      <3>1. pc[r] \in AtWork
        BY <1>4 DEF Llm!WaitTimesOut, AtWork
      <3> QED  BY <3>1, AtProvider
    <2>2. PICK n \in DOMAIN queues[q] : queues' = [queues EXCEPT ![q] = Llm!Without(@, n)]
      BY <1>4 DEF Llm!WaitTimesOut
    <2>3. UNCHANGED <<slots, holders>> /\ queues'[q] = Llm!Without(queues[q], n)
          /\ \A p \in P \ {q} : queues'[p] = queues[p]
      BY <1>0, <1>4, <2>1, <2>2 DEF Llm!WaitTimesOut
    <2>4. n \in 1..Len(queues[q])
      BY <1>0, <2>1
    <2>5. Llm!Sem(q)!Timeout(n)
      BY <2>3, <2>4 DEF Llm!Sem!Timeout, Llm!Sem!Without, Llm!Without
    <2>6. SemStep(q)
      BY <2>5 DEF SemStep, Llm!Sem!Next
    <2> QED  BY <2>3, <2>6 DEF SemStep
  <1>5. CASE Llm!Attempt(r)
    <2>1. pc[r] = "dispatch" /\ chain[r] # <<>> /\ q \in P
      <3>1. pc[r] = "dispatch" /\ chain[r] # <<>>
        BY <1>5 DEF Llm!Attempt
      <3>2. chain[r] \in Seq(P)
        BY DEF LlmIInv, Standing
      <3> QED  BY <3>1, <3>2
    <2>2. r \notin holders[q] /\ r \notin Llm!Sem(q)!Waiting
      <3>1. r \notin holders[q]
        BY <2>1 DEF LlmIInv, Held, AtWork
      <3>2. ASSUME NEW n \in 1..Len(queues[q])  PROVE queues[q][n] # r
        BY <2>1 DEF LlmIInv, Queued
      <3> QED  BY <3>1, <3>2 DEF Llm!Sem!Waiting
    <2>3. CASE UNCHANGED <<slots, queues, holders>>
      BY <2>3
    <2>4. CASE /\ slots[q] < Slots[q] /\ UNCHANGED queues
               /\ slots' = [slots EXCEPT ![q] = @ + 1] /\ holders' = [holders EXCEPT ![q] = @ \cup {r}]
      <3>1. /\ slots[q] < Slots[q] /\ slots'[q] = slots[q] + 1 /\ holders'[q] = holders[q] \cup {r}
            /\ queues'[q] = queues[q]
            /\ \A p \in P \ {q} : UNCHANGED <<slots[p], queues[p], holders[p]>>
        BY <1>0, <2>1, <2>4
      <3>2. Llm!Sem(q)!Acquire(r)
        BY <2>2, <3>1 DEF Llm!Sem!Acquire
      <3>3. SemStep(q)
        BY <3>2 DEF SemStep, Llm!Sem!Next
      <3> QED  BY <3>1, <3>3 DEF SemStep
    <2>5. CASE /\ slots[q] >= Slots[q] /\ UNCHANGED <<slots, holders>>
               /\ queues' = [queues EXCEPT ![q] = Append(@, r)]
      <3>1. /\ queues'[q] = Append(queues[q], r) /\ slots'[q] = slots[q] /\ holders'[q] = holders[q]
            /\ \A p \in P \ {q} : UNCHANGED <<slots[p], queues[p], holders[p]>>
        BY <1>0, <2>1, <2>5
      <3>2. ~(slots[q] < Slots[q])
        <4>1. slots[q] \in Nat /\ Slots[q] \in Nat
          BY <1>0, <2>1, LlmConstants
        <4> QED  BY <2>5, <4>1
      <3>3. Llm!Sem(q)!Acquire(r)
        BY <2>2, <3>1, <3>2 DEF Llm!Sem!Acquire
      <3>4. SemStep(q)
        BY <3>3 DEF SemStep, Llm!Sem!Next
      <3> QED  BY <3>1, <3>4 DEF SemStep
    <2> QED  BY <1>5, <2>3, <2>4, <2>5 DEF Llm!Attempt, Llm!semaphores
  <1> QED  BY <1>1, <1>2, <1>3, <1>4, <1>5

\* dispatchChain: whatever a request does with a slot is an acquire, a release or a timeout of
\* that provider's semaphore, made when the semaphore allows it: what is proved of Semaphore holds of
\* each provider's.
THEOREM DispatchUsesSemaphores == Llm!Spec => UsesSemaphores
  <1>1. Llm!Init => \A p \in P : Llm!Sem(p)!Init
    BY DEF Llm!Init, Llm!Sem!Init, P
  <1>2. LlmIInv /\ [Llm!Next]_(Llm!vars) => [\A p \in P : SemStep(p)]_(Llm!semaphores)
    <2> SUFFICES ASSUME LlmIInv, [Llm!Next]_(Llm!vars)
                 PROVE  UNCHANGED <<slots, queues, holders>> \/ \A p \in P : SemStep(p)
      BY DEF Llm!semaphores
    <2>1. CASE Llm!Tick
      BY <2>1 DEF Llm!Tick, Llm!semaphores
    <2>2. CASE UNCHANGED Llm!vars
      BY <2>2 DEF Llm!vars
    <2>3. CASE \E r \in Requests :
                 \/ Llm!LlmJson(r) \/ Llm!CheckEntry(r) \/ Llm!BuildDeadline(r) \/ Llm!ChainBuilt(r)
                 \/ Llm!AllFailed(r) \/ Llm!Attempt(r) \/ Llm!WaitTimesOut(r) \/ Llm!Granted(r)
                 \/ Llm!HeadersArrive(r) \/ Llm!CallSucceeds(r) \/ Llm!CallFails(r) \/ Llm!CallLimited(r)
      BY <2>3, RequestUsesSemaphores
    <2> QED  BY <2>1, <2>2, <2>3 DEF Llm!Next
  <1>3. Llm!Spec => [][\A p \in P : SemStep(p)]_(Llm!semaphores)
    BY <1>2, LlmInit, LlmNext, PTL DEF Llm!Spec
  <1>4. Llm!Spec => \A p \in P : Llm!Sem(p)!Init
    BY <1>1, PTL DEF Llm!Spec
  <1> QED  BY <1>3, <1>4 DEF UsesSemaphores, Llm!UsesSemaphores, SemStep, P

\* withProviderTimeoutCap: no provider is called when the chain's deadline has passed, however long
\* the request waited for its slot.
THEOREM NoLateCall == Llm!Spec => Llm!StartsInTime
  <1>1. ASSUME LlmIInv, [Llm!Next]_(Llm!vars), NEW r \in Requests, pc[r] # "fetching", pc'[r] = "fetching"
        PROVE  left[r] > 0
    <2>1. CASE Llm!Tick \/ UNCHANGED Llm!vars
      BY <1>1, <2>1 DEF Llm!Tick, Llm!vars
    <2>2. ASSUME NEW d \in Requests, NEW phase, pc' = [pc EXCEPT ![d] = phase]
          PROVE  d = r /\ phase = "fetching"
      BY <1>1, <2>2 DEF LlmIInv, Placed
    <2>3. ASSUME NEW d \in Requests,
                 \/ Llm!LlmJson(d) \/ Llm!CheckEntry(d) \/ Llm!BuildDeadline(d) \/ Llm!ChainBuilt(d)
                 \/ Llm!AllFailed(d) \/ Llm!WaitTimesOut(d) \/ Llm!HeadersArrive(d)
                 \/ Llm!CallSucceeds(d) \/ Llm!CallFails(d) \/ Llm!CallLimited(d)
          PROVE  FALSE
      <3>1. pc' = pc \/ \E phase \in {"building", "dispatch", "reading", "done", "failed"} : pc' = [pc EXCEPT ![d] = phase]
        BY <2>3 DEF Llm!LlmJson, Llm!CheckEntry, Llm!BuildDeadline, Llm!ChainBuilt, Llm!AllFailed,
                    Llm!WaitTimesOut, Llm!HeadersArrive, Llm!CallSucceeds, Llm!CallFails, Llm!CallLimited,
                    Llm!Finish, Llm!Goto
      <3> QED  BY <1>1, <2>2, <3>1
    <2>4. ASSUME NEW d \in Requests, Llm!Attempt(d) \/ Llm!Granted(d)  PROVE left[r] > 0
      <3>1. left[d] > 0 \/ \E phase \in {"dispatch", "granted", "waiting"} : pc' = [pc EXCEPT ![d] = phase]
        BY <2>4 DEF Llm!Attempt, Llm!Granted, Llm!Goto
      <3>2. \E phase : pc' = [pc EXCEPT ![d] = phase]
        BY <2>4 DEF Llm!Attempt, Llm!Granted, Llm!Goto, Llm!StartCall
      <3> QED  BY <2>2, <3>1, <3>2
    <2> QED  BY <1>1, <2>1, <2>3, <2>4 DEF Llm!Next
  <1>2. LlmIInv /\ [Llm!Next]_(Llm!vars) =>
          [\A r \in Requests : pc[r] # "fetching" /\ pc'[r] = "fetching" => left[r] > 0]_(Llm!vars)
    BY <1>1
  <1> QED  BY <1>2, LlmInit, LlmNext, PTL DEF Llm!Spec, Llm!StartsInTime

(***************************************************************************)
(* The circuit breaker                                                     *)
(***************************************************************************)

\* The breaker starts closed, with no failures.
LEMMA BreakerInit == Breaker!Init => Breaker!TypeOK
  BY BreakerAssumption
  DEF Breaker!Init, Breaker!TypeOK, Breaker!BreakerAssumption, Breaker!NoFailures, Breaker!None,
      Breaker!Ages, Breaker!Oldest

\* One more failure of now.
LEMMA CountsUpTo ==
  ASSUME NEW f \in [Breaker!Ages -> 0..Threshold]
  PROVE  Breaker!AddNow(f) \in [Breaker!Ages -> 0..Threshold]
  BY BreakerAssumption
  DEF Breaker!AddNow, Breaker!BreakerAssumption, Breaker!Ages, Breaker!Oldest

\* What is checked and reported in one process keeps the types.
LEMMA MemKeeps ==
  ASSUME Breaker!TypeOK, NEW p \in Callers, Breaker!MemStep(p), UNCHANGED shared
  PROVE  Breaker!TypeOK'
  <1>0. /\ 0 \in -1..OpenFor /\ -1 \in -1..OpenFor
        /\ Breaker!NoFailures \in [Breaker!Ages -> 0..Threshold]
        /\ [a \in Breaker!Ages |-> IF a <= Window THEN failures[a] ELSE 0] \in [Breaker!Ages -> 0..Threshold]
    BY BreakerAssumption DEF Breaker!BreakerAssumption, Breaker!NoFailures, Breaker!TypeOK
  <1>1. CASE Breaker!MemIsOpen(p)
    BY <1>0, <1>1 DEF Breaker!MemIsOpen, Breaker!TypeOK, Breaker!Admitted, Breaker!Goto, Breaker!None
  <1>2. CASE Breaker!MemRecordFailure(p)
    <2> DEFINE recent == [a \in Breaker!Ages |-> IF a <= Window THEN failures[a] ELSE 0]
    <2>1. failures' = Breaker!AddNow(recent) /\ (opened' = 0 \/ opened' = opened)
      BY <1>2 DEF Breaker!MemRecordFailure
    <2>2. failures' \in [Breaker!Ages -> 0..Threshold]
      BY <1>0, <2>1, CountsUpTo
    <2> QED  BY <1>0, <1>2, <2>1, <2>2 DEF Breaker!MemRecordFailure, Breaker!TypeOK, Breaker!Goto
  <1>3. CASE Breaker!MemRecordSuccess(p)
    BY <1>0, <1>3 DEF Breaker!MemRecordSuccess, Breaker!TypeOK, Breaker!Goto, Breaker!None
  <1> QED  BY <1>1, <1>2, <1>3 DEF Breaker!MemStep

\* So do the commands to Redis and their failures.
LEMMA RedisKeeps ==
  ASSUME Breaker!TypeOK, NEW p \in Callers, Breaker!RedisStep(p), UNCHANGED shared
  PROVE  Breaker!TypeOK'
  <1>0. /\ -1 \in -1..OpenFor /\ stamp[p] \in -1..OpenFor /\ 0 \in 0..MaxStall
        /\ Breaker!NoFailures \in [Breaker!Ages -> 0..Threshold]
    BY BreakerAssumption DEF Breaker!BreakerAssumption, Breaker!NoFailures, Breaker!TypeOK
  <1>1. CASE Breaker!RedisIsOpen(p) \/ Breaker!RedisDelOpenedAt(p) \/ Breaker!RedisCount(p)
             \/ Breaker!RedisSetOpenedAt(p) \/ Breaker!RedisRecordSuccess(p) \/ Breaker!RedisDelFailures(p)
    BY <1>0, <1>1
    DEF Breaker!RedisIsOpen, Breaker!RedisDelOpenedAt, Breaker!RedisCount, Breaker!RedisSetOpenedAt,
        Breaker!RedisRecordSuccess, Breaker!RedisDelFailures, Breaker!TypeOK, Breaker!Admitted,
        Breaker!Goto, Breaker!None
  <1>2. CASE Breaker!RedisPushFailure(p)
    <2>1. failures' \in [Breaker!Ages -> 0..Threshold]
      BY <1>2, CountsUpTo DEF Breaker!RedisPushFailure, Breaker!TypeOK
    <2> QED  BY <1>0, <1>2, <2>1 DEF Breaker!RedisPushFailure, Breaker!TypeOK, Breaker!Goto
  <1>3. CASE Breaker!RedisIsOpenFails(p) \/ Breaker!RedisRecordFails(p)
    <2>1. errors' \in 0..MaxErrors
      BY <1>3, BreakerAssumption
      DEF Breaker!RedisIsOpenFails, Breaker!RedisRecordFails, Breaker!RedisError, Breaker!TypeOK,
          Breaker!BreakerAssumption
    <2> QED  BY <1>3, <2>1
             DEF Breaker!RedisIsOpenFails, Breaker!RedisRecordFails, Breaker!TypeOK,
                 Breaker!Admitted, Breaker!Goto
  <1> QED  BY <1>1, <1>2, <1>3 DEF Breaker!RedisStep

\* Time makes failures older; a recording is over before its time.
LEMMA BreakerTickKeeps ==
  ASSUME Breaker!TypeOK, Breaker!Tick, UNCHANGED shared
  PROVE  Breaker!TypeOK'
  <1>1. failures' \in [Breaker!Ages -> 0..Threshold]
    BY BreakerAssumption
    DEF Breaker!Tick, Breaker!TypeOK, Breaker!BreakerAssumption, Breaker!Ages, Breaker!Oldest
  <1>2. opened' \in -1..OpenFor
    BY BreakerAssumption
    DEF Breaker!Tick, Breaker!TypeOK, Breaker!BreakerAssumption, Breaker!Expired, Breaker!None
  <1>3. stamp' \in [Callers -> 0..MaxStall]
    BY BreakerAssumption
    DEF Breaker!Tick, Breaker!TypeOK, Breaker!BreakerAssumption, Breaker!Recording
  <1> QED  BY <1>1, <1>2, <1>3 DEF Breaker!Tick, Breaker!TypeOK

\* Every step keeps the types: ages stay in their ranges, a window counts up to the threshold.
LEMMA BreakerNext == Breaker!TypeOK /\ [Breaker!Next]_(Breaker!vars) => Breaker!TypeOK'
  <1> SUFFICES ASSUME Breaker!TypeOK, [Breaker!Next]_(Breaker!vars)  PROVE Breaker!TypeOK'
    OBVIOUS
  <1>1. CASE UNCHANGED Breaker!vars
    BY <1>1 DEF Breaker!TypeOK, Breaker!vars
  <1>2. CASE Breaker!Next
    BY <1>2, MemKeeps, RedisKeeps, BreakerTickKeeps DEF Breaker!Next
  <1> QED  BY <1>1, <1>2

\* For any callers, threshold and durations, in one process: an open breaker closes only when
\* its time is over or a call in flight has succeeded (memIsOpen, memRecordSuccess).
THEOREM BreakerHolds == Breaker!Spec => MemoryOpenHolds
  <1> DEFINE Excused == Breaker!Expired \/ \E p \in Callers : breakerPc[p] = "calling" /\ breakerPc'[p] = "idle"
  <1>1. Breaker!TypeOK /\ [Breaker!Next]_(Breaker!vars)
          => [~shared /\ opened # Breaker!None /\ opened' = Breaker!None => Excused]_(Breaker!vars)
    <2> SUFFICES ASSUME Breaker!TypeOK, Breaker!Next, ~shared, opened # Breaker!None, opened' = Breaker!None
                 PROVE  Excused
      OBVIOUS
    <2>1. CASE Breaker!Tick
      BY <2>1 DEF Breaker!Tick, Breaker!TypeOK, Breaker!None
    <2>2. ASSUME NEW p \in Callers, Breaker!MemIsOpen(p)  PROVE Excused
      BY <2>2 DEF Breaker!MemIsOpen
    <2>3. ASSUME NEW p \in Callers, Breaker!MemRecordFailure(p)  PROVE Excused
      BY <2>3 DEF Breaker!MemRecordFailure, Breaker!None
    <2>4. ASSUME NEW p \in Callers, Breaker!MemRecordSuccess(p)  PROVE Excused
      BY <2>4 DEF Breaker!MemRecordSuccess, Breaker!Goto, Breaker!TypeOK
    <2> QED  BY <2>1, <2>2, <2>3, <2>4 DEF Breaker!Next, Breaker!MemStep
  <1> QED  BY <1>1, BreakerInit, BreakerNext, PTL
           DEF Breaker!Spec, MemoryOpenHolds, Breaker!MemoryOpenHolds
=============================================================================
