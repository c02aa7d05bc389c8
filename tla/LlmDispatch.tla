----------------------------- MODULE LlmDispatch -----------------------------
(***************************************************************************)
(* llmJson of lib/llm/index.js: a request builds its own chain of          *)
(* providers, then tries them one after the other.  For each it takes a    *)
(* slot of the provider's semaphore, calls it under a timeout capped to    *)
(* what is left of the chain deadline, and gives the slot back whatever    *)
(* happens.  All requests share the semaphores, the rest is their own.     *)
(*                                                                         *)
(* A tick is long compared with a turn of the event loop: continuations    *)
(* that can run and timers that are due run before the next tick.  What    *)
(* the network does takes any time.                                        *)
(***************************************************************************)
EXTENDS Naturals, Sequences, FiniteSets

CONSTANTS
    Requests,        \* calls of llmJson
    Entries,         \* LLM_PRIMARY and LLM_FALLBACKS without duplicates, in order
    Limit,           \* getConcurrencyLimit, for each provider
    ChainTimeout,    \* LLM_CHAIN_TIMEOUT_MS in ticks
    WaitTimeout,     \* LLM_CONCURRENCY_WAIT_MS in ticks
    CallTimeout,     \* the provider's timeout in ticks
    CooldownTime     \* computeCooldown in ticks

Providers == {Entries[n] : n \in 1..Len(Entries)}

DispatchAssumption ==
    /\ Entries \in Seq(Providers) /\ Entries # <<>> /\ Limit \in [Providers -> Nat \ {0}]
    /\ \A n \in {ChainTimeout, WaitTimeout, CallTimeout} : n \in Nat \ {0}
    /\ CooldownTime \in Nat

VARIABLES
    active, waiters, holding,   \* the semaphore of each provider
    enabled,      \* LLM_CONCURRENCY_ENABLED
    pc,           \* where a request stands
    entry,        \* the next entry that buildChain looks at
    chain,        \* providers still to be tried, first the current one
    left,         \* remainingMs: ticks until the chain deadline
    timer,        \* ticks until the semaphore or fetch timer of the request fires
    late,         \* time has passed since the deadline or the call's timeout
    cooldownUntil \* _cooldownUntil of the request's instance of each provider

semaphores == <<active, waiters, holding>>
vars == <<active, waiters, holding, enabled, pc, entry, chain, left, timer, late,
          cooldownUntil>>

Least(m, n) == IF m < n THEN m ELSE n

Init ==
    /\ active = [p \in Providers |-> 0]
    /\ waiters = [p \in Providers |-> <<>>]
    /\ holding = [p \in Providers |-> {}]
    /\ enabled \in BOOLEAN
    /\ pc = [r \in Requests |-> "idle"]
    /\ entry = [r \in Requests |-> 1]
    /\ chain = [r \in Requests |-> <<>>]
    /\ left = [r \in Requests |-> ChainTimeout]
    /\ timer = [r \in Requests |-> 0]
    /\ late = [r \in Requests |-> FALSE]
    /\ cooldownUntil = [r \in Requests |-> [p \in Providers |-> 0]]

Goto(r, l) == pc' = [pc EXCEPT ![r] = l]

\* The request is over; what it kept is garbage.
Finish(r, how) ==
    /\ Goto(r, how)
    /\ entry' = [entry EXCEPT ![r] = 1]
    /\ chain' = [chain EXCEPT ![r] = <<>>]
    /\ timer' = [timer EXCEPT ![r] = 0]
    /\ left' = [left EXCEPT ![r] = 0]
    /\ late' = [late EXCEPT ![r] = FALSE]
    /\ cooldownUntil' = [cooldownUntil EXCEPT ![r] = [p \in Providers |-> 0]]

-----------------------------------------------------------------------------
(* buildChain *)

LlmJson(r) ==
    /\ pc[r] = "idle"
    /\ Goto(r, "building")
    /\ UNCHANGED <<semaphores, enabled, entry, chain, left, timer, late, cooldownUntil>>

\* createProvider returns a new instance, which is not cooling; isAvailable
\* asks that instance, then the circuit breaker and the configuration.
CreateProvider(r, p) == cooldownUntil' = [cooldownUntil EXCEPT ![r][p] = 0]

CheckEntry(r) ==
    /\ pc[r] = "building" /\ entry[r] <= Len(Entries) /\ left[r] > 0
    /\ CreateProvider(r, Entries[entry[r]])
    /\ \E available \in BOOLEAN :
         chain' = IF available /\ cooldownUntil'[r][Entries[entry[r]]] = 0
                  THEN [chain EXCEPT ![r] = Append(@, Entries[entry[r]])]
                  ELSE chain
    /\ entry' = [entry EXCEPT ![r] = @ + 1]
    /\ UNCHANGED <<semaphores, enabled, pc, left, timer, late>>

\* The check does not answer in time, or there is no time for it.
BuildDeadline(r) ==
    /\ pc[r] = "building" /\ entry[r] <= Len(Entries) /\ left[r] = 0
    /\ Finish(r, "failed")
    /\ UNCHANGED <<semaphores, enabled>>

ChainBuilt(r) ==
    /\ pc[r] = "building" /\ entry[r] > Len(Entries)
    /\ Goto(r, "dispatch")
    /\ UNCHANGED <<semaphores, enabled, entry, chain, left, timer, late, cooldownUntil>>

-----------------------------------------------------------------------------
(* dispatchChain *)

AllFailed(r) ==
    /\ pc[r] = "dispatch"
    /\ chain[r] = <<>> \/ left[r] = 0
    /\ Finish(r, "failed")
    /\ UNCHANGED <<semaphores, enabled>>

\* withProviderTimeoutCap and the start of the call.
StartCall(r) ==
    /\ Goto(r, "fetching")
    /\ timer' = [timer EXCEPT ![r] = Least(CallTimeout, left[r])]

\* The head of the loop and sem.acquire.
Attempt(r) ==
    /\ pc[r] = "dispatch" /\ chain[r] # <<>> /\ left[r] > 0
    /\ LET p == Head(chain[r]) IN
       \/ ~enabled /\ StartCall(r) /\ UNCHANGED semaphores
       \/ /\ enabled /\ active[p] < Limit[p]
          /\ active' = [active EXCEPT ![p] = @ + 1]
          /\ holding' = [holding EXCEPT ![p] = @ \cup {r}]
          /\ Goto(r, "granted")
          /\ UNCHANGED <<waiters, timer>>
       \/ /\ enabled /\ active[p] >= Limit[p]
          /\ waiters' = [waiters EXCEPT ![p] = Append(@, r)]
          /\ timer' = [timer EXCEPT ![r] = Least(WaitTimeout, left[r])]
          /\ Goto(r, "waiting")
          /\ UNCHANGED <<active, holding>>
    /\ UNCHANGED <<enabled, entry, chain, left, late, cooldownUntil>>

\* s without its n-th element.
Without(s, n) == [m \in 1..(Len(s) - 1) |-> IF m < n THEN s[m] ELSE s[m + 1]]

\* The timer of the waiter fires, unless release cleared it: next provider,
\* or the end of the chain when the deadline has passed.
WaitTimesOut(r) ==
    /\ pc[r] = "waiting" /\ timer[r] = 0 /\ r \notin holding[Head(chain[r])]
    /\ \E n \in DOMAIN waiters[Head(chain[r])] :
         /\ waiters[Head(chain[r])][n] = r
         /\ waiters' = [waiters EXCEPT ![Head(chain[r])] = Without(@, n)]
    /\ IF left[r] = 0
       THEN Finish(r, "failed")
       ELSE /\ Goto(r, "dispatch")
            /\ chain' = [chain EXCEPT ![r] = Tail(@)]
            /\ UNCHANGED <<entry, left, timer, late, cooldownUntil>>
    /\ UNCHANGED <<active, holding, enabled>>

Release_Decrement(p, r) ==    \* Mutant: the counter goes down on a hand-over too
    IF ~enabled THEN UNCHANGED semaphores
    ELSE /\ active' = [active EXCEPT ![p] = @ - 1]
         /\ IF waiters[p] # <<>>
            THEN /\ waiters' = [waiters EXCEPT ![p] = Tail(@)]
                 /\ holding' = [holding EXCEPT ![p] = (@ \ {r}) \cup {Head(waiters[p])}]
            ELSE holding' = [holding EXCEPT ![p] = @ \ {r}] /\ UNCHANGED waiters

\* sem.release: the slot goes to the first waiter, whose acquire resolves.
Release(p, r) ==
    IF ~enabled THEN UNCHANGED semaphores
    ELSE IF waiters[p] # <<>>
         THEN /\ waiters' = [waiters EXCEPT ![p] = Tail(@)]
              /\ holding' = [holding EXCEPT ![p] = (@ \ {r}) \cup {Head(waiters[p])}]
              /\ UNCHANGED active
         ELSE /\ active' = [active EXCEPT ![p] = @ - 1]
              /\ holding' = [holding EXCEPT ![p] = @ \ {r}]
              /\ UNCHANGED waiters

\* A waiter that holds the slot now; its continuation runs.
Granted(r) ==
    /\ pc[r] = "granted" \/ (pc[r] = "waiting" /\ r \in holding[Head(chain[r])])
    /\ \/ left[r] > 0 /\ StartCall(r) /\ UNCHANGED <<semaphores, chain>>
       \/ /\ left[r] = 0
          /\ Release(Head(chain[r]), r)
          /\ Goto(r, "dispatch")
          /\ chain' = [chain EXCEPT ![r] = Tail(@)]
          /\ UNCHANGED timer
    /\ UNCHANGED <<enabled, entry, left, late, cooldownUntil>>

\* The headers arrive: fetchWithTimeout clears its timer, the body follows.
HeadersArrive(r) ==
    /\ pc[r] = "fetching" /\ timer[r] > 0
    /\ Goto(r, "reading")
    /\ UNCHANGED <<semaphores, enabled, entry, chain, left, timer, late, cooldownUntil>>

CallSucceeds(r) ==
    /\ pc[r] = "reading"
    /\ Release(Head(chain[r]), r)
    /\ Finish(r, "done")
    /\ UNCHANGED <<enabled>>

\* A network error or timeout, a status that is not 2xx, an open breaker, an
\* empty or malformed answer.
CallFails_NoRelease(r) ==     \* Mutant: release outside finally
    /\ pc[r] \in {"fetching", "reading"}
    /\ UNCHANGED semaphores
    /\ Goto(r, "dispatch")
    /\ chain' = [chain EXCEPT ![r] = Tail(@)]
    /\ late' = [late EXCEPT ![r] = FALSE]
    /\ UNCHANGED <<enabled, entry, left, timer, cooldownUntil>>

CallFails_NoAbort(r) ==       \* Mutant: the timer does not abort the fetch
    /\ pc[r] = "reading" \/ (pc[r] = "fetching" /\ timer[r] > 0)
    /\ Release(Head(chain[r]), r)
    /\ Goto(r, "dispatch")
    /\ chain' = [chain EXCEPT ![r] = Tail(@)]
    /\ late' = [late EXCEPT ![r] = FALSE]
    /\ UNCHANGED <<enabled, entry, left, timer, cooldownUntil>>

CallFails(r) ==
    /\ pc[r] \in {"fetching", "reading"}
    /\ Release(Head(chain[r]), r)
    /\ Goto(r, "dispatch")
    /\ chain' = [chain EXCEPT ![r] = Tail(@)]
    /\ late' = [late EXCEPT ![r] = FALSE]
    /\ UNCHANGED <<enabled, entry, left, timer, cooldownUntil>>

\* HTTP 429: the instance cools down.
CallLimited(r) ==
    /\ pc[r] = "reading"
    /\ cooldownUntil' = [cooldownUntil EXCEPT ![r][Head(chain[r])] = CooldownTime]
    /\ Release(Head(chain[r]), r)
    /\ Goto(r, "dispatch")
    /\ chain' = [chain EXCEPT ![r] = Tail(@)]
    /\ late' = [late EXCEPT ![r] = FALSE]
    /\ UNCHANGED <<enabled, entry, left, timer>>

-----------------------------------------------------------------------------

Down(n) == IF n = 0 THEN 0 ELSE n - 1

\* A continuation or a due timer is waiting for its turn.
Runnable(r) ==
    \/ pc[r] \in {"dispatch", "granted"}
    \/ pc[r] = "building" /\ (entry[r] > Len(Entries) \/ left[r] = 0)
    \/ pc[r] = "waiting" /\ (timer[r] = 0 \/ r \in holding[Head(chain[r])])
    \/ pc[r] = "fetching" /\ timer[r] = 0

Started(r) == pc[r] \notin {"idle", "done", "failed"}

Tick ==
    /\ \A r \in Requests : ~Runnable(r)
    /\ \E r \in Requests : Started(r)
    /\ left' = [r \in Requests |-> IF Started(r) THEN Down(left[r]) ELSE left[r]]
    /\ timer' = [r \in Requests |-> Down(timer[r])]
    /\ late' = [r \in Requests |-> late[r] \/ (Started(r) /\ left[r] = 0)
                                          \/ (pc[r] = "reading" /\ timer[r] = 0)]
    /\ cooldownUntil' = [r \in Requests |-> [p \in Providers |-> Down(cooldownUntil[r][p])]]
    /\ UNCHANGED <<semaphores, enabled, pc, entry, chain>>

\* The code's own steps and timers.
Proceed(r) ==
    \/ BuildDeadline(r) \/ ChainBuilt(r) \/ AllFailed(r) \/ Attempt(r)
    \/ WaitTimesOut(r) \/ Granted(r)
    \/ timer[r] = 0 /\ CallFails(r)

Next ==
    \/ Tick
    \/ \E r \in Requests :
         \/ LlmJson(r) \/ CheckEntry(r) \/ BuildDeadline(r) \/ ChainBuilt(r)
         \/ AllFailed(r) \/ Attempt(r) \/ WaitTimesOut(r) \/ Granted(r)
         \/ HeadersArrive(r) \/ CallSucceeds(r) \/ CallFails(r) \/ CallLimited(r)

Spec == Init /\ [][Next]_vars

\* Time passes, the event loop runs what it can, and the body of an answer
\* ends or its connection breaks (the HTTP client gives up on a silent peer).
FairSpec ==
    /\ Spec
    /\ WF_vars(Tick)
    /\ \A r \in Requests : WF_vars(Proceed(r)) /\ WF_vars(pc[r] = "reading" /\ CallFails(r))

-----------------------------------------------------------------------------
(* Properties *)

Phases == {"idle", "building", "dispatch", "waiting", "granted", "fetching", "reading",
           "done", "failed"}

\* No provider runs more calls than its limit, its waiters are requests, and
\* every request stands where dispatchJson can stand.
TypeOK ==
    /\ active \in [Providers -> Nat]
    /\ \A p \in Providers : active[p] <= Limit[p] /\ waiters[p] \in Seq(Requests)
    /\ holding \in [Providers -> SUBSET Requests]
    /\ enabled \in BOOLEAN
    /\ pc \in [Requests -> Phases]
    /\ entry \in [Requests -> 1..(Len(Entries) + 1)]
    /\ chain \in [Requests -> Seq(Providers)]
    /\ left \in [Requests -> 0..ChainTimeout]
    /\ timer \in [Requests -> 0..Least(ChainTimeout, WaitTimeout + CallTimeout)]
    /\ late \in [Requests -> BOOLEAN]
    /\ cooldownUntil \in [Requests -> [Providers -> 0..CooldownTime]]

\* A slot belongs to a request that is at work with that provider, and a
\* request at work has one: no error path, timeout or deadline of
\* dispatchChain keeps a slot or calls a provider without one.
SlotsInUse ==
    enabled =>
      \A p \in Providers, r \in Requests :
        /\ r \in holding[p] =>
             pc[r] \in {"waiting", "granted", "fetching", "reading"} /\ Head(chain[r]) = p
        /\ pc[r] \in {"granted", "fetching", "reading"} /\ Head(chain[r]) = p => r \in holding[p]
        /\ pc[r] = "waiting" /\ Head(chain[r]) = p =>
             r \in holding[p] \/ \E n \in 1..Len(waiters[p]) : waiters[p][n] = r

\* No provider is called when the chain deadline has passed, however long
\* the request waited for its slot.
StartsInTime ==
    [][\A r \in Requests : pc[r] # "fetching" /\ pc'[r] = "fetching" => left[r] > 0]_vars

\* Past the deadline a request does nothing but read the answer of a call
\* that it started before.
DeadlineKept == \A r \in Requests : late[r] => pc[r] = "reading"

\* No error path, timeout or deadline makes a call that keeps its slot, goes
\* without one or outlives the chain deadline unread.
CallsBounded == TypeOK /\ SlotsInUse /\ DeadlineKept

\* Each semaphore, as dispatchChain uses it, is the one of Semaphore.
Sem(p) == INSTANCE Semaphore WITH Tasks <- Requests, Limit <- Limit[p],
            active <- active[p], waiters <- waiters[p], holding <- holding[p]

UsesSemaphores ==
    /\ \A p \in Providers : Sem(p)!Init
    /\ [][\A p \in Providers : Sem(p)!Next \/ UNCHANGED <<active[p], waiters[p], holding[p]>>]_semaphores

\* Every request gets an answer or an error.
RequestEnds == \A r \in Requests : pc[r] = "building" ~> pc[r] \in {"done", "failed"}

\* A request that waited for its slot past the deadline makes no call, and ends
\* like every other (dispatchChain).
AnsweredInTime == StartsInTime /\ RequestEnds
=============================================================================
