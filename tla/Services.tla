------------------------------- MODULE Services -------------------------------
(***************************************************************************)
(* The slots of a language-model provider: the counting semaphore itself   *)
(* (EXTENDS), the dispatch chain of a request, which takes, waits for and  *)
(* gives back the slots of each provider in its chain, and the circuit     *)
(* breaker of one provider.                                                *)
(***************************************************************************)
EXTENDS Semaphore

CONSTANTS
  Requests, Entries,         \* requests, and the providers in the order of their chain
  Slots,                     \* [provider -> its limit]
  ChainTimeout, WaitTimeout, CallTimeout, CooldownTime,
  Callers, Modes, Threshold, Window, OpenFor, MaxStall, MaxErrors  \* of the breaker

VARIABLES
  slots, queues, holders, enabled, pc, entry, chain, left, timer, late, cooldownUntil,
  shared, failures, opened, breakerPc, stamp, errors

llmVars == <<slots, queues, holders, enabled, pc, entry, chain, left, timer, late, cooldownUntil>>

Llm == INSTANCE LlmDispatch WITH
  Limit <- Slots, active <- slots, waiters <- queues, holding <- holders

breakerVars == <<shared, failures, opened, breakerPc, stamp, errors>>

Breaker == INSTANCE CircuitBreaker WITH pc <- breakerPc

\* Providers are named, limits and timeouts positive; requests are finitely many
ASSUME ServicesAssumption == Llm!DispatchAssumption /\ IsFiniteSet(Requests)

\* A recording is over before the breaker's open state is, and that before the window
ASSUME BreakerAssumption == Breaker!BreakerAssumption

---------------------------------------------------------------------------
(* Properties.  SlotsKept is the semaphore's.                              *)

\* No path of the dispatch chain leaks a slot or outlives its deadline (dispatchChain).
CallsBounded == Llm!CallsBounded

\* The dispatch chain uses the semaphores as Semaphore says (dispatchChain).
UsesSemaphores == Llm!UsesSemaphores

\* In one process an open breaker stays open for its duration, whatever the calls
\* in flight report, unless one of them succeeds (OPEN_DURATION_MS).
MemoryOpenHolds == Breaker!MemoryOpenHolds
=============================================================================
