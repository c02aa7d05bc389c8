--------------------------- MODULE CircuitBreaker ---------------------------
(***************************************************************************)
(* The circuit breaker of one language-model provider,                     *)
(* lib/llm/util/circuit-breaker.js: callers ask isOpen before a call and   *)
(* report its outcome with recordFailure or recordSuccess.  In memory each *)
(* of the three is one turn of the event loop; with REDIS_ENABLED they are *)
(* several Redis commands, and the callers are in different processes.     *)
(*                                                                         *)
(* A caller that only wants to know whether the provider is available      *)
(* (isAvailable) asks isOpen too, and then makes no call.                  *)
(*                                                                         *)
(* Time is kept as ages: how many ticks ago a failure was recorded and     *)
(* openedAt was set.  Ages saturate, so that time need not end.            *)
(***************************************************************************)
EXTENDS Integers, FiniteSets, Functions

CONSTANTS
    Callers,
    Modes,        \* the values of REDIS_ENABLED to look at
    Threshold,    \* FAILURE_THRESHOLD
    Window,       \* FAILURE_WINDOW_MS in ticks
    OpenFor,      \* OPEN_DURATION_MS in ticks
    MaxStall,     \* longest time in ticks that recordFailure takes
    MaxErrors     \* bound on the Redis commands that fail

BreakerAssumption ==
    /\ Modes \subseteq BOOLEAN
    /\ Threshold \in Nat \ {0} /\ Window \in Nat /\ OpenFor \in Nat
    /\ MaxStall \in Nat /\ MaxErrors \in Nat
    /\ OpenFor <= Window /\ MaxStall <= OpenFor     \* the default durations are equal

Oldest == Window + MaxStall   \* older failures are outside every window
Ages   == 0..Oldest
None   == -1                  \* openedAt null

VARIABLES
    shared,     \* REDIS_ENABLED
    failures,   \* failures[a]: recorded failures of age a, counted up to Threshold
    opened,     \* age of openedAt, or None
    pc,         \* where a caller stands
    stamp,      \* age of the "now" that a caller's recordFailure read
    errors      \* Redis commands that failed so far

vars == <<shared, failures, opened, pc, stamp, errors>>

NoFailures == [a \in Ages |-> 0]

Init ==
    /\ shared \in Modes
    /\ failures = NoFailures
    /\ opened = None
    /\ pc = [p \in Callers |-> "idle"]
    /\ stamp = [p \in Callers |-> 0]
    /\ errors = 0

\* Failures of age at most a.
Recent(f, a) == FoldFunctionOnSet(+, 0, f, {b \in Ages : b <= a})

AddNow(f) == [f EXCEPT ![0] = IF f[0] < Threshold THEN f[0] + 1 ELSE f[0]]

Expired == opened = OpenFor

Goto(p, l) == pc' = [pc EXCEPT ![p] = l]

\* isOpen returned false: to callText, which calls the provider, or to
\* isAvailable.
Admitted(p) == Goto(p, "calling") \/ Goto(p, "idle")

-----------------------------------------------------------------------------
(* The in-memory breaker *)

\* memIsOpen: a breaker that has been open long enough lets the call pass.
MemIsOpen(p) ==
    /\ pc[p] = "idle"
    /\ opened = None \/ Expired
    /\ opened' = None
    /\ Admitted(p)
    /\ UNCHANGED <<failures, stamp, errors>>

MemRecordFailure(p) ==
    /\ pc[p] = "calling"
    /\ LET kept == AddNow([a \in Ages |-> IF a <= Window THEN failures[a] ELSE 0])
       IN  /\ failures' = kept
           /\ opened' = IF Recent(kept, Window) >= Threshold THEN 0 ELSE opened
    /\ Goto(p, "idle")
    /\ UNCHANGED <<stamp, errors>>

MemRecordSuccess(p) ==
    /\ pc[p] = "calling"
    /\ failures' = NoFailures
    /\ opened' = None
    /\ Goto(p, "idle")
    /\ UNCHANGED <<stamp, errors>>

-----------------------------------------------------------------------------
(* The breaker in Redis: GET and DEL; RPUSH, LRANGE and SETEX; DEL and DEL *)

RedisError == errors < MaxErrors /\ errors' = errors + 1

RedisIsOpen_Sticky(p) ==    \* Mutant: no half-open state
    /\ pc[p] = "idle" /\ opened = None
    /\ Admitted(p) /\ UNCHANGED <<failures, opened, stamp, errors>>

RedisIsOpen(p) ==
    /\ pc[p] = "idle"
    /\ opened = None \/ Expired
    /\ IF Expired THEN Goto(p, "halfopen") ELSE Admitted(p)
    /\ UNCHANGED <<failures, opened, stamp, errors>>

\* A Redis error means "not open".
RedisIsOpenFails(p) ==
    /\ pc[p] \in {"idle", "halfopen"}
    /\ RedisError
    /\ Admitted(p)
    /\ UNCHANGED <<failures, opened, stamp>>

RedisDelOpenedAt(p) ==
    /\ pc[p] = "halfopen"
    /\ opened' = None
    /\ Admitted(p)
    /\ UNCHANGED <<failures, stamp, errors>>

RedisPushFailure(p) ==
    /\ pc[p] = "calling"
    /\ failures' = AddNow(failures)
    /\ stamp' = [stamp EXCEPT ![p] = 0]
    /\ Goto(p, "pushed")
    /\ UNCHANGED <<opened, errors>>

\* LRANGE and the filter with the time read before the push.
RedisCount(p) ==
    /\ pc[p] = "pushed"
    /\ Goto(p, IF Recent(failures, Window + stamp[p]) >= Threshold THEN "tripping" ELSE "idle")
    /\ UNCHANGED <<failures, opened, stamp, errors>>

RedisSetOpenedAt(p) ==
    /\ pc[p] = "tripping"
    /\ opened' = stamp[p]
    /\ Goto(p, "idle")
    /\ UNCHANGED <<failures, stamp, errors>>

RedisRecordSuccess(p) ==
    /\ pc[p] = "calling"
    /\ opened' = None
    /\ Goto(p, "closing")
    /\ UNCHANGED <<failures, stamp, errors>>

RedisDelFailures(p) ==
    /\ pc[p] = "closing"
    /\ failures' = NoFailures
    /\ Goto(p, "idle")
    /\ UNCHANGED <<opened, stamp, errors>>

\* A Redis error ends recordFailure and recordSuccess silently.
RedisRecordFails(p) ==
    /\ pc[p] \in {"calling", "pushed", "tripping", "closing"}
    /\ RedisError
    /\ Goto(p, "idle")
    /\ UNCHANGED <<failures, opened, stamp>>

-----------------------------------------------------------------------------

Recording(p) == pc[p] \in {"pushed", "tripping"}

Tick ==
    /\ \A p \in Callers : Recording(p) => stamp[p] < MaxStall
    /\ failures' = [a \in Ages |-> IF a = 0 THEN 0 ELSE failures[a - 1]]
    /\ opened' = IF opened = None \/ Expired THEN opened ELSE opened + 1
    /\ stamp' = [p \in Callers |-> IF Recording(p) THEN stamp[p] + 1 ELSE 0]
    /\ UNCHANGED <<pc, errors>>

MemStep(p) == MemIsOpen(p) \/ MemRecordFailure(p) \/ MemRecordSuccess(p)

RedisStep(p) ==
    \/ RedisIsOpen(p) \/ RedisIsOpenFails(p) \/ RedisDelOpenedAt(p)
    \/ RedisPushFailure(p) \/ RedisCount(p) \/ RedisSetOpenedAt(p)
    \/ RedisRecordSuccess(p) \/ RedisDelFailures(p) \/ RedisRecordFails(p)

Next ==
    /\ \/ Tick
       \/ ~shared /\ \E p \in Callers : MemStep(p)
       \/ shared /\ \E p \in Callers : RedisStep(p)
    /\ UNCHANGED shared

Spec == Init /\ [][Next]_vars

\* Time passes, calls end (they have a timeout), and callers keep coming.
FairSpec ==
    /\ Spec
    /\ WF_vars(Tick /\ UNCHANGED shared)
    /\ \A p \in Callers :
         /\ WF_vars(~shared /\ MemStep(p) /\ UNCHANGED shared)
         /\ WF_vars(shared /\ RedisStep(p) /\ UNCHANGED shared)

-----------------------------------------------------------------------------
(* Properties *)

\* A window never holds more failures than open the breaker, an open state is
\* never older than its duration, and callers stand where their code can stand.
TypeOK ==
    /\ shared \in BOOLEAN
    /\ failures \in [Ages -> 0..Threshold]
    /\ opened \in -1..OpenFor
    /\ pc \in [Callers -> {"idle", "calling", "halfopen", "pushed", "tripping", "closing"}]
    /\ stamp \in [Callers -> 0..MaxStall]
    /\ errors \in 0..MaxErrors

\* The open state lasts OPEN_DURATION_MS unless a call succeeds: in one
\* process, no check by another caller closes a breaker opened more recently.
\* (In Redis one does: redisIsOpen reads and deletes openedAt in two commands.)
MemoryOpenHolds ==
    [][~shared /\ opened # None /\ opened' = None =>
         Expired \/ \E p \in Callers : pc[p] = "calling" /\ pc'[p] = "idle"]_vars

\* A provider is not shut out for ever: an open breaker lets a call pass
\* again even if calls in flight go on failing.
Recovers == opened # None ~> opened = None

\* An open breaker blocks for its duration, then lets calls pass again.
OpenForItsTime == MemoryOpenHolds /\ Recovers
=============================================================================
