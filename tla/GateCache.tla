------------------------------ MODULE GateCache -----------------------------
(***************************************************************************)
(* Whether violations of the policy refuse a key's remember: the column    *)
(* symbolic_hard_gate behind a cache of 30 seconds (getSymbolicHardGate).  *)
(* Nothing calls invalidateHardGateCache; a change waits for the expiry.   *)
(***************************************************************************)
EXTENDS Integers

CONSTANTS Calls,    \* lookups at the same time
          GateTtl,  \* HARD_GATE_CACHE_TTL_MS, in ticks
          LastTick, \* bound: the clock
          MaxTurns  \* bound: changes of the column

VARIABLES gate,   \* the column
          held,   \* [BOOLEAN -> the last time it was the column's value]
          cache,  \* the key's entry of _hardGateCache
          asks,   \* [Calls -> a lookup that missed the cache]
          moment, turns

gateCache == <<gate, held, cache, asks, moment, turns>>

NoAsk == [pc |-> "idle", at |-> 0, val |-> FALSE]

Init ==
  /\ gate = FALSE /\ held = [b \in BOOLEAN |-> 0]
  /\ cache = [val |-> FALSE, until |-> 0]
  /\ asks = [c \in Calls |-> NoAsk]
  /\ moment = 0 /\ turns = 0

---------------------------------------------------------------------------
\* An entry that has not expired answers at once; else the time is kept and asked
Lookup(c) ==
  /\ asks[c] = NoAsk /\ cache.until <= moment
  /\ asks' = [asks EXCEPT ![c] = [pc |-> "select", at |-> moment, val |-> FALSE]]
  /\ UNCHANGED <<gate, held, cache, moment, turns>>

Select(c) ==
  /\ asks[c].pc = "select"
  /\ asks' = [asks EXCEPT ![c] = [pc |-> "store", at |-> asks[c].at, val |-> gate]]
  /\ UNCHANGED <<gate, held, cache, moment, turns>>

\* Over whatever entry another lookup has made meanwhile
Store(c) ==
  /\ asks[c].pc = "store"
  /\ cache' = [val |-> asks[c].val, until |-> asks[c].at + GateTtl]
  /\ asks' = [asks EXCEPT ![c] = NoAsk]
  /\ UNCHANGED <<gate, held, moment, turns>>

\* Fail-open: the answer is false and nothing is cached
LookupFails(c) ==
  /\ asks[c].pc = "select"
  /\ asks' = [asks EXCEPT ![c] = NoAsk]
  /\ UNCHANGED <<gate, held, cache, moment, turns>>

---------------------------------------------------------------------------
\* The column is set in the database, or the key is deleted; the cache is not told
SetGate ==
  /\ turns < MaxTurns /\ turns' = turns + 1
  /\ gate' = ~gate /\ held' = [held EXCEPT ![gate'] = moment]
  /\ UNCHANGED <<cache, asks, moment>>

Tick ==
  /\ moment < LastTick
  /\ moment' = moment + 1
  /\ held' = [held EXCEPT ![gate] = moment + 1]
  /\ UNCHANGED <<gate, cache, asks, turns>>

Next ==
  \/ \E c \in Calls : Lookup(c) \/ Select(c) \/ Store(c) \/ LookupFails(c)
  \/ SetGate \/ Tick

Spec == Init /\ [][Next]_gateCache

---------------------------------------------------------------------------
\* A gate that the cache still answers with was that of the table less than a TTL
\* ago, though lookups overtake each other and no change clears it
\* (getSymbolicHardGate).
GateRecent == cache.until > moment => moment - held[cache.val] < GateTtl
=============================================================================
