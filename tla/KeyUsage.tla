------------------------------ MODULE KeyUsage ------------------------------
(***************************************************************************)
(* A request finds out whether its API key is active and under its calls   *)
(* of the day (validateAuthentication).  Usage is read before and counted  *)
(* after the request was let in, and nobody waits for the count.  Requests *)
(* with the master key are decided without the tables.                     *)
(***************************************************************************)
EXTENDS Integers, FiniteSets, Sequences

CONSTANTS Calls,      \* requests at the same time
          DailyLimit, \* daily_limit
          MaxServed,  \* bound: requests of a day
          MaxTurns    \* bound: changes of the key, midnights and failures

VARIABLES status,  \* "active", "inactive" or "gone"
          usage,   \* call_count of today
          call,    \* [Calls -> where its authentication is]
          served,  \* requests let in today after the daily check
          lost,    \* counts of such requests that failed
          turns

keyUsage == <<status, usage, call, served, lost, turns>>

Idle == [pc |-> "idle", todo |-> <<>>]

Init ==
  /\ status = "active" /\ usage = 0 /\ served = 0 /\ lost = 0 /\ turns = 0
  /\ call = [c \in Calls |-> Idle]

---------------------------------------------------------------------------
(* The checks in order: a bound OAuth client is looked up by id, without   *)
(* the daily limit, then a client named after its key as the key itself.   *)

Checks == {<<"daily">>, <<"status">>, <<"status", "daily">>}

Authenticate(c, checks) ==
  /\ call[c] = Idle /\ served < MaxServed /\ usage < MaxServed
  /\ call' = [call EXCEPT ![c] = [pc |-> "check", todo |-> checks]]
  /\ UNCHANGED <<status, usage, served, lost, turns>>

\* A failed check leads to the next one, the last to a refusal
NextCheck(c) ==
  IF Len(call[c].todo) = 1 THEN Idle ELSE [pc |-> "check", todo |-> Tail(call[c].todo)]

\* Only validateApiKeyFromDB joins the usage of the day
Passes(check) == status = "active" /\ (check = "daily" => usage < DailyLimit)

\* The SELECT of validateApiKeyFromDB or validateApiKeyById
Check(c) ==
  /\ call[c].pc = "check"
  /\ call' = [call EXCEPT ![c] =
       IF Passes(Head(call[c].todo)) THEN [call[c] EXCEPT !.pc = "groups"] ELSE NextCheck(c)]
  /\ UNCHANGED <<status, usage, served, lost, turns>>

CountsDaily(c) == IF Head(call[c].todo) = "daily" THEN 1 ELSE 0

\* The groups are read; the request is let in and its count is under way
GetGroupKeyIds(c) ==
  /\ call[c].pc = "groups"
  /\ call' = [call EXCEPT ![c].pc = "count"]
  /\ served' = served + CountsDaily(c)
  /\ UNCHANGED <<status, usage, lost, turns>>

\* INSERT ... ON CONFLICT DO UPDATE call_count + 1; a deleted key has no usage row
IncrementUsage(c) ==
  /\ call[c].pc = "count" /\ status # "gone"
  /\ usage' = usage + 1
  /\ call' = [call EXCEPT ![c] = Idle]
  /\ UNCHANGED <<status, served, lost, turns>>

\* A query fails: the next check, or a count that is only logged
QueryFails(c) ==
  /\ call[c] # Idle /\ (turns < MaxTurns \/ status = "gone")
  /\ turns' = turns + (IF turns < MaxTurns THEN 1 ELSE 0)
  /\ call' = [call EXCEPT ![c] = IF call[c].pc = "count" THEN Idle ELSE NextCheck(c)]
  /\ lost' = lost + (IF call[c].pc = "count" THEN CountsDaily(c) ELSE 0)
  /\ UNCHANGED <<status, usage, served>>

---------------------------------------------------------------------------
(* The operator and the calendar *)

Turn == turns < MaxTurns /\ turns' = turns + 1

UpdateApiKeyStatus ==
  /\ Turn /\ status # "gone"
  /\ status' \in {"active", "inactive"} \ {status}
  /\ UNCHANGED <<usage, call, served, lost>>

\* The usage rows go with the key
DeleteApiKey ==
  /\ Turn /\ status # "gone"
  /\ status' = "gone" /\ usage' = 0
  /\ UNCHANGED <<call, served, lost>>

\* CURRENT_DATE moves on, the row of the new day is not there yet
Midnight ==
  /\ Turn
  /\ usage' = 0 /\ served' = 0 /\ lost' = 0
  /\ UNCHANGED <<status, call>>

Next ==
  \/ \E c \in Calls : \/ \E checks \in Checks : Authenticate(c, checks)
                      \/ Check(c) \/ GetGroupKeyIds(c) \/ QueryFails(c) \/ IncrementUsage(c)
  \/ UpdateApiKeyStatus \/ DeleteApiKey \/ Midnight

Spec == Init /\ [][Next]_keyUsage

---------------------------------------------------------------------------
\* Requests of a day exceed the daily limit by no more than those that were under
\* way together and those whose count failed (validateApiKeyFromDB, incrementUsage).
OverrunBounded == served <= DailyLimit - 1 + Cardinality(Calls) + lost
=============================================================================
