------------------------------ MODULE Reranker ------------------------------
(***************************************************************************)
(* The cross-encoder of the read path: an external service with a failure  *)
(* count, a cooldown or a switch to the in-process model, and the shared   *)
(* load of that model.  Between the request to the service or the model    *)
(* and its answer, other recalls run.                                      *)
(***************************************************************************)
EXTENDS Naturals

CONSTANTS Recalls,   \* recalls that may be reranking at once
          Threshold, \* EXTERNAL_FAIL_THRESHOLD
          Cooldown,  \* RERANKER_EXTERNAL_COOLDOWN_MS, in ticks
          MaxOutages \* bound: times the service goes down

VARIABLES fallback,  \* RERANKER_EXTERNAL_FALLBACK: "skip" or "inprocess"
          up,        \* the service answers
          outages,
          mode,      \* "boot", "external" or "inprocess"
          fails,     \* _consecutiveExternalFails
          cooling,   \* ticks until _externalCooldownUntil
          model,     \* "none", "ready" or "failed"
          loads,     \* model loads under way
          waiting,   \* recalls and the boot that wait for the model
          call       \* [Recalls -> "idle", "external", "model", "scored", "plain"]

vars == <<fallback, up, outages, mode, fails, cooling, model, loads, waiting, call>>

\* Mutant: the failure count keeps the service away, the cooldown does not matter
Available_Mutant == IF mode = "external" THEN fails < Threshold ELSE mode = "inprocess" /\ model # "failed"

Available == IF mode = "external" THEN cooling = 0 ELSE mode = "inprocess" /\ model # "failed"

\* loadModel(): a second caller joins the load under way
LoadModel ==
  loads' = IF model # "none" \/ loads > 0 THEN loads ELSE 1

\* The health check of preloadReranker decides the mode, whatever the policy
Preload ==
  /\ mode = "boot"
  /\ IF up THEN mode' = "external" /\ UNCHANGED loads
           ELSE mode' = "inprocess" /\ LoadModel
  /\ UNCHANGED <<fallback, up, outages, fails, cooling, model, waiting, call>>

Loaded ==
  /\ loads > 0
  /\ loads' = loads - 1
  /\ model' \in {"ready", "failed"}
  /\ call' = [r \in Recalls |-> IF r \in waiting THEN IF model' = "ready" THEN "model" ELSE "plain"
                                ELSE call[r]]
  /\ waiting' = {}
  /\ UNCHANGED <<fallback, up, outages, mode, fails, cooling>>

Ask(r) ==
  /\ call[r] \in {"idle", "scored", "plain"} /\ mode # "boot"
  /\ CASE ~Available -> call' = [call EXCEPT ![r] = "plain"] /\ UNCHANGED <<loads, waiting>>
       [] Available /\ mode = "external" ->
            call' = [call EXCEPT ![r] = "external"] /\ UNCHANGED <<loads, waiting>>
       [] OTHER ->
            /\ call' = [call EXCEPT ![r] = "model"]
            /\ LoadModel
            /\ waiting' = IF model = "none" THEN waiting \cup {r} ELSE waiting
  /\ UNCHANGED <<fallback, up, outages, mode, fails, cooling, model>>

\* Inference may fail; the recall then keeps its order
Infer(r) ==
  /\ call[r] = "model" /\ r \notin waiting
  /\ \E end \in {"scored", "plain"} : call' = [call EXCEPT ![r] = end]
  /\ UNCHANGED <<fallback, up, outages, mode, fails, cooling, model, loads, waiting>>

Scored(r) ==
  /\ call[r] = "external" /\ up
  /\ call' = [call EXCEPT ![r] = "scored"]
  /\ IF mode = "external" THEN fails' = 0 /\ cooling' = 0 ELSE UNCHANGED <<fails, cooling>>
  /\ UNCHANGED <<fallback, up, outages, mode, model, loads, waiting>>

\* A timeout, an error status or no scores.  Only in external mode does it count.
Failed(r) ==
  LET many == mode = "external" /\ fails + 1 >= Threshold IN
  /\ call[r] = "external" /\ ~up
  /\ call' = [call EXCEPT ![r] = "plain"]
  /\ fails' = IF mode # "external" THEN fails
              ELSE IF many /\ fallback = "inprocess" THEN 0
              ELSE IF fails < Threshold THEN fails + 1 ELSE fails
  /\ cooling' = IF many /\ fallback = "skip" THEN Cooldown ELSE cooling
  /\ IF many /\ fallback = "inprocess" THEN mode' = "inprocess" /\ LoadModel
                                       ELSE UNCHANGED <<mode, loads>>
  /\ UNCHANGED <<fallback, up, outages, model, waiting>>

Tick ==
  /\ cooling > 0
  /\ cooling' = cooling - 1
  /\ UNCHANGED <<fallback, up, outages, mode, fails, model, loads, waiting, call>>

Down ==
  /\ up /\ outages < MaxOutages
  /\ up' = FALSE /\ outages' = outages + 1
  /\ UNCHANGED <<fallback, mode, fails, cooling, model, loads, waiting, call>>

Up ==
  /\ ~up
  /\ up' = TRUE
  /\ UNCHANGED <<fallback, outages, mode, fails, cooling, model, loads, waiting, call>>

---------------------------------------------------------------------------
Init ==
  /\ fallback \in {"skip", "inprocess"} /\ up \in BOOLEAN /\ outages = 0
  /\ mode = "boot" /\ fails = 0 /\ cooling = 0
  /\ model = "none" /\ loads = 0 /\ waiting = {}
  /\ call = [r \in Recalls |-> "idle"]

Move(r) == Ask(r) \/ Infer(r) \/ Scored(r) \/ Failed(r)

Next == Preload \/ Loaded \/ Tick \/ Down \/ Up \/ \E r \in Recalls : Move(r)

\* Time passes, and the service answers or the request times out
Fairness == WF_vars(Tick) /\ \A r \in Recalls : WF_vars(Scored(r) \/ Failed(r))

Spec == Init /\ [][Next]_vars /\ Fairness

\* Under the default policy an outage of the external service ends with the
\* outage: once the service stays up its turn comes back for good, without a
\* restart and whoever failed in between (_externalCooldownUntil).
ScoresAgain ==
  (fallback = "skip" /\ mode = "external" /\ <>[]up) ~> [](mode = "external" /\ Available)
=============================================================================
