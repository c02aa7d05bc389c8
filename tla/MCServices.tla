----------------------------- MODULE MCServices -----------------------------
(***************************************************************************)
(* Small instances of what the memory server asks of slow services: the    *)
(* counting semaphore, the dispatch chain of a language-model request and  *)
(* the circuit breaker (EXTENDS), the embedding of stored content and the  *)
(* reranker.  `part` says which of them a behaviour is about: that one     *)
(* moves under the fairness of its module, the rest stand still.           *)
(***************************************************************************)
EXTENDS Services

CONSTANTS r1, r2, p1, p2, i1, i2, a, b, w1, master, NoVec, Free

VARIABLES
  part,
  live, used, key, content, emb, versions, overwritten, lock, clientPc, caller, target, patch,
    saved, busy, job, text, disruptions,
  fallback, up, outages, mode, fails, cooling, model, loads, waiting, call

contentVars == <<live, used, key, content, emb, versions, overwritten, lock, clientPc, caller,
                 target, patch, saved, busy, job, text, disruptions>>
rerankerVars == <<fallback, up, outages, mode, fails, cooling, model, loads, waiting, call>>

\* Two requests on two providers with one slot each.
TwoProviders == <<p1, p2>>
OneSlot == [p \in {p1, p2} |-> 1]

\* Two rows, one client of the master, one worker.
Content == INSTANCE FragmentContent WITH
  Ids <- {i1, i2}, Contents <- {a, b}, Keys <- {}, Master <- master, Group <- [k \in {} |-> {}],
  Clients <- {r1}, Workers <- {w1}, MaxDisruptions <- 2, pc <- clientPc

\* Two recalls, two failures in a row, two outages.
Reranker == INSTANCE Reranker WITH
  Recalls <- {1, 2}, Threshold <- 2, Cooldown <- 2, MaxOutages <- 2

---------------------------------------------------------------------------
ServicesInit ==
  /\ part \in {"semaphore", "breaker", "llm", "content", "reranker"}
  /\ Init
  /\ Breaker!Init /\ (part # "breaker" => ~shared)
  /\ Llm!Init /\ (part # "llm" => enabled)
  /\ Content!Init
  /\ Reranker!Init /\ (part # "reranker" => fallback = "skip" /\ up)

\* The parts but one stand still
Still(p) ==
  /\ UNCHANGED part
  /\ p = "semaphore" \/ UNCHANGED vars
  /\ p = "breaker" \/ UNCHANGED breakerVars
  /\ p = "llm" \/ UNCHANGED llmVars
  /\ p = "content" \/ UNCHANGED contentVars
  /\ p = "reranker" \/ UNCHANGED rerankerVars

ServicesNext ==
  \/ part = "semaphore" /\ Next /\ Still(part)
  \/ part = "breaker" /\ Breaker!Next /\ Still(part)
  \/ part = "llm" /\ Llm!Next /\ Still(part)
  \/ part = "content" /\ Content!Next /\ Still(part)
  \/ part = "reranker" /\ Reranker!Next /\ Still(part)

\* The fairness of the modules' FairSpec, for the part that moves.
Fairness ==
  /\ \A t \in Tasks : WF_vars(part = "semaphore" /\ Release(t))
  /\ WF_breakerVars(part = "breaker" /\ Breaker!Tick /\ UNCHANGED shared)
  /\ \A p \in Callers :
       /\ WF_breakerVars(part = "breaker" /\ ~shared /\ Breaker!MemStep(p) /\ UNCHANGED shared)
       /\ WF_breakerVars(part = "breaker" /\ shared /\ Breaker!RedisStep(p) /\ UNCHANGED shared)
  /\ WF_llmVars(part = "llm" /\ Llm!Tick)
  /\ \A r \in {r1, r2} :
       /\ WF_llmVars(part = "llm" /\ Llm!Proceed(r))
       /\ WF_llmVars(part = "llm" /\ pc[r] = "reading" /\ Llm!CallFails(r))
  /\ WF_contentVars(part = "content" /\ Content!ClientStep(r1))
  /\ WF_contentVars(part = "content" /\ Content!Store(w1))
  /\ \A i \in {i1, i2} : SF_contentVars(part = "content" /\ Content!Select(w1, i))
  /\ WF_rerankerVars(part = "reranker" /\ Reranker!Tick)
  /\ \A r \in {1, 2} : WF_rerankerVars(part = "reranker" /\ (Reranker!Scored(r) \/ Reranker!Failed(r)))

servicesVars == <<part, vars, breakerVars, llmVars, contentVars, rerankerVars>>

ServicesSpec == ServicesInit /\ [][ServicesNext]_servicesVars /\ Fairness

---------------------------------------------------------------------------
(* Properties.  SlotsKept is the semaphore's, CallsBounded and             *)
(* UsesSemaphores are stated in Services; each is that of its module.      *)

\* An open circuit breaker holds for its duration and then lets a call pass
\* again (OPEN_DURATION_MS).
OpenForItsTime == Breaker!OpenForItsTime

\* A request starts no call past its deadline, and ends (llmJson).
AnsweredInTime == Llm!AnsweredInTime

\* A row without a vector gets one, or goes (EmbeddingWorker).
EventuallyEmbedded == Content!EventuallyEmbedded

\* The external reranker's turn comes back after an outage (_externalCooldownUntil).
ScoresAgain == Reranker!ScoresAgain
=============================================================================
