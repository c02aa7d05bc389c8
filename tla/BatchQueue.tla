------------------------------ MODULE BatchQueue ------------------------------
(***************************************************************************)
(* The asynchronous path of batch_remember: BatchRememberProcessor         *)
(* ._enqueueAsync pushes a job on a Redis list, BatchRememberWorker takes  *)
(* it off with RPOPLPUSH, runs it, and acknowledges it with LREM once the  *)
(* job is completed, pushed again for a retry, or parked in the            *)
(* dead-letter list.  At start-up a worker moves whatever an earlier run   *)
(* left in the processing list back to the queue.                          *)
(*                                                                         *)
(* Every await of the code is a step boundary.  A Redis command may fail   *)
(* without effect, or take effect and lose its reply: lib/redis.js turns   *)
(* both into false / null / 0.  A server process may die at any step.      *)
(* Lists are sequences whose first element is the head of the Redis list.  *)
(***************************************************************************)
EXTENDS Integers, Sequences, Functions

CONSTANTS
    Jobs,        \* jobs callers may submit; the jobId is unique
    Workers,     \* server processes, each with one BatchRememberWorker
    NoEnvelope,  \* what a worker holds between two jobs
    Stamps,      \* values of queuedAt; two pushes may get the same millisecond
    RetryLimit,  \* MEMORY_CONFIG.batchRememberWorker.retryLimit
    MaxFaults    \* bound: Redis failures, crashes and shutdowns together

ASSUME RetryLimitAssumption == RetryLimit \in Nat
ASSUME MaxFaultsAssumption  == MaxFaults \in Nat
ASSUME StampsAssumption     == Stamps # {}

VARIABLES
    queue,       \* queue:batch_remember_queue
    processing,  \* queue:batch_remember_queue:processing
    dead,        \* queue:batch_remember_queue:dead
    status,      \* the state field of the hash batch_job:<jobId>
    caller,      \* progress of the batch_remember(async: true) call of a job
    pc,          \* the await each worker is at
    running,     \* this.running of each worker
    held,        \* the envelope each worker popped
    safeToAck,   \* the local of _processJobEnvelope
    runs,        \* history: how often process() resolved for a job, up to 2
    failures,    \* history: how often process() rejected, up to RetryLimit + 1
    faults       \* Redis failures, crashes and shutdowns so far

vars == <<queue, processing, dead, status, caller, pc, running, held, safeToAck,
          runs, failures, faults>>

lists == <<queue, processing, dead>>
worker == <<pc, running, held, safeToAck>>
history == <<runs, failures>>

\* The job envelope; its JSON text is the identity LREM compares.
Envelope == [job : Jobs, retry : 0..RetryLimit, at : Stamps]

ASSUME NoEnvelopeAssumption == NoEnvelope \notin Envelope

\* down      no process           mark      setBatchJobStatus "processing"
\* recover   requeueProcessing    run       processor.process(params)
\* poll      top of _loop         done      setBatchJobStatus "completed"
\* retry     pushToQueue          requeued  setBatchJobStatus "queued"
\* bury      pushToQueueDead      buried    setBatchJobStatus "dead"
\* ack       the safeToAck test and ackQueueItem
Holding == {"mark", "run", "done", "retry", "requeued", "bury", "buried", "ack"}
PC      == {"down", "recover", "poll"} \cup Holding

Init ==
    /\ queue = << >> /\ processing = << >> /\ dead = << >>
    /\ status = [j \in Jobs |-> "none"]
    /\ caller = [j \in Jobs |-> "idle"]
    /\ pc = [w \in Workers |-> "down"]
    /\ running = [w \in Workers |-> FALSE]
    /\ held = [w \in Workers |-> NoEnvelope]
    /\ safeToAck = [w \in Workers |-> TRUE]
    /\ runs = [j \in Jobs |-> 0]
    /\ failures = [j \in Jobs |-> 0]
    /\ faults = 0

-----------------------------------------------------------------------------
(* Redis lists *)

NoFault == UNCHANGED faults
Fault   == faults < MaxFaults /\ faults' = faults + 1

LPush(l, e) == <<e>> \o l

\* LREM key 1 raw: the first match from the head, if there is one.
LRem(l, e) ==
    IF e \in Range(l)
      THEN [n \in 1..(Len(l) - 1) |-> IF \E k \in 1..n : l[k] = e THEN l[n + 1] ELSE l[n]]
      ELSE l

PopTail(l) == SubSeq(l, 1, Len(l) - 1)
Tip(l)     == l[Len(l)]

\* setBatchJobStatus swallows its failure and nobody looks at its result.
SetBatchJobStatus(j, s) ==
    \/ NoFault /\ status' = [status EXCEPT ![j] = s]
    \/ Fault   /\ UNCHANGED status

-----------------------------------------------------------------------------
(* _enqueueAsync *)

\* pushToQueue; if it reports failure the call throws, whatever Redis did.
Enqueue(j) ==
    /\ caller[j] = "idle"
    /\ \E at \in Stamps :
         LET e == [job |-> j, retry |-> 0, at |-> at]
         IN  \/ /\ NoFault
                /\ queue' = LPush(queue, e)
                /\ caller' = [caller EXCEPT ![j] = "pushed"]
             \/ /\ Fault
                /\ queue' \in {queue, LPush(queue, e)}
                /\ caller' = [caller EXCEPT ![j] = "threw"]
    /\ UNCHANGED <<processing, dead, status, worker, history>>

\* The status is written after the push, so the worker may be ahead of it.
ReportQueued(j) ==
    /\ caller[j] = "pushed"
    /\ SetBatchJobStatus(j, "queued")
    /\ caller' = [caller EXCEPT ![j] = "accepted"]
    /\ UNCHANGED <<lists, worker, history>>

\* The process that serves the call dies between the two writes.
CallerDies(j) ==
    /\ caller[j] = "pushed"
    /\ Fault
    /\ caller' = [caller EXCEPT ![j] = "lost"]
    /\ UNCHANGED <<lists, status, worker, history>>

-----------------------------------------------------------------------------
(* BatchRememberWorker *)

\* Go on to the next await, with the same locals.
Goto(w, next) ==
    /\ pc' = [pc EXCEPT ![w] = next]
    /\ UNCHANGED <<running, held, safeToAck>>

\* The process is gone and its memory with it.
Exit(w) ==
    /\ pc' = [pc EXCEPT ![w] = "down"]
    /\ running' = [running EXCEPT ![w] = FALSE]
    /\ held' = [held EXCEPT ![w] = NoEnvelope]
    /\ safeToAck' = [safeToAck EXCEPT ![w] = TRUE]

\* start(): nothing if already running
Start(w) ==
    /\ pc[w] = "down"
    /\ pc' = [pc EXCEPT ![w] = "recover"]
    /\ running' = [running EXCEPT ![w] = TRUE]
    /\ UNCHANGED <<lists, status, caller, held, safeToAck, history, faults>>

\* requeueProcessing: one RPOPLPUSH processing -> queue per round; an error
\* leaves what remains where it is.
RequeueProcessing(w) ==
    /\ pc[w] = "recover"
    /\ LET move == /\ processing # << >>
                   /\ queue' = LPush(queue, Tip(processing))
                   /\ processing' = PopTail(processing)
       IN  \/ NoFault /\ move /\ UNCHANGED worker
           \/ /\ NoFault /\ processing = << >>
              /\ Goto(w, "poll")
              /\ UNCHANGED <<queue, processing>>
           \/ /\ Fault
              /\ Goto(w, "poll")
              /\ move \/ UNCHANGED <<queue, processing>>
    /\ UNCHANGED <<dead, status, caller, history>>

\* stop(): the loop ends when it next tests running
Stop(w) ==
    /\ running[w]
    /\ Fault
    /\ running' = [running EXCEPT ![w] = FALSE]
    /\ UNCHANGED <<lists, status, caller, pc, held, safeToAck, history>>

\* _loop leaves, the drain promise resolves and the process exits.
Drained(w) ==
    /\ pc[w] = "poll" /\ ~running[w]
    /\ Exit(w)
    /\ UNCHANGED <<lists, status, caller, history, faults>>

\* Mutant: RPOP, with no copy in the processing list.
Pop_Unreliable(w) ==
    /\ pc[w] = "poll" /\ running[w]
    /\ queue # << >> /\ NoFault
    /\ pc' = [pc EXCEPT ![w] = "mark"]
    /\ held' = [held EXCEPT ![w] = Tip(queue)]
    /\ queue' = PopTail(queue)
    /\ UNCHANGED <<processing, dead, status, caller, running, safeToAck, history>>

\* popFromQueueReliable: RPOPLPUSH queue -> processing.  A lost reply looks
\* like an empty queue, with the item already in the processing list.
Pop(w) ==
    /\ pc[w] = "poll" /\ running[w]
    /\ queue # << >>
    /\ \/ /\ NoFault
          /\ pc' = [pc EXCEPT ![w] = "mark"]
          /\ held' = [held EXCEPT ![w] = Tip(queue)]
          /\ UNCHANGED <<running, safeToAck>>
       \/ Fault /\ UNCHANGED worker
    /\ processing' = LPush(processing, Tip(queue))
    /\ queue' = PopTail(queue)
    /\ UNCHANGED <<dead, status, caller, history>>

Job(w) == held[w].job

MarkProcessing(w) ==
    /\ pc[w] = "mark"
    /\ SetBatchJobStatus(Job(w), "processing")
    /\ Goto(w, "run")
    /\ UNCHANGED <<lists, caller, history>>

\* process(params) resolves: its transaction committed, or it rejected items.
ProcessResolves(w) ==
    /\ pc[w] = "run"
    /\ runs' = [runs EXCEPT ![Job(w)] = IF @ < 2 THEN @ + 1 ELSE @]
    /\ Goto(w, "done")
    /\ UNCHANGED <<lists, status, caller, failures, faults>>

\* process(params) rejects: retry while retryCount < limit, else dead-letter.
ProcessRejects(w) ==
    /\ pc[w] = "run"
    /\ failures' = [failures EXCEPT ![Job(w)] = IF @ <= RetryLimit THEN @ + 1 ELSE @]
    /\ Goto(w, IF held[w].retry < RetryLimit THEN "retry" ELSE "bury")
    /\ UNCHANGED <<lists, status, caller, runs, faults>>

\* The push that disposes of a failed job; safeToAck records its success.
\* pushed is the list after the push.
Dispose(w, list, pushed, next) ==
    /\ pc' = [pc EXCEPT ![w] = next]
    /\ UNCHANGED <<running, held>>
    /\ \/ NoFault /\ list' = pushed /\ UNCHANGED safeToAck
       \/ /\ Fault
          /\ list' \in {list, pushed}
          /\ safeToAck' = [safeToAck EXCEPT ![w] = FALSE]

Again(e, at) == [job |-> e.job, retry |-> e.retry + 1, at |-> at]

PushRetry(w) ==
    /\ pc[w] = "retry"
    /\ \E at \in Stamps :
         Dispose(w, queue, LPush(queue, Again(held[w], at)), "requeued")
    /\ UNCHANGED <<processing, dead, status, caller, history>>

PushDead(w) ==
    /\ pc[w] = "bury"
    /\ Dispose(w, dead, LPush(dead, held[w]), "buried")
    /\ UNCHANGED <<queue, processing, status, caller, history>>

\* Mutant: nobody reports that a job was dead-lettered.
ReportOutcome_NotDead(w) ==
    /\ \/ pc[w] = "done"     /\ SetBatchJobStatus(Job(w), "completed")
       \/ pc[w] = "requeued" /\ SetBatchJobStatus(Job(w), "queued")
       \/ pc[w] = "buried"   /\ NoFault /\ UNCHANGED status
    /\ Goto(w, "ack")
    /\ UNCHANGED <<lists, caller, history>>

ReportOutcome(w) ==
    /\ \/ pc[w] = "done"     /\ SetBatchJobStatus(Job(w), "completed")
       \/ pc[w] = "requeued" /\ SetBatchJobStatus(Job(w), "queued")
       \/ pc[w] = "buried"   /\ SetBatchJobStatus(Job(w), "dead")
    /\ Goto(w, "ack")
    /\ UNCHANGED <<lists, caller, history>>

\* ackQueueItem, skipped when the disposition was not confirmed.
Ack(w) ==
    /\ pc[w] = "ack"
    /\ pc' = [pc EXCEPT ![w] = "poll"]
    /\ held' = [held EXCEPT ![w] = NoEnvelope]
    /\ safeToAck' = [safeToAck EXCEPT ![w] = TRUE]
    /\ \/ /\ safeToAck[w] /\ NoFault
          /\ processing' = LRem(processing, held[w])
       \/ safeToAck[w] /\ Fault /\ UNCHANGED processing
       \/ ~safeToAck[w] /\ NoFault /\ UNCHANGED processing
    /\ UNCHANGED <<queue, dead, status, caller, running, history>>

\* The process dies; what it held stays in the processing list.
Crash(w) ==
    /\ pc[w] # "down"
    /\ Fault
    /\ Exit(w)
    /\ UNCHANGED <<lists, status, caller, history>>

-----------------------------------------------------------------------------
WorkerStep(w) ==
    \/ Start(w) \/ RequeueProcessing(w) \/ Drained(w) \/ Pop(w)
    \/ MarkProcessing(w) \/ ProcessResolves(w) \/ ProcessRejects(w)
    \/ PushRetry(w) \/ PushDead(w) \/ ReportOutcome(w) \/ Ack(w)

Next ==
    \/ \E j \in Jobs : Enqueue(j) \/ ReportQueued(j) \/ CallerDies(j)
    \/ \E w \in Workers : WorkerStep(w) \/ Stop(w) \/ Crash(w)

Spec == Init /\ [][Next]_vars

\* A server process that runs keeps running its worker (the event loop is
\* fair), answers the calls it accepted, and is restarted when it exited.
Fairness ==
    /\ \A w \in Workers : WF_vars(WorkerStep(w))
    /\ \A j \in Jobs : WF_vars(ReportQueued(j))

FairSpec == Spec /\ Fairness

-----------------------------------------------------------------------------
(* Properties *)

\* Every list holds envelopes, every worker is at one of the awaits of the
\* code with the envelope it popped, and the counters stay in their ranges.
TypeOK ==
    /\ queue \in Seq(Envelope) /\ processing \in Seq(Envelope) /\ dead \in Seq(Envelope)
    /\ status \in [Jobs -> {"none", "queued", "processing", "completed", "dead"}]
    /\ caller \in [Jobs -> {"idle", "pushed", "accepted", "threw", "lost"}]
    /\ pc \in [Workers -> PC] /\ running \in [Workers -> BOOLEAN]
    /\ held \in [Workers -> Envelope \cup {NoEnvelope}]
    /\ safeToAck \in [Workers -> BOOLEAN]
    /\ \A w \in Workers : pc[w] \in Holding => held[w] \in Envelope
    /\ runs \in [Jobs -> 0..2]
    /\ failures \in [Jobs -> 0..(RetryLimit + 1)]
    /\ faults \in 0..MaxFaults

Listed(l, j)  == \E e \in Range(l) : e.job = j
HeldBy(w, j)  == pc[w] \in Holding /\ Job(w) = j
Settled(j)    == runs[j] > 0 \/ Listed(dead, j)

\* At-least-once: a job whose push Redis confirmed is waiting, in flight,
\* parked or processed, whatever crashes, lost replies and restarts did
\* (BatchRememberWorker: "disposition ... ack ... lossless").
NoJobLost ==
    \A j \in Jobs : caller[j] \in {"pushed", "accepted", "lost"} =>
        Listed(queue, j) \/ Listed(processing, j) \/ Settled(j)

\* A job is parked only after the first run and each of the RetryLimit
\* retries failed: no crash or duplicate delivery shortens its budget.
DeadLetterEarned == \A j \in Jobs : Listed(dead, j) => failures[j] = RetryLimit + 1

\* What the queue owes to an accepted job: it stays until it has been processed,
\* and is given up only after every retry.
JobsKept == NoJobLost /\ DeadLetterEarned

\* What makes NoJobLost and DeadLetterEarned inductive.  An envelope has a
\* successor when its job is settled or a later copy of it, one with a higher
\* retryCount and so with another text, is in the queue or in flight.
Successor(e) ==
    \/ Settled(e.job)
    \/ \E s \in Range(queue) \cup Range(processing) : s.job = e.job /\ s.retry > e.retry

\* ackQueueItem is only reached for an envelope that has a successor.
AckJustified ==
    \A w \in Workers :
        /\ pc[w] = "done" => runs[Job(w)] > 0
        /\ pc[w] \in {"requeued", "buried", "ack"} /\ safeToAck[w] => Successor(held[w])

\* retryCount never runs ahead of the failures that really happened.
RetriesEarned ==
    /\ \A e \in Range(queue) \cup Range(processing) : failures[e.job] >= e.retry
    /\ \A w \in Workers : pc[w] \in Holding => failures[Job(w)] >= held[w].retry
    /\ \A w \in Workers : pc[w] = "retry" =>
          held[w].retry < RetryLimit /\ failures[Job(w)] > held[w].retry
    /\ \A w \in Workers : pc[w] = "bury" => failures[Job(w)] = RetryLimit + 1

IInv == TypeOK /\ NoJobLost /\ AckJustified /\ RetriesEarned /\ DeadLetterEarned

\* An item that stays in the processing list with no worker working on it
\* and every worker past start-up waits for the next boot.
Stranded(j) ==
    /\ Listed(processing, j)
    /\ \A w \in Workers : pc[w] \notin {"down", "recover"} /\ ~HeldBy(w, j)

\* When a job has left the queue and no fault hit, batch_status reports how
\* it ended, unless the late "queued" of _enqueueAsync is still to come or
\* overtook the worker's own report.
StatusTellsOutcome ==
    \A j \in Jobs :
        /\ faults = 0 /\ caller[j] = "accepted"
        /\ ~Listed(queue, j) /\ ~Listed(processing, j)
        => status[j] \in {"queued", IF runs[j] > 0 THEN "completed" ELSE "dead"}

\* Every accepted job is eventually processed or parked; only a fault can leave
\* it stranded until the next boot (requeueProcessing).
EventuallySettled ==
    \A j \in Jobs : caller[j] = "accepted" ~> Settled(j) \/ (Stranded(j) /\ faults > 0)

\* The queue implements the promise of JobDelivery.
Delivery == INSTANCE JobDelivery WITH
    delivery <- [j \in Jobs |->
        IF runs[j] > 0 THEN "done"
        ELSE IF Listed(dead, j) THEN "dead"
        ELSE IF Listed(queue, j) \/ Listed(processing, j) THEN "pending"
        ELSE "absent"]

\* Seen from outside, a job only ever moves from absent to pending to dead to
\* done (JobDelivery!Spec): no interleaving takes a pending job back.
ImplementsDelivery == Delivery!Spec
=============================================================================
