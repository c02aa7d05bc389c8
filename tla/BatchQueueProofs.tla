-------------------------- MODULE BatchQueueProofs --------------------------
(***************************************************************************)
(* For any set of jobs, any number of servers, any retry limit and any     *)
(* finite number of faults: no confirmed job is lost and none is parked    *)
(* before its retries are used up.  NoJobLost alone is not inductive: an   *)
(* acknowledgement drops an envelope, and it may do so because a successor *)
(* of that envelope (a later copy, a parked copy or a finished run) is     *)
(* already recorded (AckJustified); and a copy is later than another only  *)
(* because retryCount counts real failures (RetriesEarned).                *)
(***************************************************************************)
EXTENDS BatchQueue, TLAPS

\* LPUSH yields a list with exactly one element more.
LEMMA LPushFacts ==
    ASSUME NEW S, NEW l \in Seq(S), NEW e \in S
    PROVE  /\ LPush(l, e) \in Seq(S)
           /\ Range(LPush(l, e)) = Range(l) \cup {e}
<1>1. LPush(l, e) \in Seq(S)
  BY DEF LPush
<1>2. /\ DOMAIN LPush(l, e) = 1..(Len(l) + 1)
      /\ LPush(l, e)[1] = e
      /\ \A i \in 1..Len(l) : LPush(l, e)[i + 1] = l[i]
  BY DEF LPush
<1>3. \A x \in Range(l) : x \in Range(LPush(l, e))
  BY <1>2 DEF Range
<1>4. e \in Range(LPush(l, e))
  BY <1>2 DEF Range
<1>5. \A x \in Range(LPush(l, e)) : x \in Range(l) \cup {e}
  <2> TAKE x \in Range(LPush(l, e))
  <2>1. PICK i \in 1..(Len(l) + 1) : x = LPush(l, e)[i]
    BY <1>2 DEF Range
  <2>2. CASE i = 1
    BY <2>1, <2>2, <1>2
  <2>3. CASE i # 1
    <3>1. i - 1 \in 1..Len(l) /\ (i - 1) + 1 = i
      BY <2>1, <2>3
    <3>2. x = l[i - 1]
      BY <3>1, <2>1, <1>2
    <3> QED BY <3>1, <3>2 DEF Range
  <2> QED BY <2>2, <2>3
<1> QED BY <1>1, <1>3, <1>4, <1>5

\* The tail that RPOPLPUSH leaves holds all elements but the moved one.
LEMMA PopTailFacts ==
    ASSUME NEW S, NEW l \in Seq(S), l # << >>
    PROVE  /\ PopTail(l) \in Seq(S)
           /\ Tip(l) \in S
           /\ Range(l) = Range(PopTail(l)) \cup {Tip(l)}
<1>1. Len(l) \in Nat \ {0}
  BY DEF PopTail
<1>2. PopTail(l) \in Seq(S) /\ Tip(l) \in S
  BY <1>1 DEF PopTail, Tip
<1>3. /\ DOMAIN PopTail(l) = 1..(Len(l) - 1)
      /\ \A i \in 1..(Len(l) - 1) : PopTail(l)[i] = l[i]
  BY <1>1 DEF PopTail
<1>4. \A x \in Range(l) : x \in Range(PopTail(l)) \cup {Tip(l)}
  BY <1>1, <1>3 DEF Range, Tip
<1>5. \A x \in Range(PopTail(l)) \cup {Tip(l)} : x \in Range(l)
  BY <1>1, <1>3 DEF Range, Tip
<1> QED BY <1>2, <1>4, <1>5

\* LREM removes no other element than the acknowledged one.
LEMMA LRemFacts ==
    ASSUME NEW S, NEW l \in Seq(S), NEW e \in S
    PROVE  /\ LRem(l, e) \in Seq(S)
           /\ Range(LRem(l, e)) \subseteq Range(l)
           /\ Range(l) \ {e} \subseteq Range(LRem(l, e))
<1>1. CASE e \notin Range(l)
  BY <1>1 DEF LRem
<1>2. CASE e \in Range(l)
  <2> DEFINE r == [n \in 1..(Len(l) - 1) |-> IF \E k \in 1..n : l[k] = e THEN l[n + 1] ELSE l[n]]
  <2>1. LRem(l, e) = r
    BY <1>2 DEF LRem
  <2>2. PICK i \in 1..Len(l) : l[i] = e
    BY <1>2 DEF Range
  <2>3. r \in Seq(S)
    BY <2>2
  <2>4. \A x \in Range(r) : x \in Range(l)
    BY <2>2 DEF Range
  <2>5. \A x \in Range(l) \ {e} : x \in Range(r)
    <3> TAKE x \in Range(l) \ {e}
    <3>1. PICK n \in 1..Len(l) : l[n] = x
      BY DEF Range
    <3>2. DOMAIN r = 1..(Len(l) - 1)
      OBVIOUS
    <3>3. CASE \E k \in 1..n : l[k] = e
      <4>1. PICK k \in 1..n : l[k] = e
        BY <3>3
      <4>2. k # n
        BY <4>1, <3>1
      <4>3. n - 1 \in 1..(Len(l) - 1) /\ k \in 1..(n - 1) /\ (n - 1) + 1 = n
        BY <4>1, <4>2, <3>1
      <4>4. r[n - 1] = x
        BY <4>1, <4>3, <3>1
      <4> QED BY <4>3, <4>4, <3>2 DEF Range
    <3>4. CASE ~\E k \in 1..n : l[k] = e
      <4>1. n \in 1..(Len(l) - 1)
        BY <3>4, <2>2, <3>1
      <4>2. r[n] = x
        BY <4>1, <3>4, <3>1
      <4> QED BY <4>1, <4>2, <3>2 DEF Range
    <3> QED BY <3>3, <3>4
  <2> QED BY <2>1, <2>3, <2>4, <2>5
<1> QED BY <1>1, <1>2

-----------------------------------------------------------------------------
(* Type correctness *)

\* The list facts for lists of envelopes, in the form the steps use.
LEMMA EnvelopeLists ==
    /\ \A l \in Seq(Envelope), e \in Envelope :
         /\ LPush(l, e) \in Seq(Envelope)
         /\ Range(LPush(l, e)) = Range(l) \cup {e}
    /\ \A l \in Seq(Envelope), e \in Envelope :
         /\ LRem(l, e) \in Seq(Envelope)
         /\ Range(LRem(l, e)) \subseteq Range(l)
         /\ Range(l) \ {e} \subseteq Range(LRem(l, e))
    /\ \A l \in Seq(Envelope) : l # << >> =>
         /\ PopTail(l) \in Seq(Envelope)
         /\ Tip(l) \in Envelope
         /\ Range(l) = Range(PopTail(l)) \cup {Tip(l)}
    /\ \A l \in Seq(Envelope) : Range(l) \subseteq Envelope
<1>1. \A l \in Seq(Envelope) : Range(l) \subseteq Envelope
  BY DEF Range
<1>2. \A l \in Seq(Envelope), e \in Envelope :
         /\ LPush(l, e) \in Seq(Envelope)
         /\ Range(LPush(l, e)) = Range(l) \cup {e}
  BY LPushFacts
<1>3. \A l \in Seq(Envelope), e \in Envelope :
         /\ LRem(l, e) \in Seq(Envelope)
         /\ Range(LRem(l, e)) \subseteq Range(l)
         /\ Range(l) \ {e} \subseteq Range(LRem(l, e))
  BY LRemFacts
<1>4. \A l \in Seq(Envelope) : l # << >> =>
         /\ PopTail(l) \in Seq(Envelope)
         /\ Tip(l) \in Envelope
         /\ Range(l) = Range(PopTail(l)) \cup {Tip(l)}
  BY PopTailFacts
<1> QED BY <1>1, <1>2, <1>3, <1>4

\* A status write keeps the type of the job status.
LEMMA StatusType ==
    ASSUME TypeOK, NEW j \in Jobs,
           NEW s \in {"none", "queued", "processing", "completed", "dead"},
           SetBatchJobStatus(j, s)
    PROVE  /\ status' \in [Jobs -> {"none", "queued", "processing", "completed", "dead"}]
           /\ faults' \in 0..MaxFaults
<1>1. status' = [status EXCEPT ![j] = s] \/ status' = status
  BY DEF SetBatchJobStatus
<1>2. faults' = faults \/ (faults < MaxFaults /\ faults' = faults + 1)
  BY DEF SetBatchJobStatus, NoFault, Fault
<1>3. status' \in [Jobs -> {"none", "queued", "processing", "completed", "dead"}]
  BY <1>1 DEF TypeOK
<1>4. faults' \in 0..MaxFaults
  BY <1>2, MaxFaultsAssumption DEF TypeOK
<1> QED BY <1>3, <1>4

\* The queue starts well typed.
LEMMA InitTypeOK == Init => TypeOK
  BY RetryLimitAssumption, MaxFaultsAssumption DEF Init, TypeOK, PC, Holding

\* The number of faults stays within its bound.
LEMMA FaultType ==
    ASSUME TypeOK, NoFault \/ Fault
    PROVE  faults' \in 0..MaxFaults
  BY MaxFaultsAssumption DEF TypeOK, NoFault, Fault

\* A worker inside _processJob holds an envelope of a job.
LEMMA HeldType ==
    ASSUME TypeOK, NEW w \in Workers, pc[w] \in Holding
    PROVE  held[w] \in Envelope /\ Job(w) \in Jobs /\ held[w].retry \in 0..RetryLimit
  BY DEF TypeOK, Envelope, Job

\* Every step keeps the types; the retry bound needs RetriesEarned.
LEMMA NextTypeOK == TypeOK /\ RetriesEarned /\ [Next]_vars => TypeOK'
<1> SUFFICES ASSUME TypeOK, RetriesEarned, [Next]_vars PROVE TypeOK'
  OBVIOUS
<1> USE DEF lists, history, worker
<1>1. ASSUME NEW j \in Jobs, Enqueue(j) PROVE TypeOK'
  <2>1. PICK at \in Stamps :
           queue' \in {queue, LPush(queue, [job |-> j, retry |-> 0, at |-> at])}
    BY <1>1 DEF Enqueue
  <2>2. [job |-> j, retry |-> 0, at |-> at] \in Envelope
    BY RetryLimitAssumption DEF Envelope
  <2>3. queue' \in Seq(Envelope)
    <3>1. queue \in Seq(Envelope)
      BY DEF TypeOK
    <3>2. LPush(queue, [job |-> j, retry |-> 0, at |-> at]) \in Seq(Envelope)
      BY <3>1, <2>2, LPushFacts
    <3> QED BY <3>1, <3>2, <2>1
  <2>4. /\ NoFault \/ Fault
        /\ caller' = [caller EXCEPT ![j] = "pushed"] \/ caller' = [caller EXCEPT ![j] = "threw"]
    BY <1>1 DEF Enqueue
  <2>5. faults' \in 0..MaxFaults
    BY <2>4, FaultType
  <2> QED BY <1>1, <2>3, <2>4, <2>5 DEF Enqueue, TypeOK
<1>2. ASSUME NEW j \in Jobs, ReportQueued(j) PROVE TypeOK'
  BY <1>2, StatusType DEF ReportQueued, TypeOK
<1>3. ASSUME NEW j \in Jobs, CallerDies(j) PROVE TypeOK'
  BY <1>3, FaultType DEF CallerDies, TypeOK
<1>4. ASSUME NEW w \in Workers, Start(w) PROVE TypeOK'
  BY <1>4 DEF Start, TypeOK, PC, Holding
<1>5. ASSUME NEW w \in Workers, RequeueProcessing(w) PROVE TypeOK'
  <2>1. \/ UNCHANGED <<queue, processing>>
        \/ /\ processing # << >>
           /\ queue' = LPush(queue, Tip(processing))
           /\ processing' = PopTail(processing)
    BY <1>5 DEF RequeueProcessing
  <2>2. queue' \in Seq(Envelope) /\ processing' \in Seq(Envelope)
    BY <2>1, EnvelopeLists DEF TypeOK
  <2>3. /\ faults' \in 0..MaxFaults
        /\ UNCHANGED worker \/ Goto(w, "poll")
    BY <1>5, FaultType DEF RequeueProcessing
  <2> QED BY <1>5, <2>2, <2>3 DEF RequeueProcessing, Goto, TypeOK, PC, Holding
<1>6. ASSUME NEW w \in Workers, Stop(w) PROVE TypeOK'
  BY <1>6, FaultType DEF Stop, TypeOK
<1>7. ASSUME NEW w \in Workers, Drained(w) PROVE TypeOK'
  BY <1>7 DEF Drained, Exit, TypeOK, PC, Holding
<1>8. ASSUME NEW w \in Workers, Pop(w) PROVE TypeOK'
  <2>1. queue' \in Seq(Envelope) /\ processing' \in Seq(Envelope) /\ Tip(queue) \in Envelope
    BY <1>8, EnvelopeLists DEF Pop, TypeOK
  <2>2. /\ faults' \in 0..MaxFaults
        /\ UNCHANGED <<running, safeToAck>>
        /\ \/ UNCHANGED <<pc, held>>
           \/ /\ pc' = [pc EXCEPT ![w] = "mark"]
              /\ held' = [held EXCEPT ![w] = Tip(queue)]
    BY <1>8, FaultType DEF Pop
  <2> QED BY <1>8, <2>1, <2>2 DEF Pop, TypeOK, PC, Holding
<1>9. ASSUME NEW w \in Workers, MarkProcessing(w) PROVE TypeOK'
  <2>1. Job(w) \in Jobs /\ held[w] \in Envelope
    BY <1>9, HeldType DEF MarkProcessing, Holding
  <2> QED BY <1>9, <2>1, StatusType DEF MarkProcessing, Goto, TypeOK, PC, Holding
<1>10. ASSUME NEW w \in Workers, ProcessResolves(w) PROVE TypeOK'
  <2>1. Job(w) \in Jobs /\ held[w] \in Envelope
    BY <1>10, HeldType DEF ProcessResolves, Holding
  <2>2. runs' \in [Jobs -> 0..2]
    BY <1>10, <2>1 DEF ProcessResolves, TypeOK
  <2> QED BY <1>10, <2>1, <2>2 DEF ProcessResolves, Goto, TypeOK, PC, Holding
<1>11. ASSUME NEW w \in Workers, ProcessRejects(w) PROVE TypeOK'
  <2>1. Job(w) \in Jobs /\ held[w] \in Envelope
    BY <1>11, HeldType DEF ProcessRejects, Holding
  <2>2. failures' \in [Jobs -> 0..(RetryLimit + 1)]
    BY <1>11, <2>1, RetryLimitAssumption DEF ProcessRejects, TypeOK
  <2>3. Goto(w, "retry") \/ Goto(w, "bury")
    BY <1>11 DEF ProcessRejects
  <2> QED BY <1>11, <2>1, <2>2, <2>3 DEF ProcessRejects, Goto, TypeOK, PC, Holding
<1>12. ASSUME NEW w \in Workers, PushRetry(w) PROVE TypeOK'
  <2>1. held[w] \in Envelope /\ held[w].retry < RetryLimit
    BY <1>12, HeldType DEF PushRetry, RetriesEarned, Holding
  <2>2. PICK at \in Stamps : queue' \in {queue, LPush(queue, Again(held[w], at))}
    BY <1>12 DEF PushRetry, Dispose
  <2>3. Again(held[w], at) \in Envelope
    BY <2>1, RetryLimitAssumption DEF Envelope, Again
  <2>4. queue' \in Seq(Envelope)
    <3>1. queue \in Seq(Envelope)
      BY DEF TypeOK
    <3>2. LPush(queue, Again(held[w], at)) \in Seq(Envelope)
      BY <3>1, <2>3, LPushFacts
    <3> QED BY <3>1, <3>2, <2>2
  <2>5. /\ NoFault \/ Fault
        /\ pc' = [pc EXCEPT ![w] = "requeued"]
        /\ UNCHANGED <<running, held>>
        /\ safeToAck' = safeToAck \/ safeToAck' = [safeToAck EXCEPT ![w] = FALSE]
    BY <1>12 DEF PushRetry, Dispose
  <2>6. faults' \in 0..MaxFaults
    BY <2>5, FaultType
  <2> QED BY <1>12, <2>1, <2>4, <2>5, <2>6 DEF PushRetry, TypeOK, PC, Holding
<1>13. ASSUME NEW w \in Workers, PushDead(w) PROVE TypeOK'
  <2>1. held[w] \in Envelope
    BY <1>13, HeldType DEF PushDead, Holding
  <2>2. dead' \in {dead, LPush(dead, held[w])}
    BY <1>13 DEF PushDead, Dispose
  <2>3. dead' \in Seq(Envelope)
    <3>1. dead \in Seq(Envelope)
      BY DEF TypeOK
    <3>2. LPush(dead, held[w]) \in Seq(Envelope)
      BY <3>1, <2>1, LPushFacts
    <3> QED BY <3>1, <3>2, <2>2
  <2>4. /\ NoFault \/ Fault
        /\ pc' = [pc EXCEPT ![w] = "buried"]
        /\ UNCHANGED <<running, held>>
        /\ safeToAck' = safeToAck \/ safeToAck' = [safeToAck EXCEPT ![w] = FALSE]
    BY <1>13 DEF PushDead, Dispose
  <2>5. faults' \in 0..MaxFaults
    BY <2>4, FaultType
  <2> QED BY <1>13, <2>1, <2>3, <2>4, <2>5 DEF PushDead, TypeOK, PC, Holding
<1>14. ASSUME NEW w \in Workers, ReportOutcome(w) PROVE TypeOK'
  <2>1. Job(w) \in Jobs /\ held[w] \in Envelope
    BY <1>14, HeldType DEF ReportOutcome, Holding
  <2>2. /\ status' \in [Jobs -> {"none", "queued", "processing", "completed", "dead"}]
        /\ faults' \in 0..MaxFaults
    BY <1>14, <2>1, StatusType DEF ReportOutcome
  <2> QED BY <1>14, <2>1, <2>2 DEF ReportOutcome, Goto, TypeOK, PC, Holding
<1>15. ASSUME NEW w \in Workers, Ack(w) PROVE TypeOK'
  <2>1. held[w] \in Envelope
    BY <1>15, HeldType DEF Ack, Holding
  <2>2. processing' \in {processing, LRem(processing, held[w])} /\ (NoFault \/ Fault)
    BY <1>15 DEF Ack
  <2>3. processing' \in Seq(Envelope)
    <3>1. processing \in Seq(Envelope)
      BY DEF TypeOK
    <3>2. LRem(processing, held[w]) \in Seq(Envelope)
      BY <3>1, <2>1, LRemFacts
    <3> QED BY <3>1, <3>2, <2>2
  <2>4. faults' \in 0..MaxFaults
    BY <2>2, FaultType
  <2> QED BY <1>15, <2>3, <2>4 DEF Ack, TypeOK, PC, Holding
<1>16. ASSUME NEW w \in Workers, Crash(w) PROVE TypeOK'
  BY <1>16, FaultType DEF Crash, Exit, TypeOK, PC, Holding
<1>17. CASE UNCHANGED vars
  BY <1>17 DEF vars, TypeOK
<1> QED
  BY <1>1, <1>2, <1>3, <1>4, <1>5, <1>6, <1>7, <1>8, <1>9, <1>10, <1>11, <1>12, <1>13,
     <1>14, <1>15, <1>16, <1>17 DEF Next, WorkerStep

-----------------------------------------------------------------------------
(* No job is lost, and no retry budget is cut short *)

Live == Range(queue) \cup Range(processing)

Present(j) == Listed(queue, j) \/ Listed(processing, j) \/ Settled(j)

\* Nothing that keeps a job present goes away in this step.
Grows ==
    /\ Live \subseteq Live'
    /\ Range(dead) \subseteq Range(dead')
    /\ \A j \in Jobs : runs[j] > 0 => runs'[j] > 0

Keeps ==
    /\ \A j \in Jobs : Present(j) => Present(j)'
    /\ \A e \in Envelope : Successor(e) => Successor(e)'
    /\ \A j \in Jobs : runs[j] > 0 => runs'[j] > 0

\* A step after which no envelope is gone keeps every job present and every
\* successor.
LEMMA GrowsKeeps ==
    ASSUME TypeOK, Grows
    PROVE  Keeps
<1>1. \A j \in Jobs : Settled(j) => Settled(j)'
  BY DEF Grows, Settled, Listed
<1>2. \A j \in Jobs : Listed(queue, j) \/ Listed(processing, j)
                         => (Listed(queue, j) \/ Listed(processing, j))'
  BY DEF Grows, Live, Listed
<1>3. \A e \in Envelope : e.job \in Jobs
  BY DEF Envelope
<1>4. \A e \in Envelope : Successor(e) => Successor(e)'
  BY <1>1, <1>3 DEF Grows, Live, Successor
<1>5. \A j \in Jobs : runs[j] > 0 => runs'[j] > 0
  BY DEF Grows
<1> QED BY <1>1, <1>2, <1>4, <1>5 DEF Present, Keeps

\* The parts of the invariant that speak of one worker, and of the lists.
WorkerOK(w) ==
    /\ pc[w] = "done" => runs[Job(w)] > 0
    /\ pc[w] \in {"requeued", "buried", "ack"} /\ safeToAck[w] => Successor(held[w])
    /\ pc[w] \in Holding => failures[Job(w)] >= held[w].retry
    /\ pc[w] = "retry" => held[w].retry < RetryLimit /\ failures[Job(w)] > held[w].retry
    /\ pc[w] = "bury" => failures[Job(w)] = RetryLimit + 1

LiveEarned == \A e \in Live : failures[e.job] >= e.retry

\* The invariant, split into its part about the lists and one part per worker.
LEMMA Parts ==
    AckJustified /\ RetriesEarned <=> LiveEarned /\ \A w \in Workers : WorkerOK(w)
  BY DEF AckJustified, RetriesEarned, LiveEarned, Live, WorkerOK

\* A worker that does not move keeps its part of the invariant.
LEMMA WorkerKeeps ==
    ASSUME TypeOK, TypeOK', Keeps, NEW v \in Workers, WorkerOK(v),
           pc'[v] = pc[v], held'[v] = held[v], safeToAck'[v] = safeToAck[v],
           \A j \in Jobs : failures'[j] >= failures[j]
    PROVE  WorkerOK(v)'
<1>1. CASE pc[v] \notin Holding
  BY <1>1 DEF WorkerOK, Holding
<1>2. CASE pc[v] \in Holding
  <2>1. held[v] \in Envelope /\ Job(v) \in Jobs /\ held[v].retry \in Nat
    BY <1>2, HeldType, RetryLimitAssumption
  <2>2. /\ failures[Job(v)] \in 0..(RetryLimit + 1)
        /\ failures'[Job(v)] \in 0..(RetryLimit + 1)
        /\ failures'[Job(v)] >= failures[Job(v)]
    BY <2>1 DEF TypeOK
  <2>3. runs[Job(v)] > 0 => runs'[Job(v)] > 0
    BY <2>1 DEF Keeps
  <2>4. Successor(held[v]) => Successor(held[v])'
    <3>1. PICK e \in Envelope : e = held[v] /\ e = held'[v]
      BY <2>1
    <3>2. Successor(e) => Successor(e)'
      BY <3>1 DEF Keeps
    <3> QED BY <3>1, <3>2 DEF Successor
  <2>5. Job(v)' = Job(v)
    BY DEF Job
  <2>6. /\ (pc[v] = "done" => runs[Job(v)] > 0)'
        /\ (pc[v] \in {"requeued", "buried", "ack"} /\ safeToAck[v] => Successor(held[v]))'
    BY <2>3, <2>4, <2>5 DEF WorkerOK
  <2> QED BY <2>1, <2>2, <2>5, <2>6, RetryLimitAssumption DEF WorkerOK
<1> QED BY <1>1, <1>2

\* A step of worker w in which no envelope is added or dropped.
LEMMA QuietStep ==
    ASSUME IInv, TypeOK', NEW w \in Workers,
           Live' = Live, UNCHANGED <<dead, caller, failures>>,
           \A j \in Jobs : runs[j] > 0 => runs'[j] > 0,
           \A v \in Workers \ {w} :
              pc'[v] = pc[v] /\ held'[v] = held[v] /\ safeToAck'[v] = safeToAck[v],
           WorkerOK(w)'
    PROVE  IInv'
<1>1. Grows
  BY DEF Grows
<1>2. NoJobLost'
  BY <1>1, GrowsKeeps DEF Keeps, IInv, NoJobLost, Present
<1>3. LiveEarned'
  BY Parts DEF IInv, LiveEarned
<1>4. \A j \in Jobs : failures'[j] >= failures[j]
  BY DEF IInv, TypeOK
<1>5. \A v \in Workers : WorkerOK(v)'
  BY <1>1, <1>4, GrowsKeeps, WorkerKeeps, Parts DEF IInv
<1>6. (AckJustified /\ RetriesEarned)'
  BY <1>3, <1>5 DEF AckJustified, RetriesEarned, LiveEarned, Live, WorkerOK
<1>7. DeadLetterEarned'
  BY DEF IInv, DeadLetterEarned, Listed
<1> QED BY <1>2, <1>6, <1>7 DEF IInv

\* Every step of every server, caller and fault keeps the inductive invariant.
THEOREM NextIInv == IInv /\ [Next]_vars => IInv'
<1> SUFFICES ASSUME IInv, [Next]_vars PROVE IInv'
  OBVIOUS
<1>0. TypeOK /\ TypeOK' /\ NoJobLost /\ AckJustified /\ RetriesEarned /\ DeadLetterEarned
  BY NextTypeOK DEF IInv
<1> DEFINE Rest == NoJobLost /\ AckJustified /\ RetriesEarned /\ DeadLetterEarned
<1>1. ASSUME NEW j \in Jobs, Enqueue(j) PROVE Rest'
  <2>1. PICK at \in Stamps :
          \/ /\ queue' = LPush(queue, [job |-> j, retry |-> 0, at |-> at])
             /\ caller' = [caller EXCEPT ![j] = "pushed"]
          \/ /\ queue' \in {queue, LPush(queue, [job |-> j, retry |-> 0, at |-> at])}
             /\ caller' = [caller EXCEPT ![j] = "threw"]
    BY <1>1 DEF Enqueue
  <2> DEFINE e == [job |-> j, retry |-> 0, at |-> at]
  <2>2. e \in Envelope /\ e.job = j /\ e.retry = 0
    BY RetryLimitAssumption DEF Envelope
  <2> HIDE DEF e
  <2>3. Range(LPush(queue, e)) = Range(queue) \cup {e}
    BY <1>0, <2>2, LPushFacts DEF TypeOK
  <2>4. UNCHANGED <<processing, dead, pc, running, held, safeToAck, runs, failures>>
    BY <1>1 DEF Enqueue, worker, history
  <2>5. Range(queue') \in {Range(queue), Range(queue) \cup {e}}
    BY <2>1, <2>3 DEF e
  <2>6. Grows
    BY <2>4, <2>5 DEF Grows, Live
  <2>7. NoJobLost'
    <3> SUFFICES ASSUME NEW k \in Jobs, caller'[k] \in {"pushed", "accepted", "lost"}
                 PROVE  Present(k)'
      BY DEF NoJobLost, Present
    <3>1. CASE k # j
      BY <3>1, <1>0, <2>1, <2>6, GrowsKeeps DEF Keeps, NoJobLost, Present, TypeOK
    <3>2. CASE k = j
      <4>1. queue' = LPush(queue, e)
        BY <3>2, <2>1, <1>0 DEF TypeOK, e
      <4> QED BY <4>1, <2>2, <2>3, <3>2 DEF Present, Listed
    <3> QED BY <3>1, <3>2
  <2>8. AckJustified'
    BY <1>0, <2>4, <2>6, GrowsKeeps DEF Keeps, AckJustified, Job, TypeOK, Holding
  <2>9. RetriesEarned'
    BY <1>0, <2>2, <2>4, <2>5 DEF RetriesEarned, Job, TypeOK
  <2>10. DeadLetterEarned'
    BY <1>0, <2>4 DEF DeadLetterEarned, Listed
  <2> QED BY <2>7, <2>8, <2>9, <2>10
<1>2. ASSUME NEW j \in Jobs, ReportQueued(j) \/ CallerDies(j) PROVE Rest'
  <2>1. /\ UNCHANGED <<queue, processing, dead, pc, held, safeToAck, runs, failures>>
        /\ caller[j] = "pushed"
        /\ \E s \in {"accepted", "lost"} : caller' = [caller EXCEPT ![j] = s]
    BY <1>2 DEF ReportQueued, CallerDies, lists, worker, history
  <2>2. NoJobLost'
    BY <1>0, <2>1 DEF NoJobLost, Settled, Listed, TypeOK
  <2> QED BY <1>0, <2>1, <2>2 DEF AckJustified, RetriesEarned, DeadLetterEarned,
                                   Successor, Settled, Listed, Job
<1>3. ASSUME NEW w \in Workers, Start(w) \/ Stop(w) \/ Drained(w) \/ Crash(w) PROVE IInv'
  <2>1. /\ UNCHANGED <<queue, processing, dead, caller, runs, failures>>
        /\ \A v \in Workers \ {w} :
              pc'[v] = pc[v] /\ held'[v] = held[v] /\ safeToAck'[v] = safeToAck[v]
    BY <1>0, <1>3 DEF Start, Stop, Drained, Crash, Exit, lists, history, TypeOK
  <2>2. \/ pc'[w] \in {"down", "recover"}
        \/ pc'[w] = pc[w] /\ held'[w] = held[w] /\ safeToAck'[w] = safeToAck[w]
    BY <1>0, <1>3 DEF Start, Stop, Drained, Crash, Exit, TypeOK
  <2>3. Grows
    BY <2>1 DEF Grows, Live
  <2>4. \A j \in Jobs : failures'[j] >= failures[j]
    BY <1>0, <2>1 DEF TypeOK
  <2>5. WorkerOK(w)'
    <3>1. CASE pc'[w] \in {"down", "recover"}
      BY <3>1 DEF WorkerOK, Holding
    <3>2. CASE pc'[w] = pc[w] /\ held'[w] = held[w] /\ safeToAck'[w] = safeToAck[w]
      BY <3>2, <1>0, <2>3, <2>4, GrowsKeeps, WorkerKeeps, Parts
    <3> QED BY <2>2, <3>1, <3>2
  <2> QED BY <1>0, <2>1, <2>5, QuietStep DEF Live
<1>4. ASSUME NEW w \in Workers, RequeueProcessing(w) PROVE IInv'
  <2>1. /\ UNCHANGED <<dead, caller, runs, failures>>
        /\ pc'[w] \in {"recover", "poll"}
        /\ \A v \in Workers \ {w} :
              pc'[v] = pc[v] /\ held'[v] = held[v] /\ safeToAck'[v] = safeToAck[v]
    BY <1>0, <1>4 DEF RequeueProcessing, Goto, history, worker, TypeOK
  <2>2. \/ UNCHANGED <<queue, processing>>
        \/ /\ processing # << >>
           /\ queue' = LPush(queue, Tip(processing))
           /\ processing' = PopTail(processing)
    BY <1>4 DEF RequeueProcessing
  <2>3. Live' = Live
    <3>1. queue \in Seq(Envelope) /\ processing \in Seq(Envelope)
      BY <1>0 DEF TypeOK
    <3>2. CASE UNCHANGED <<queue, processing>>
      BY <3>2 DEF Live
    <3>3. CASE /\ processing # << >>
               /\ queue' = LPush(queue, Tip(processing))
               /\ processing' = PopTail(processing)
      <4>1. /\ Tip(processing) \in Envelope
            /\ Range(processing) = Range(processing') \cup {Tip(processing)}
        BY <3>1, <3>3, PopTailFacts
      <4>2. Range(LPush(queue, Tip(processing))) = Range(queue) \cup {Tip(processing)}
        BY <3>1, <4>1, LPushFacts
      <4> QED BY <3>3, <4>1, <4>2 DEF Live
    <3> QED BY <2>2, <3>2, <3>3
  <2>4. WorkerOK(w)'
    BY <2>1 DEF WorkerOK, Holding
  <2> QED BY <1>0, <2>1, <2>3, <2>4, QuietStep
<1>5. ASSUME NEW w \in Workers, Pop(w) PROVE IInv'
  <2>1. /\ UNCHANGED <<dead, caller, runs, failures>>
        /\ queue # << >>
        /\ processing' = LPush(processing, Tip(queue))
        /\ queue' = PopTail(queue)
        /\ pc'[w] = "poll" \/ (pc'[w] = "mark" /\ held'[w] = Tip(queue))
        /\ \A v \in Workers \ {w} :
              pc'[v] = pc[v] /\ held'[v] = held[v] /\ safeToAck'[v] = safeToAck[v]
    <3>1. /\ UNCHANGED <<dead, caller, runs, failures>>
          /\ queue # << >>
          /\ processing' = LPush(processing, Tip(queue))
          /\ queue' = PopTail(queue)
          /\ pc[w] = "poll"
      BY <1>5 DEF Pop, history
    <3>2. \/ pc' = pc /\ held' = held /\ safeToAck' = safeToAck
          \/ /\ pc' = [pc EXCEPT ![w] = "mark"]
             /\ held' = [held EXCEPT ![w] = Tip(queue)]
             /\ UNCHANGED <<running, safeToAck>>
      BY <1>5 DEF Pop, worker
    <3>3. CASE pc' = pc /\ held' = held /\ safeToAck' = safeToAck
      BY <3>1, <3>3
    <3>4. CASE /\ pc' = [pc EXCEPT ![w] = "mark"]
               /\ held' = [held EXCEPT ![w] = Tip(queue)]
               /\ UNCHANGED <<running, safeToAck>>
      BY <1>0, <3>1, <3>4 DEF TypeOK
    <3> QED BY <3>2, <3>3, <3>4
  <2>2. queue \in Seq(Envelope) /\ processing \in Seq(Envelope)
    BY <1>0 DEF TypeOK
  <2>3. /\ Tip(queue) \in Envelope
        /\ Range(queue) = Range(queue') \cup {Tip(queue)}
    BY <2>1, <2>2, PopTailFacts
  <2>4. Range(processing') = Range(processing) \cup {Tip(queue)}
    <3>1. Range(LPush(processing, Tip(queue))) = Range(processing) \cup {Tip(queue)}
      BY <2>2, <2>3, LPushFacts
    <3> QED BY <2>1, <3>1
  <2>5. Live' = Live
    BY <2>3, <2>4 DEF Live
  <2>6. failures[Tip(queue).job] >= Tip(queue).retry
    BY <1>0, <2>3 DEF RetriesEarned
  <2>7. WorkerOK(w)'
    BY <2>1, <2>6 DEF WorkerOK, Holding, Job
  <2> QED BY <1>0, <2>1, <2>5, <2>7, QuietStep
<1>6. ASSUME NEW w \in Workers, MarkProcessing(w) PROVE IInv'
  <2>1. /\ UNCHANGED <<queue, processing, dead, caller, runs, failures>>
        /\ pc[w] = "mark" /\ pc'[w] = "run" /\ held'[w] = held[w]
        /\ \A v \in Workers \ {w} :
              pc'[v] = pc[v] /\ held'[v] = held[v] /\ safeToAck'[v] = safeToAck[v]
    BY <1>0, <1>6 DEF MarkProcessing, Goto, lists, history, TypeOK
  <2>2. WorkerOK(w)'
    BY <1>0, <2>1, Parts DEF WorkerOK, Holding, Job
  <2> QED BY <1>0, <2>1, <2>2, QuietStep DEF Live
<1>7. ASSUME NEW w \in Workers, ProcessResolves(w) PROVE IInv'
  <2>1. /\ UNCHANGED <<queue, processing, dead, caller, failures>>
        /\ pc[w] = "run" /\ pc'[w] = "done" /\ held'[w] = held[w]
        /\ runs' = [runs EXCEPT ![Job(w)] = IF @ < 2 THEN @ + 1 ELSE @]
        /\ \A v \in Workers \ {w} :
              pc'[v] = pc[v] /\ held'[v] = held[v] /\ safeToAck'[v] = safeToAck[v]
    BY <1>0, <1>7 DEF ProcessResolves, Goto, lists, TypeOK
  <2>2. Job(w) \in Jobs
    BY <1>0, <2>1, HeldType DEF Holding
  <2>3. /\ runs'[Job(w)] > 0
        /\ \A j \in Jobs : runs[j] > 0 => runs'[j] > 0
    BY <1>0, <2>1, <2>2 DEF TypeOK
  <2>4. WorkerOK(w)'
    BY <1>0, <2>1, <2>3, Parts DEF WorkerOK, Holding, Job
  <2> QED BY <1>0, <2>1, <2>3, <2>4, QuietStep DEF Live
<1>8. ASSUME NEW w \in Workers, ReportOutcome(w) PROVE IInv'
  <2>1. /\ UNCHANGED <<queue, processing, dead, caller, runs, failures>>
        /\ pc[w] \in {"done", "requeued", "buried"}
        /\ pc'[w] = "ack" /\ held'[w] = held[w] /\ safeToAck'[w] = safeToAck[w]
        /\ \A v \in Workers \ {w} :
              pc'[v] = pc[v] /\ held'[v] = held[v] /\ safeToAck'[v] = safeToAck[v]
    BY <1>0, <1>8 DEF ReportOutcome, Goto, lists, history, TypeOK
  <2>2. safeToAck[w] => Successor(held[w])
    BY <1>0, <2>1, Parts DEF WorkerOK, Successor, Settled, Job
  <2>3. Successor(held[w]) => Successor(held[w])'
    BY <2>1 DEF Successor, Settled, Listed
  <2>4. WorkerOK(w)'
    BY <1>0, <2>1, <2>2, <2>3, Parts DEF WorkerOK, Holding, Job
  <2> QED BY <1>0, <2>1, <2>4, QuietStep DEF Live
<1>9. ASSUME NEW w \in Workers, ProcessRejects(w) PROVE Rest'
  <2>1. /\ UNCHANGED <<queue, processing, dead, caller, runs>>
        /\ pc[w] = "run" /\ held'[w] = held[w]
        /\ pc'[w] = IF held[w].retry < RetryLimit THEN "retry" ELSE "bury"
        /\ failures' = [failures EXCEPT ![Job(w)] = IF @ <= RetryLimit THEN @ + 1 ELSE @]
        /\ \A v \in Workers \ {w} :
              pc'[v] = pc[v] /\ held'[v] = held[v] /\ safeToAck'[v] = safeToAck[v]
    BY <1>0, <1>9 DEF ProcessRejects, Goto, lists, TypeOK
  <2>2. held[w] \in Envelope /\ Job(w) \in Jobs /\ held[w].retry \in 0..RetryLimit
    BY <1>0, <2>1, HeldType DEF Holding
  <2>3. failures[Job(w)] >= held[w].retry
    BY <1>0, <2>1, Parts DEF WorkerOK, Holding
  <2>4. /\ \A j \in Jobs : failures'[j] >= failures[j] /\ failures[j] \in 0..(RetryLimit + 1)
        /\ failures'[Job(w)] = IF failures[Job(w)] <= RetryLimit
                                 THEN failures[Job(w)] + 1 ELSE failures[Job(w)]
    BY <1>0, <2>1, <2>2, RetryLimitAssumption DEF TypeOK
  <2>5. failures'[Job(w)] > held[w].retry
    BY <2>2, <2>3, <2>4, RetryLimitAssumption
  <2>6. Job(w)' = Job(w)
    BY <2>1 DEF Job
  <2>7. WorkerOK(w)'
    <3>1. CASE held[w].retry < RetryLimit
      BY <3>1, <2>1, <2>2, <2>4, <2>5, <2>6, RetryLimitAssumption DEF WorkerOK
    <3>2. CASE ~(held[w].retry < RetryLimit)
      <4>1. held[w].retry = RetryLimit
        BY <3>2, <2>2, RetryLimitAssumption
      <4>2. failures'[Job(w)] = RetryLimit + 1
        BY <4>1, <2>2, <2>3, <2>4, RetryLimitAssumption
      <4> QED BY <3>2, <4>1, <4>2, <2>1, <2>6, RetryLimitAssumption DEF WorkerOK
    <3> QED BY <3>1, <3>2
  <2>8. Grows
    BY <2>1 DEF Grows, Live
  <2>9. \A v \in Workers : WorkerOK(v)'
    BY <1>0, <2>1, <2>4, <2>7, <2>8, GrowsKeeps, WorkerKeeps, Parts
  <2>10. LiveEarned'
    <3> SUFFICES ASSUME NEW e \in Live PROVE failures'[e.job] >= e.retry
      BY <2>1 DEF LiveEarned, Live
    <3>1. e \in Envelope
      BY <1>0, EnvelopeLists DEF Live, TypeOK
    <3>2. e.job \in Jobs /\ e.retry \in 0..RetryLimit
      BY <3>1 DEF Envelope
    <3>3. failures[e.job] >= e.retry
      BY <1>0 DEF RetriesEarned, Live
    <3>4. failures'[e.job] \in 0..(RetryLimit + 1)
      BY <1>0, <3>2 DEF TypeOK
    <3> QED BY <3>2, <3>3, <3>4, <2>4, RetryLimitAssumption
  <2>11. DeadLetterEarned'
    <3> SUFFICES ASSUME NEW j \in Jobs, Listed(dead, j) PROVE failures'[j] = RetryLimit + 1
      BY <2>1 DEF DeadLetterEarned, Listed
    <3>1. failures[j] = RetryLimit + 1
      BY <1>0 DEF DeadLetterEarned
    <3> QED BY <1>0, <3>1, <2>4, RetryLimitAssumption DEF TypeOK
  <2>12. NoJobLost'
    BY <1>0, <2>1, <2>8, GrowsKeeps DEF Keeps, NoJobLost, Present
  <2> QED
    BY <2>9, <2>10, <2>11, <2>12 DEF AckJustified, RetriesEarned, LiveEarned, Live, WorkerOK
<1>10. ASSUME NEW w \in Workers, PushRetry(w) PROVE Rest'
  <2>1. PICK at \in Stamps : Dispose(w, queue, LPush(queue, Again(held[w], at)), "requeued")
    BY <1>10 DEF PushRetry
  <2>2. /\ pc[w] = "retry"
        /\ UNCHANGED <<processing, dead, caller, runs, failures>>
    BY <1>10 DEF PushRetry, history
  <2>3. /\ held[w] \in Envelope /\ Job(w) \in Jobs /\ held[w].retry \in 0..RetryLimit
        /\ held[w].retry < RetryLimit /\ failures[Job(w)] > held[w].retry
    BY <1>0, <2>2, HeldType, Parts DEF WorkerOK, Holding
  <2>a. PICK e \in Envelope : e = Again(held[w], at)
    <3>1. Again(held[w], at) \in Envelope
      BY <2>3, RetryLimitAssumption DEF Envelope, Again
    <3> QED BY <3>1
  <2>4. e \in Envelope /\ e.job = Job(w) /\ e.retry = held[w].retry + 1
    BY <2>a DEF Again, Job
  <2>5. Range(LPush(queue, e)) = Range(queue) \cup {e}
    BY <1>0, <2>4, LPushFacts DEF TypeOK
  <2>6. /\ pc' = [pc EXCEPT ![w] = "requeued"] /\ held' = held
        /\ \/ queue' = LPush(queue, e) /\ safeToAck' = safeToAck
           \/ queue' \in {queue, LPush(queue, e)} /\ safeToAck' = [safeToAck EXCEPT ![w] = FALSE]
    BY <2>1, <2>a DEF Dispose
  <2>7. /\ Range(queue') \in {Range(queue), Range(queue) \cup {e}}
        /\ safeToAck'[w] => e \in Range(queue')
    BY <1>0, <2>5, <2>6 DEF TypeOK
  <2>8. Grows
    BY <2>2, <2>7 DEF Grows, Live
  <2>9. \A v \in Workers \ {w} :
              pc'[v] = pc[v] /\ held'[v] = held[v] /\ safeToAck'[v] = safeToAck[v]
    BY <1>0, <2>6 DEF TypeOK
  <2>10. WorkerOK(w)'
    <3>1. pc'[w] = "requeued" /\ held'[w] = held[w]
      BY <1>0, <2>6 DEF TypeOK
    <3>2. e.retry > held[w].retry /\ e.job = held[w].job
      BY <2>3, <2>4 DEF Job
    <3>3. safeToAck'[w] => Successor(held[w])'
      BY <2>7, <3>1, <3>2 DEF Successor
    <3>4. failures'[Job(w)'] >= held'[w].retry
      BY <2>2, <2>3, <3>1, <1>0 DEF Job, TypeOK
    <3> QED BY <3>1, <3>3, <3>4 DEF WorkerOK, Successor
  <2>11. \A j \in Jobs : failures'[j] >= failures[j]
    BY <1>0, <2>2 DEF TypeOK
  <2>12. \A v \in Workers : WorkerOK(v)'
    BY <1>0, <2>8, <2>9, <2>10, <2>11, GrowsKeeps, WorkerKeeps, Parts
  <2>13. LiveEarned'
    <3>1. failures[e.job] >= e.retry
      BY <1>0, <2>3, <2>4 DEF TypeOK
    <3> QED BY <1>0, <2>2, <2>7, <3>1 DEF LiveEarned, Live, RetriesEarned
  <2>14. DeadLetterEarned' /\ NoJobLost'
    BY <1>0, <2>2, <2>8, GrowsKeeps DEF Keeps, NoJobLost, Present, DeadLetterEarned, Listed
  <2> QED
    BY <2>12, <2>13, <2>14 DEF AckJustified, RetriesEarned, LiveEarned, Live, WorkerOK
<1>11. ASSUME NEW w \in Workers, PushDead(w) PROVE Rest'
  <2>1. /\ pc[w] = "bury" /\ Dispose(w, dead, LPush(dead, held[w]), "buried")
        /\ UNCHANGED <<queue, processing, caller, runs, failures>>
    BY <1>11 DEF PushDead, history
  <2>2. /\ held[w] \in Envelope /\ Job(w) \in Jobs
        /\ failures[Job(w)] = RetryLimit + 1 /\ failures[Job(w)] >= held[w].retry
    BY <1>0, <2>1, HeldType, Parts DEF WorkerOK, Holding
  <2>3. Range(LPush(dead, held[w])) = Range(dead) \cup {held[w]}
    BY <1>0, <2>2, LPushFacts DEF TypeOK
  <2>4. /\ pc' = [pc EXCEPT ![w] = "buried"] /\ held' = held
        /\ \/ dead' = LPush(dead, held[w]) /\ safeToAck' = safeToAck
           \/ dead' \in {dead, LPush(dead, held[w])} /\ safeToAck' = [safeToAck EXCEPT ![w] = FALSE]
    BY <2>1 DEF Dispose
  <2>5. /\ Range(dead') \in {Range(dead), Range(dead) \cup {held[w]}}
        /\ safeToAck'[w] => held[w] \in Range(dead')
    BY <1>0, <2>3, <2>4 DEF TypeOK
  <2>6. Grows
    BY <2>1, <2>5 DEF Grows, Live
  <2>7. \A v \in Workers \ {w} :
              pc'[v] = pc[v] /\ held'[v] = held[v] /\ safeToAck'[v] = safeToAck[v]
    BY <1>0, <2>4 DEF TypeOK
  <2>8. WorkerOK(w)'
    <3>1. pc'[w] = "buried" /\ held'[w] = held[w]
      BY <1>0, <2>4 DEF TypeOK
    <3>2. safeToAck'[w] => Successor(held[w])'
      BY <2>5, <3>1 DEF Successor, Settled, Listed
    <3> QED BY <2>1, <2>2, <3>1, <3>2 DEF WorkerOK, Successor, Job
  <2>9. \A j \in Jobs : failures'[j] >= failures[j]
    BY <1>0, <2>1 DEF TypeOK
  <2>10. \A v \in Workers : WorkerOK(v)'
    BY <1>0, <2>6, <2>7, <2>8, <2>9, GrowsKeeps, WorkerKeeps, Parts
  <2>11. LiveEarned'
    BY <1>0, <2>1 DEF LiveEarned, Live, RetriesEarned
  <2>12. DeadLetterEarned'
    BY <1>0, <2>1, <2>2, <2>5 DEF DeadLetterEarned, Listed, Job
  <2>13. NoJobLost'
    BY <1>0, <2>1, <2>6, GrowsKeeps DEF Keeps, NoJobLost, Present
  <2> QED
    BY <2>10, <2>11, <2>12, <2>13 DEF AckJustified, RetriesEarned, LiveEarned, Live, WorkerOK
<1>12. ASSUME NEW w \in Workers, Ack(w) PROVE Rest'
  <2>0. pc[w] = "ack"
    BY <1>12 DEF Ack
  <2>2. PICK e \in Envelope : e = held[w]
    BY <1>0, <2>0, HeldType DEF Holding
  <2>1. /\ pc[w] = "ack" /\ pc' = [pc EXCEPT ![w] = "poll"]
        /\ held' = [held EXCEPT ![w] = NoEnvelope]
        /\ safeToAck' = [safeToAck EXCEPT ![w] = TRUE]
        /\ UNCHANGED <<queue, dead, caller, runs, failures>>
        /\ processing' = processing \/ (safeToAck[w] /\ processing' = LRem(processing, e))
    <3>1. \/ processing' = processing
          \/ safeToAck[w] /\ processing' = LRem(processing, held[w])
      BY <1>12 DEF Ack
    <3>2. /\ pc[w] = "ack" /\ pc' = [pc EXCEPT ![w] = "poll"]
          /\ held' = [held EXCEPT ![w] = NoEnvelope]
          /\ safeToAck' = [safeToAck EXCEPT ![w] = TRUE]
          /\ UNCHANGED <<queue, dead, caller, runs, failures>>
      BY <1>12 DEF Ack, history
    <3> QED BY <2>2, <3>1, <3>2
  <2>3. /\ Range(LRem(processing, e)) \subseteq Range(processing)
        /\ Range(processing) \ {e} \subseteq Range(LRem(processing, e))
    BY <1>0, <2>2, LRemFacts DEF TypeOK
  <2>4. Live' \subseteq Live
    BY <2>1, <2>3 DEF Live
  <2>5. safeToAck[w] => Successor(e)
    BY <1>0, <2>1, <2>2, Parts DEF WorkerOK
  <2>6. Keeps
    <3>1. CASE processing' = processing
      <4>1. Grows
        BY <2>1, <3>1 DEF Grows, Live
      <4> QED BY <1>0, <4>1, GrowsKeeps
    <3>2. CASE safeToAck[w] /\ processing' = LRem(processing, e)
      <4>1. Live \ {e} \subseteq Live'
        BY <2>1, <2>3, <3>2 DEF Live
      <4>2. \A j \in Jobs : Settled(j) => Settled(j)'
        BY <2>1 DEF Settled, Listed
      <4>3. \/ Settled(e.job)
            \/ \E s \in Live : s.job = e.job /\ s.retry > e.retry
        BY <2>5, <3>2 DEF Successor, Live
      <4>4. \A s \in Live : s \in Envelope /\ s.job \in Jobs /\ s.retry \in Nat
        <5>1. Live \subseteq Envelope
          BY <1>0, EnvelopeLists DEF Live, TypeOK
        <5> QED BY <5>1, RetryLimitAssumption DEF Envelope
      <4>5. e.job \in Jobs /\ e.retry \in Nat
        BY <2>2, RetryLimitAssumption DEF Envelope
      <4>6. \/ Settled(e.job)'
            \/ \E s \in Live' : s.job = e.job /\ s.retry > e.retry
        <5>1. CASE Settled(e.job)
          BY <5>1, <4>2, <4>5
        <5>2. CASE \E s \in Live : s.job = e.job /\ s.retry > e.retry
          <6>1. PICK s \in Live : s.job = e.job /\ s.retry > e.retry
            BY <5>2
          <6>2. s # e
            BY <6>1, <4>5
          <6> QED BY <6>1, <6>2, <4>1
        <5> QED BY <4>3, <5>1, <5>2
      <4>7. \A j \in Jobs : Present(j) => Present(j)'
        <5> SUFFICES ASSUME NEW j \in Jobs, Present(j) PROVE Present(j)'
          OBVIOUS
        <5>1. CASE Settled(j)
          BY <5>1, <4>2 DEF Present
        <5>2. CASE ~Settled(j)
          <6>1. PICK s \in Live : s.job = j
            BY <5>2 DEF Present, Listed, Live
          <6>2. CASE s # e
            BY <6>1, <6>2, <4>1 DEF Present, Listed, Live
          <6>3. CASE s = e
            BY <6>1, <6>3, <4>6 DEF Present, Listed, Live
          <6> QED BY <6>2, <6>3
        <5> QED BY <5>1, <5>2
      <4>8. \A f \in Envelope : Successor(f) => Successor(f)'
        <5> SUFFICES ASSUME NEW f \in Envelope, Successor(f) PROVE Successor(f)'
          OBVIOUS
        <5>0. f.job \in Jobs /\ f.retry \in Nat
          BY RetryLimitAssumption DEF Envelope
        <5>1. CASE Settled(f.job)
          BY <5>0, <5>1, <4>2 DEF Successor
        <5>2. CASE ~Settled(f.job)
          <6>1. PICK s \in Live : s.job = f.job /\ s.retry > f.retry
            BY <5>2 DEF Successor, Live
          <6>2. CASE s # e
            BY <6>1, <6>2, <4>1 DEF Successor, Live
          <6>3. CASE s = e
            <7>1. CASE Settled(e.job)'
              BY <7>1, <6>1, <6>3 DEF Successor
            <7>2. CASE \E t \in Live' : t.job = e.job /\ t.retry > e.retry
              <8>1. PICK t \in Live' : t.job = e.job /\ t.retry > e.retry
                BY <7>2
              <8>2. t.retry \in Nat
                BY <2>4, <4>4
              <8>3. t.job = f.job /\ t.retry > f.retry
                BY <8>1, <8>2, <6>1, <6>3, <5>0, <4>5
              <8> QED BY <8>1, <8>3 DEF Successor, Live
            <7> QED BY <4>6, <7>1, <7>2
          <6> QED BY <6>2, <6>3
        <5> QED BY <5>1, <5>2
      <4> QED BY <4>7, <4>8, <2>1 DEF Keeps
    <3> QED BY <2>1, <3>1, <3>2
  <2>7. WorkerOK(w)'
    BY <1>0, <2>1 DEF WorkerOK, Holding, TypeOK
  <2>8. \A v \in Workers \ {w} :
              pc'[v] = pc[v] /\ held'[v] = held[v] /\ safeToAck'[v] = safeToAck[v]
    BY <1>0, <2>1 DEF TypeOK
  <2>9. \A j \in Jobs : failures'[j] >= failures[j]
    BY <1>0, <2>1 DEF TypeOK
  <2>10. \A v \in Workers : WorkerOK(v)'
    BY <1>0, <2>6, <2>7, <2>8, <2>9, WorkerKeeps, Parts
  <2>11. LiveEarned'
    BY <1>0, <2>1, <2>4 DEF LiveEarned, Live, RetriesEarned
  <2>12. DeadLetterEarned' /\ NoJobLost'
    BY <1>0, <2>1, <2>6 DEF Keeps, DeadLetterEarned, NoJobLost, Present, Listed
  <2> QED
    BY <2>10, <2>11, <2>12 DEF AckJustified, RetriesEarned, LiveEarned, Live, WorkerOK
<1>13. CASE UNCHANGED vars
  BY <1>0, <1>13 DEF vars, NoJobLost, AckJustified, RetriesEarned, DeadLetterEarned,
                     Successor, Settled, Listed, Job, IInv
<1> QED
  BY <1>0, <1>1, <1>2, <1>3, <1>4, <1>5, <1>6, <1>7, <1>8, <1>9, <1>10, <1>11, <1>12, <1>13
  DEF Next, WorkerStep, IInv

\* The initial state has the inductive invariant.
LEMMA InitIInv == Init => IInv
<1> SUFFICES ASSUME Init PROVE IInv
  OBVIOUS
<1>1. TypeOK
  BY InitTypeOK
<1>2. Range(queue) = {} /\ Range(processing) = {} /\ Range(dead) = {}
  BY DEF Init, Range
<1> QED
  BY <1>1, <1>2 DEF Init, IInv, NoJobLost, AckJustified, RetriesEarned, DeadLetterEarned,
                     Listed, Holding

\* For every set of jobs, every number of servers, every retry limit and any
\* finite number of faults: no confirmed job disappears (BatchRememberWorker's
\* "lossless" ack rule) and none is dead-lettered before its retries are used up.
THEOREM BatchQueueSafe == Spec => [](TypeOK /\ JobsKept)
<1>1. IInv => TypeOK /\ JobsKept
  BY DEF IInv, JobsKept
<1> QED BY <1>1, InitIInv, NextIInv, PTL DEF Spec

-----------------------------------------------------------------------------
(***************************************************************************)
(* The queue implements the promise of JobDelivery for any set of jobs,    *)
(* any number of servers and any number of faults.  Every step leaves the  *)
(* standing of all jobs as it is, or moves one job along an edge of        *)
(* JobDelivery.  Two steps need an invariant for it: an acknowledgement    *)
(* takes the last copy of a job only if that job is settled                *)
(* (AckJustified), and what a worker runs was taken on (HeldPresent).      *)
(***************************************************************************)

\* A worker only works on jobs that are listed or settled.
HeldPresent == \A w \in Workers : pc[w] \in Holding => Present(Job(w))

DInv == IInv /\ HeldPresent

Waits(j) == \E e \in Live : e.job = j

\* Where a job stands, as JobDelivery sees it.
Standing(j) ==
    IF runs[j] > 0 THEN "done"
    ELSE IF Listed(dead, j) THEN "dead"
    ELSE IF Waits(j) THEN "pending"
    ELSE "absent"

\* An edge of JobDelivery.
Moves(j) ==
    \/ Standing(j) = "absent" /\ Standing(j)' = "pending"
    \/ Standing(j) = "pending" /\ Standing(j)' = "dead"
    \/ Standing(j) \in {"pending", "dead"} /\ Standing(j)' = "done"

Same(j) == Standing(j)' = Standing(j)

\* One job may move, the others stand where they stood.
StepAllowed ==
    \/ \A k \in Jobs : Same(k)
    \/ \E j \in Jobs : Moves(j) /\ \A k \in Jobs \ {j} : Same(k)

\* What a worker holds after the step it held before, or it is listed now.
HoldsOld ==
    \A v \in Workers : pc'[v] \in Holding =>
        \/ pc[v] \in Holding /\ held'[v] = held[v]
        \/ held'[v] \in Range(processing') /\ held'[v].job \in Jobs

-----------------------------------------------------------------------------
\* A job waits when it is in one of the two lists.
LEMMA WaitsListed == \A j : Waits(j) <=> Listed(queue, j) \/ Listed(processing, j)
  BY DEF Waits, Live, Listed

\* To stand somewhere is to be present.
LEMMA PresentStands == \A j \in Jobs : Present(j) <=> Standing(j) # "absent"
  BY WaitsListed DEF Present, Standing, Settled

\* A job stands where it stood if its runs and parked copies do, and if it is
\* settled or waits as before.
LEMMA SameStanding ==
    ASSUME NEW k \in Jobs,
           runs'[k] > 0 <=> runs[k] > 0,
           Listed(dead, k)' <=> Listed(dead, k),
           Settled(k) \/ (Waits(k)' <=> Waits(k))
    PROVE  Same(k)
  BY DEF Same, Standing, Settled

\* Only moves along the edges happen: a job that is present stays present.
LEMMA StaysPresent ==
    ASSUME StepAllowed, NEW k \in Jobs, Present(k)
    PROVE  Present(k)'
<1>1. Standing(k) # "absent"
  BY PresentStands
<1>2. Standing(k)' # "absent"
  BY <1>1 DEF StepAllowed, Same, Moves
<1>3. Standing(k)' # "absent" => Waits(k)' \/ (runs[k] > 0)' \/ Listed(dead, k)'
  BY DEF Standing
<1> QED BY <1>2, <1>3 DEF Present, Settled, Waits, Live, Listed

\* So HeldPresent survives a step that lets workers hold nothing new.
LEMMA HeldStaysPresent ==
    ASSUME TypeOK, HeldPresent, StepAllowed, HoldsOld
    PROVE  HeldPresent'
<1> SUFFICES ASSUME NEW v \in Workers, pc'[v] \in Holding PROVE Present(Job(v))'
  BY DEF HeldPresent
<1>1. CASE pc[v] \in Holding /\ held'[v] = held[v]
  <2>1. PICK j \in Jobs : j = Job(v) /\ j = Job(v)'
    BY <1>1, HeldType DEF Job
  <2>2. Present(j)
    BY <1>1, <2>1 DEF HeldPresent
  <2>3. Present(j)'
    BY <2>2, StaysPresent
  <2> QED BY <2>1, <2>3
<1>2. CASE held'[v] \in Range(processing') /\ held'[v].job \in Jobs
  BY <1>2 DEF Present, Listed, Job
<1> QED BY <1>1, <1>2 DEF HoldsOld

\* A step that leaves the lists' contents and the runs alone moves no job.
LEMMA NothingMoves ==
    ASSUME Live' = Live, UNCHANGED <<dead, runs>>
    PROVE  StepAllowed
<1> SUFFICES ASSUME NEW k \in Jobs PROVE Same(k)
  BY DEF StepAllowed
<1> QED BY SameStanding DEF Waits, Listed

-----------------------------------------------------------------------------
(* The steps that may move a job *)

\* A push takes a job on.
LEMMA EnqueueMoves ==
    ASSUME DInv, NEW j \in Jobs, Enqueue(j)
    PROVE  StepAllowed /\ HoldsOld
<1>0. TypeOK
  BY DEF DInv, IInv
<1>1. PICK at \in Stamps :
         queue' \in {queue, LPush(queue, [job |-> j, retry |-> 0, at |-> at])}
  BY DEF Enqueue
<1> DEFINE e == [job |-> j, retry |-> 0, at |-> at]
<1>2. e \in Envelope /\ e.job = j
  BY RetryLimitAssumption DEF Envelope
<1>3. queue' \in {queue, LPush(queue, e)}
  BY <1>1
<1> HIDE DEF e
<1>4. Range(queue') \in {Range(queue), Range(queue) \cup {e}}
  BY <1>0, <1>2, <1>3, LPushFacts DEF TypeOK
<1>5. UNCHANGED <<processing, dead, runs, pc, held>>
  BY DEF Enqueue, worker, history
<1>6. Live' \in {Live, Live \cup {e}}
  BY <1>4, <1>5 DEF Live
<1>7. \A k \in Jobs \ {j} : Same(k)
  BY <1>2, <1>5, <1>6, SameStanding DEF Waits, Listed
<1>8. Same(j) \/ Moves(j)
  BY <1>2, <1>5, <1>6 DEF Same, Moves, Standing, Waits, Listed
<1>9. StepAllowed
  BY <1>7, <1>8 DEF StepAllowed
<1> QED BY <1>5, <1>9 DEF HoldsOld

\* Recovery moves envelopes from one list to the other.
LEMMA RequeueMoves ==
    ASSUME DInv, NEW w \in Workers, RequeueProcessing(w)
    PROVE  StepAllowed /\ HoldsOld
<1>0. TypeOK
  BY DEF DInv, IInv
<1>1. \/ UNCHANGED <<queue, processing>>
      \/ /\ processing # << >>
         /\ queue' = LPush(queue, Tip(processing))
         /\ processing' = PopTail(processing)
  BY DEF RequeueProcessing
<1>2. Live' = Live
  <2>1. CASE UNCHANGED <<queue, processing>>
    BY <2>1 DEF Live
  <2>2. CASE /\ processing # << >>
             /\ queue' = LPush(queue, Tip(processing))
             /\ processing' = PopTail(processing)
    <3>1. PICK e \in Envelope : e = Tip(processing)
      BY <1>0, <2>2, EnvelopeLists DEF TypeOK
    <3>2. /\ Range(queue') = Range(queue) \cup {e}
          /\ Range(processing) = Range(processing') \cup {e}
      BY <1>0, <2>2, <3>1, EnvelopeLists DEF TypeOK
    <3> QED BY <3>2 DEF Live
  <2> QED BY <1>1, <2>1, <2>2
<1>3. UNCHANGED <<dead, runs, held>>
  BY DEF RequeueProcessing, history, worker, Goto
<1>4. \A v \in Workers : pc'[v] \in Holding => pc[v] \in Holding
  BY <1>0 DEF RequeueProcessing, worker, Goto, TypeOK, Holding
<1> QED BY <1>2, <1>3, <1>4, NothingMoves DEF HoldsOld

\* A popped envelope is in the processing list, read or not.
LEMMA PopMoves ==
    ASSUME DInv, NEW w \in Workers, Pop(w)
    PROVE  StepAllowed /\ HoldsOld
<1>0. TypeOK
  BY DEF DInv, IInv
<1>1. /\ queue # << >>
      /\ processing' = LPush(processing, Tip(queue))
      /\ queue' = PopTail(queue)
      /\ UNCHANGED <<dead, runs>>
  BY DEF Pop, history
<1>2. PICK e \in Envelope : e = Tip(queue)
  BY <1>0, <1>1, EnvelopeLists DEF TypeOK
<1>3. /\ Range(processing') = Range(processing) \cup {e}
      /\ Range(queue) = Range(queue') \cup {e}
  BY <1>0, <1>1, <1>2, EnvelopeLists DEF TypeOK
<1>4. Live' = Live
  BY <1>3 DEF Live
<1>5. \/ UNCHANGED <<pc, held>>
      \/ /\ pc' = [pc EXCEPT ![w] = "mark"]
         /\ held' = [held EXCEPT ![w] = e]
  BY <1>2 DEF Pop, worker
<1>6. e.job \in Jobs
  BY DEF Envelope
<1>7. HoldsOld
  BY <1>0, <1>3, <1>5, <1>6 DEF HoldsOld, TypeOK
<1> QED BY <1>1, <1>4, <1>7, NothingMoves

\* A finished run completes the job it was for, which was taken on before.
LEMMA ResolveMoves ==
    ASSUME DInv, NEW w \in Workers, ProcessResolves(w)
    PROVE  StepAllowed /\ HoldsOld
<1>0. TypeOK /\ HeldPresent
  BY DEF DInv, IInv
<1>1. /\ pc[w] = "run" /\ pc' = [pc EXCEPT ![w] = "done"]
      /\ UNCHANGED <<queue, processing, dead, held>>
      /\ runs' = [runs EXCEPT ![Job(w)] = IF @ < 2 THEN @ + 1 ELSE @]
  BY DEF ProcessResolves, Goto, lists
<1>2. PICK j \in Jobs : j = Job(w) /\ Present(j)
  BY <1>0, <1>1, HeldType DEF HeldPresent, Holding
<1>3. runs'[j] > 0 /\ \A k \in Jobs \ {j} : runs'[k] = runs[k]
  <2>1. runs \in [Jobs -> 0..2] /\ runs' = [runs EXCEPT ![j] = IF @ < 2 THEN @ + 1 ELSE @]
    BY <1>0, <1>1, <1>2 DEF TypeOK
  <2> QED BY <2>1
<1>4. \A k \in Jobs \ {j} : Same(k)
  BY <1>1, <1>3, SameStanding DEF Waits, Live, Listed
<1>5. Standing(j) # "absent" /\ Standing(j)' = "done"
  BY <1>2, <1>3, PresentStands DEF Standing
<1>6. Standing(j) \in {"pending", "dead", "done"}
  BY <1>5 DEF Standing
<1>7. Same(j) \/ Moves(j)
  BY <1>5, <1>6 DEF Same, Moves
<1>8. HoldsOld
  BY <1>0, <1>1 DEF HoldsOld, TypeOK, Holding
<1> QED BY <1>4, <1>7, <1>8 DEF StepAllowed

\* The push of a retry is one more copy of a job that is present.
LEMMA RetryMoves ==
    ASSUME DInv, NEW w \in Workers, PushRetry(w)
    PROVE  StepAllowed /\ HoldsOld
<1>0. TypeOK /\ HeldPresent /\ RetriesEarned
  BY DEF DInv, IInv
<1>1. PICK at \in Stamps : queue' \in {queue, LPush(queue, Again(held[w], at))}
  BY DEF PushRetry, Dispose
<1>2. /\ pc[w] = "retry" /\ pc' = [pc EXCEPT ![w] = "requeued"]
      /\ UNCHANGED <<processing, dead, runs, held>>
  BY DEF PushRetry, Dispose, history
<1>3. /\ held[w] \in Envelope /\ Job(w) \in Jobs /\ held[w].retry \in 0..RetryLimit
      /\ held[w].retry < RetryLimit /\ Present(Job(w))
  BY <1>0, <1>2, HeldType DEF RetriesEarned, HeldPresent, Holding
<1>4. PICK e \in Envelope : e = Again(held[w], at)
  <2>1. Again(held[w], at) \in Envelope
    BY <1>3, RetryLimitAssumption DEF Envelope, Again
  <2> QED BY <2>1
<1>5. e.job = Job(w)
  BY <1>4 DEF Again, Job
<1>6. Range(queue') \in {Range(queue), Range(queue) \cup {e}}
  BY <1>0, <1>1, <1>4, LPushFacts DEF TypeOK
<1>7. Live' \in {Live, Live \cup {e}}
  BY <1>2, <1>6 DEF Live
<1>8. \A k \in Jobs : Settled(k) \/ (Waits(k)' <=> Waits(k))
  <2> SUFFICES ASSUME NEW k \in Jobs, ~Settled(k) PROVE Waits(k)' <=> Waits(k)
    OBVIOUS
  <2>1. CASE k # Job(w)
    BY <1>5, <1>7, <2>1 DEF Waits
  <2>2. CASE k = Job(w)
    BY <1>3, <1>7, <2>2, WaitsListed DEF Waits, Present
  <2> QED BY <2>1, <2>2
<1>9. \A k \in Jobs : Same(k)
  BY <1>2, <1>8, SameStanding DEF Listed
<1>10. HoldsOld
  BY <1>0, <1>2 DEF HoldsOld, TypeOK, Holding
<1> QED BY <1>9, <1>10 DEF StepAllowed

\* The push to the dead-letter list parks a job that is present.
LEMMA DeadMoves ==
    ASSUME DInv, NEW w \in Workers, PushDead(w)
    PROVE  StepAllowed /\ HoldsOld
<1>0. TypeOK /\ HeldPresent
  BY DEF DInv, IInv
<1>1. /\ pc[w] = "bury" /\ pc' = [pc EXCEPT ![w] = "buried"]
      /\ dead' \in {dead, LPush(dead, held[w])}
      /\ UNCHANGED <<queue, processing, runs, held>>
  BY DEF PushDead, Dispose, history
<1>2. PICK e \in Envelope : e = held[w] /\ e.job \in Jobs /\ Present(e.job)
  BY <1>0, <1>1, HeldType DEF HeldPresent, Holding, Job
<1>3. Range(dead') \in {Range(dead), Range(dead) \cup {e}}
  BY <1>0, <1>1, <1>2, LPushFacts DEF TypeOK
<1>4. PICK j \in Jobs : j = e.job
  BY <1>2
<1>5. \A k \in Jobs \ {j} : Same(k)
  BY <1>1, <1>3, <1>4, SameStanding DEF Waits, Live, Listed
<1>6. Standing(j) # "absent"
  BY <1>2, <1>4, PresentStands
<1>7. \/ Listed(dead, j)' <=> Listed(dead, j)
      \/ ~Listed(dead, j) /\ Listed(dead, j)'
  BY <1>3 DEF Listed
<1>8. Same(j) \/ Moves(j)
  <2>1. CASE Listed(dead, j)' <=> Listed(dead, j)
    BY <1>1, <2>1, SameStanding DEF Waits, Live
  <2>2. CASE ~Listed(dead, j) /\ Listed(dead, j)'
    BY <1>1, <1>6, <2>2 DEF Same, Moves, Standing
  <2> QED BY <1>7, <2>1, <2>2
<1>9. HoldsOld
  BY <1>0, <1>1 DEF HoldsOld, TypeOK, Holding
<1> QED BY <1>5, <1>8, <1>9 DEF StepAllowed

\* An acknowledgement takes an envelope that has a successor.
LEMMA AckMoves ==
    ASSUME DInv, NEW w \in Workers, Ack(w)
    PROVE  StepAllowed /\ HoldsOld
<1>0. TypeOK /\ AckJustified
  BY DEF DInv, IInv
<1>1. /\ pc[w] = "ack" /\ pc' = [pc EXCEPT ![w] = "poll"]
      /\ held' = [held EXCEPT ![w] = NoEnvelope]
      /\ UNCHANGED <<queue, dead, runs>>
      /\ processing' = processing \/ (safeToAck[w] /\ processing' = LRem(processing, held[w]))
  BY DEF Ack, history
<1>2. PICK e \in Envelope : e = held[w] /\ e.job \in Jobs /\ e.retry \in Nat
  BY <1>0, <1>1, HeldType, RetryLimitAssumption DEF Holding, Envelope
<1>3. HoldsOld
  BY <1>0, <1>1 DEF HoldsOld, TypeOK, Holding
<1>4. CASE processing' = processing
  BY <1>1, <1>3, <1>4, NothingMoves DEF Live
<1>5. CASE safeToAck[w] /\ processing' = LRem(processing, e)
  <2>1. /\ Range(processing') \subseteq Range(processing)
        /\ Range(processing) \ {e} \subseteq Range(processing')
    BY <1>0, <1>2, <1>5, LRemFacts DEF TypeOK
  <2>2. Live' \subseteq Live /\ Live \ {e} \subseteq Live'
    BY <1>1, <2>1 DEF Live
  <2>3. Successor(e)
    BY <1>0, <1>1, <1>2, <1>5 DEF AckJustified
  <2>4. ASSUME NEW k \in Jobs, ~Settled(k), Waits(k) PROVE Waits(k)'
    <3>1. PICK s \in Live : s.job = k
      BY <2>4 DEF Waits
    <3>2. CASE s # e
      BY <2>2, <3>1, <3>2 DEF Waits
    <3>3. CASE s = e
      <4>1. PICK t \in Live : t.job = e.job /\ t.retry > e.retry
        BY <2>3, <2>4, <3>1, <3>3 DEF Successor, Live
      <4>2. t # e
        BY <1>2, <4>1
      <4> QED BY <2>2, <3>1, <3>3, <4>1, <4>2 DEF Waits
    <3> QED BY <3>2, <3>3
  <2>5. \A k \in Jobs : Waits(k)' => Waits(k)
    BY <2>2 DEF Waits
  <2>6. \A k \in Jobs : Same(k)
    BY <1>1, <2>4, <2>5, SameStanding DEF Listed
  <2> QED BY <1>3, <2>6 DEF StepAllowed
<1> QED BY <1>1, <1>2, <1>4, <1>5

\* Every other step leaves the lists and the runs alone.
LEMMA OtherMoves ==
    ASSUME DInv, NEW w \in Workers,
           \/ Start(w) \/ Stop(w) \/ Drained(w) \/ Crash(w)
           \/ MarkProcessing(w) \/ ProcessRejects(w) \/ ReportOutcome(w)
    PROVE  StepAllowed /\ HoldsOld
<1>0. TypeOK
  BY DEF DInv, IInv
<1>1. UNCHANGED <<queue, processing, dead, runs>>
  BY DEF Start, Stop, Drained, Crash, MarkProcessing, ProcessRejects, ReportOutcome, Exit,
         lists, history
<1>2. \A v \in Workers : pc'[v] \in Holding => pc[v] \in Holding /\ held'[v] = held[v]
  <2>1. CASE Start(w) \/ Stop(w) \/ Drained(w) \/ Crash(w)
    BY <1>0, <2>1 DEF Start, Stop, Drained, Crash, Exit, TypeOK, Holding
  <2>2. CASE MarkProcessing(w) \/ ProcessRejects(w) \/ ReportOutcome(w)
    BY <1>0, <2>2 DEF MarkProcessing, ProcessRejects, ReportOutcome, Goto, TypeOK, Holding
  <2> QED BY <2>1, <2>2
<1> QED BY <1>1, <1>2, NothingMoves DEF HoldsOld, Live

-----------------------------------------------------------------------------
\* Every step of the queue moves at most one job, along an edge.
LEMMA NextMoves == DInv /\ [Next]_vars => StepAllowed /\ DInv'
<1> SUFFICES ASSUME DInv, [Next]_vars PROVE StepAllowed /\ DInv'
  OBVIOUS
<1>0. TypeOK /\ HeldPresent /\ IInv'
  BY NextIInv DEF DInv, IInv
<1>1. StepAllowed /\ HoldsOld
  <2>1. ASSUME NEW j \in Jobs, Enqueue(j) \/ ReportQueued(j) \/ CallerDies(j)
        PROVE  StepAllowed /\ HoldsOld
    <3>1. CASE Enqueue(j)
      BY <3>1, EnqueueMoves
    <3>2. CASE ReportQueued(j) \/ CallerDies(j)
      <4>1. UNCHANGED <<queue, processing, dead, runs, pc, held>>
        BY <3>2 DEF ReportQueued, CallerDies, lists, worker, history
      <4> QED BY <4>1, NothingMoves DEF HoldsOld, Live
    <3> QED BY <2>1, <3>1, <3>2
  <2>2. ASSUME NEW w \in Workers, WorkerStep(w) \/ Stop(w) \/ Crash(w)
        PROVE  StepAllowed /\ HoldsOld
    BY <2>2, RequeueMoves, PopMoves, ResolveMoves, RetryMoves, DeadMoves, AckMoves, OtherMoves
       DEF WorkerStep
  <2>3. CASE UNCHANGED vars
    <3>1. UNCHANGED <<queue, processing, dead, runs, pc, held>>
      BY <2>3 DEF vars
    <3> QED BY <3>1, NothingMoves DEF HoldsOld, Live
  <2> QED BY <2>1, <2>2, <2>3 DEF Next
<1>2. HeldPresent'
  BY <1>0, <1>1, HeldStaysPresent
<1> QED BY <1>0, <1>1, <1>2 DEF DInv

Stands == [j \in Jobs |->
    IF runs[j] > 0 THEN "done"
    ELSE IF Listed(dead, j) THEN "dead"
    ELSE IF Listed(queue, j) \/ Listed(processing, j) THEN "pending"
    ELSE "absent"]

\* The refinement mapping gives each job its standing.
LEMMA StandsMap ==
    /\ Stands = [j \in Jobs |-> Standing(j)]
    /\ Stands' = [j \in Jobs |-> Standing(j)']
<1>1. \A j \in Jobs : Stands[j] = Standing(j)
  BY DEF Stands, Standing, Waits, Live, Listed
<1>2. \A j \in Jobs : Stands'[j] = Standing(j)'
  BY DEF Stands, Standing, Waits, Live, Listed
<1> QED BY <1>1, <1>2 DEF Stands

\* An allowed step is a step of JobDelivery under the mapping.
LEMMA StepRefines ==
    ASSUME StepAllowed
    PROVE  Stands' = Stands \/ \E j \in Jobs :
              \/ Stands[j] \in {"absent"} /\ Stands' = [Stands EXCEPT ![j] = "pending"]
              \/ Stands[j] \in {"pending"} /\ Stands' = [Stands EXCEPT ![j] = "dead"]
              \/ Stands[j] \in {"pending", "dead"} /\ Stands' = [Stands EXCEPT ![j] = "done"]
<1>1. CASE \A k \in Jobs : Same(k)
  BY <1>1, StandsMap DEF Same
<1>2. CASE \E j \in Jobs : Moves(j) /\ \A k \in Jobs \ {j} : Same(k)
  <2>1. PICK j \in Jobs : Moves(j) /\ \A k \in Jobs \ {j} : Same(k)
    BY <1>2
  <2>2. \A x : Standing(j)' = x => Stands' = [Stands EXCEPT ![j] = x]
    BY <2>1, StandsMap DEF Same
  <2>3. Stands[j] = Standing(j)
    BY StandsMap
  <2> QED BY <2>1, <2>2, <2>3 DEF Moves
<1> QED BY <1>1, <1>2 DEF StepAllowed

\* For every set of jobs, every number of servers and any finite number of
\* faults the queue implements JobDelivery: a job that was taken on is pending
\* until it is processed or parked, and nothing takes it back
\* (BatchRememberWorker's disposition before the ack).
THEOREM BatchQueueDelivers == Spec => ImplementsDelivery
<1>1. Init => DInv
  <2>1. Init => HeldPresent
    BY DEF Init, HeldPresent, Holding
  <2> QED BY <2>1, InitIInv DEF DInv
<1>2. Init => Delivery!Init
  <2> SUFFICES ASSUME Init PROVE Stands = [j \in Jobs |-> "absent"]
    BY DEF Delivery!Init, Stands
  <2>1. Live = {} /\ Range(dead) = {} /\ \A j \in Jobs : runs[j] = 0
    BY DEF Init, Live, Range
  <2>2. \A j \in Jobs : Standing(j) = "absent"
    BY <2>1 DEF Standing, Waits, Listed
  <2> QED BY <2>2, StandsMap
<1>3. DInv /\ [Next]_vars => DInv' /\ [Delivery!Next]_Stands
  <2> SUFFICES ASSUME DInv, [Next]_vars PROVE DInv' /\ (Stands' = Stands \/ Delivery!Next)
    OBVIOUS
  <2>1. StepAllowed /\ DInv'
    BY NextMoves
  <2>2. Delivery!Next <=> \E j \in Jobs :
              \/ Stands[j] \in {"absent"} /\ Stands' = [Stands EXCEPT ![j] = "pending"]
              \/ Stands[j] \in {"pending"} /\ Stands' = [Stands EXCEPT ![j] = "dead"]
              \/ Stands[j] \in {"pending", "dead"} /\ Stands' = [Stands EXCEPT ![j] = "done"]
    BY DEF Delivery!Next, Delivery!TakeOn, Delivery!Park, Delivery!Complete, Delivery!Move, Stands
  <2> QED BY <2>1, <2>2, StepRefines
<1> QED BY <1>1, <1>2, <1>3, PTL DEF Spec, ImplementsDelivery, Delivery!Spec, Stands

-----------------------------------------------------------------------------
(* What batch_status says of a job that has left the queue.  It is proved  *)
(* for one server: the start of a second one puts the envelope that the    *)
(* first is working on back into the queue.                                *)

\* No job has two envelopes in a list
Distinct(l) == \A m, n \in DOMAIN l : l[m].job = l[n].job => m = n

\* The status of a job that has left the queue
Reported(j) == status[j] \in {"queued", IF runs[j] > 0 THEN "completed" ELSE "dead"}

\* A job is in the queue, or with the worker, or was reported
JobTracked(w, j) ==
  /\ caller[j] = "idle" => ~Listed(queue, j) /\ ~HeldBy(w, j) /\ runs[j] = 0
  /\ Listed(queue, j) => runs[j] = 0
  /\ HeldBy(w, j) =>
       /\ pc[w] \in {"mark", "run", "retry", "bury", "buried"} => ~Listed(queue, j) /\ runs[j] = 0
       /\ pc[w] = "done" => ~Listed(queue, j) /\ runs[j] > 0
       /\ pc[w] = "requeued" => Listed(queue, j)
       /\ pc[w] = "ack" => Listed(queue, j) \/ Reported(j)
  /\ caller[j] # "idle" => Listed(queue, j) \/ HeldBy(w, j) \/ Reported(j)

\* Without a fault, what is in flight is what the worker holds
Undisturbed(w) ==
  /\ processing = IF pc[w] \in Holding THEN <<held[w]>> ELSE <<>>
  /\ safeToAck[w] /\ Distinct(queue)
  /\ \A j \in Jobs : JobTracked(w, j)

\* StatusTellsOutcome speaks of jobs that have left the queue; the invariant says of every
\* job where it is, and that it is there once
SInv == TypeOK /\ (faults = 0 => \A w \in Workers : Undisturbed(w))

\* A job that is not in the list may join it.
LEMMA DistinctPush ==
  ASSUME NEW l \in Seq(Envelope), NEW e \in Envelope, Distinct(l), ~Listed(l, e.job)
  PROVE  Distinct(LPush(l, e))
  <1>1. /\ DOMAIN LPush(l, e) = 1..(Len(l) + 1) /\ LPush(l, e)[1] = e
        /\ \A i \in 1..Len(l) : LPush(l, e)[i + 1] = l[i]
    BY DEF LPush
  <1>2. \A i \in 1..Len(l) : l[i].job # e.job
    BY DEF Listed, Range
  <1>3. ASSUME NEW i \in 1..(Len(l) + 1), i # 1
        PROVE  i - 1 \in 1..Len(l) /\ LPush(l, e)[i] = l[i - 1]
    <2>1. i - 1 \in 1..Len(l) /\ (i - 1) + 1 = i
      BY <1>3
    <2> QED  BY <2>1, <1>1
  <1> SUFFICES ASSUME NEW m \in 1..(Len(l) + 1), NEW n \in 1..(Len(l) + 1),
                      LPush(l, e)[m].job = LPush(l, e)[n].job
               PROVE  m = n
    BY <1>1 DEF Distinct
  <1>4. CASE m = 1 \/ n = 1
    BY <1>4, <1>1, <1>2, <1>3
  <1>5. CASE m # 1 /\ n # 1
    BY <1>5, <1>3 DEF Distinct
  <1> QED  BY <1>4, <1>5

\* What is popped is not in the list any more.
LEMMA DistinctPop ==
  ASSUME NEW l \in Seq(Envelope), l # <<>>, Distinct(l)
  PROVE  Distinct(PopTail(l)) /\ ~Listed(PopTail(l), Tip(l).job)
  <1>0. Len(l) \in Nat \ {0}
    BY DEF PopTail
  <1>1. /\ DOMAIN PopTail(l) = 1..(Len(l) - 1)
        /\ \A i \in 1..(Len(l) - 1) : PopTail(l)[i] = l[i]
    BY <1>0 DEF PopTail
  <1> QED  BY <1>0, <1>1 DEF Distinct, Listed, Range, Tip

\* Which jobs a list has after a push.
LEMMA PushListed ==
  ASSUME NEW l \in Seq(Envelope), NEW e \in Envelope, NEW j
  PROVE  Listed(LPush(l, e), j) <=> Listed(l, j) \/ e.job = j
  BY LPushFacts DEF Listed

\* ... and after a pop.
LEMMA PopListed ==
  ASSUME NEW l \in Seq(Envelope), l # <<>>, NEW j
  PROVE  Listed(l, j) <=> Listed(PopTail(l), j) \/ Tip(l).job = j
  BY PopTailFacts DEF Listed

\* At first nothing is queued.
LEMMA InitSInv == Init => SInv
  <1> SUFFICES ASSUME Init  PROVE SInv
    OBVIOUS
  <1>1. Range(queue) = {}
    BY DEF Init, Range
  <1> QED  BY <1>1, InitTypeOK DEF Init, SInv, Undisturbed, JobTracked, Distinct, Listed, HeldBy, Holding, Reported

\* A step in which nothing fails.
Quiet(w) == TypeOK /\ TypeOK' /\ Workers = {w} /\ faults = 0 /\ faults' = 0 /\ Undisturbed(w)

\* A step that changes neither the queue nor what the worker holds.
LEMMA SameTracked ==
  ASSUME NEW w, Quiet(w), UNCHANGED <<lists, worker, runs>>,
         \A j \in Jobs : /\ caller[j] = "idle" <=> caller'[j] = "idle"
                         /\ Reported(j) \/ (HeldBy(w, j) /\ pc[w] # "ack") => Reported(j)' \/ (HeldBy(w, j) /\ pc[w] # "ack")
  PROVE  Undisturbed(w)'
  <1>1. /\ queue' = queue /\ processing' = processing /\ pc' = pc /\ held' = held
        /\ safeToAck' = safeToAck /\ runs' = runs
    BY DEF lists, worker
  <1>2. \A j : Listed(queue, j)' = Listed(queue, j) /\ HeldBy(w, j)' = HeldBy(w, j)
    BY <1>1 DEF Listed, HeldBy, Job
  <1>3. ASSUME NEW j \in Jobs  PROVE JobTracked(w, j)'
    BY <1>1, <1>2, <1>3 DEF JobTracked, Quiet, Undisturbed
  <1> QED  BY <1>1, <1>3 DEF Undisturbed, Quiet

\* A job that is pushed was nowhere yet.
LEMMA EnqueueTracked ==
  ASSUME NEW w, Quiet(w), NEW i \in Jobs, Enqueue(i)  PROVE Undisturbed(w)'
  <1>1. PICK at \in Stamps : /\ queue' = LPush(queue, [job |-> i, retry |-> 0, at |-> at])
                             /\ caller' = [caller EXCEPT ![i] = "pushed"]
    BY DEF Enqueue, Quiet, Fault, TypeOK
  <1> DEFINE e == [job |-> i, retry |-> 0, at |-> at]
  <1>2. e \in Envelope /\ e.job = i
    BY RetryLimitAssumption DEF Envelope
  <1>3. /\ caller[i] = "idle" /\ processing' = processing /\ pc' = pc /\ held' = held
        /\ safeToAck' = safeToAck /\ runs' = runs /\ status' = status
    BY DEF Enqueue, worker, history
  <1>4. \A j : HeldBy(w, j)' = HeldBy(w, j) /\ Reported(j)' = Reported(j)
    BY <1>3 DEF HeldBy, Job, Reported
  <1>5. queue \in Seq(Envelope)
    BY DEF Quiet, TypeOK
  <1> HIDE DEF e
  <1>6. \A j : Listed(queue, j)' <=> Listed(queue, j) \/ j = i
    BY <1>1, <1>2, <1>5, PushListed DEF e
  <1>7. ~Listed(queue, i) /\ ~HeldBy(w, i) /\ runs[i] = 0
    BY <1>3 DEF Quiet, Undisturbed, JobTracked
  <1>8. ASSUME NEW j \in Jobs  PROVE JobTracked(w, j)'
    <2>1. JobTracked(w, j) /\ (j # i => caller'[j] = caller[j]) /\ caller'[i] = "pushed"
      BY <1>1 DEF Quiet, TypeOK, Undisturbed
    <2> QED  BY <2>1, <1>3, <1>4, <1>6, <1>7 DEF JobTracked
  <1>9. Distinct(queue)'
    BY <1>1, <1>2, <1>5, <1>7, DistinctPush DEF Quiet, Undisturbed, e
  <1> QED  BY <1>3, <1>8, <1>9 DEF Undisturbed, Quiet

\* The calls only report "queued".
LEMMA CallerTracked ==
  ASSUME NEW w, Quiet(w), NEW i \in Jobs, ReportQueued(i) \/ CallerDies(i)  PROVE Undisturbed(w)'
  <1>1. /\ ReportQueued(i) /\ caller[i] = "pushed" /\ caller' = [caller EXCEPT ![i] = "accepted"]
        /\ status' = [status EXCEPT ![i] = "queued"] /\ UNCHANGED <<lists, worker, runs>>
    BY DEF Quiet, ReportQueued, CallerDies, SetBatchJobStatus, Fault, history
  <1>2. ASSUME NEW j \in Jobs
        PROVE  (caller[j] = "idle" <=> caller'[j] = "idle") /\ (Reported(j) => Reported(j)')
    BY <1>1 DEF Quiet, TypeOK, Reported
  <1> QED  BY <1>1, <1>2, SameTracked

\* Start, recovery of an empty list, and the end of the loop hold no envelope.
LEMMA RestTracked ==
  ASSUME NEW w, Quiet(w), Start(w) \/ RequeueProcessing(w) \/ Stop(w) \/ Drained(w) \/ Crash(w)
  PROVE  Undisturbed(w)'
  <1>1. /\ pc[w] \notin Holding /\ pc'[w] \notin Holding /\ processing = <<>>
        /\ UNCHANGED <<lists, status, caller, runs>> /\ safeToAck'[w]
    BY DEF Quiet, Undisturbed, Start, RequeueProcessing, Stop, Drained, Crash, Exit, Goto, Fault, Holding,
           TypeOK, lists, history, worker
  <1>2. \A j : ~HeldBy(w, j) /\ ~HeldBy(w, j)' /\ (Listed(queue, j))' = Listed(queue, j) /\ Reported(j)' = Reported(j)
    BY <1>1 DEF HeldBy, Listed, Reported, lists
  <1>3. ASSUME NEW j \in Jobs  PROVE JobTracked(w, j)'
    <2>1. JobTracked(w, j)
      BY DEF Quiet, Undisturbed
    <2> QED  BY <2>1, <1>1, <1>2 DEF JobTracked
  <1> QED  BY <1>1, <1>3 DEF Undisturbed, Quiet, lists

\* What is popped goes to the worker, and to it alone.
LEMMA PopTracked ==
  ASSUME NEW w, Quiet(w), Pop(w)  PROVE Undisturbed(w)'
  <1>1. /\ queue # <<>> /\ pc[w] = "poll" /\ pc'[w] = "mark" /\ held'[w] = Tip(queue)
        /\ processing' = LPush(processing, Tip(queue)) /\ queue' = PopTail(queue)
        /\ UNCHANGED <<status, caller, runs, safeToAck>>
    BY DEF Quiet, Pop, Fault, TypeOK, history
  <1>2. queue \in Seq(Envelope) /\ processing = <<>> /\ Distinct(queue)
    BY <1>1 DEF Quiet, TypeOK, Undisturbed, Holding
  <1>3. processing' = <<held'[w]>>
    BY <1>1, <1>2 DEF LPush
  <1>4. /\ Tip(queue) \in Envelope /\ Distinct(PopTail(queue)) /\ ~Listed(PopTail(queue), Tip(queue).job)
    BY <1>1, <1>2, DistinctPop, PopTailFacts
  <1>5. PICK i : i = Tip(queue).job
    OBVIOUS
  <1>6. \A j : /\ ~HeldBy(w, j) /\ (HeldBy(w, j)' <=> j = i)
               /\ Listed(queue, j) <=> Listed(queue, j)' \/ j = i
               /\ Reported(j)' = Reported(j)
    BY <1>1, <1>2, <1>5, PopListed DEF HeldBy, Job, Holding, Reported
  <1>8. ~Listed(queue, i)'
    BY <1>1, <1>4, <1>5
  <1>7. ASSUME NEW j \in Jobs  PROVE JobTracked(w, j)'
    <2>1. JobTracked(w, j)
      BY DEF Quiet, Undisturbed
    <2> QED  BY <2>1, <1>1, <1>6, <1>8 DEF JobTracked
  <1> QED  BY <1>1, <1>3, <1>4, <1>7 DEF Undisturbed, Quiet, Holding

\* The worker reports the job it holds as under way.
LEMMA MarkTracked ==
  ASSUME NEW w, Quiet(w), MarkProcessing(w)  PROVE Undisturbed(w)'
  <1>1. /\ pc[w] = "mark" /\ pc' = [pc EXCEPT ![w] = "run"] /\ status' = [status EXCEPT ![Job(w)] = "processing"]
        /\ UNCHANGED <<lists, caller, runs, held, safeToAck>>
    BY DEF Quiet, MarkProcessing, SetBatchJobStatus, Goto, Fault, history
  <1>2. pc'[w] = "run" /\ \A j \in Jobs : j # Job(w) => status'[j] = status[j]
    BY <1>1 DEF Quiet, TypeOK
  <1>3. \A j : /\ (HeldBy(w, j) <=> j = Job(w)) /\ (HeldBy(w, j)' <=> j = Job(w))
               /\ Listed(queue, j)' = Listed(queue, j)
    BY <1>1, <1>2 DEF HeldBy, Holding, Listed, Job, lists
  <1>4. ASSUME NEW j \in Jobs  PROVE JobTracked(w, j)'
    <2>1. JobTracked(w, j) /\ (j # Job(w) => Reported(j)' = Reported(j))
      BY <1>1, <1>2 DEF Quiet, Undisturbed, Reported
    <2> QED  BY <2>1, <1>1, <1>2, <1>3 DEF JobTracked
  <1> QED  BY <1>1, <1>2, <1>4 DEF Undisturbed, Quiet, lists, Holding

\* A run ends well once; a job that failed is still without one.
LEMMA RunTracked ==
  ASSUME NEW w, Quiet(w), ProcessResolves(w) \/ ProcessRejects(w)  PROVE Undisturbed(w)'
  <1>1. /\ pc[w] = "run" /\ UNCHANGED <<lists, status, caller, held, safeToAck>>
        /\ \/ pc' = [pc EXCEPT ![w] = "done"] /\ runs' = [runs EXCEPT ![Job(w)] = IF @ < 2 THEN @ + 1 ELSE @]
           \/ UNCHANGED runs /\ \/ pc' = [pc EXCEPT ![w] = "retry"]
                                \/ pc' = [pc EXCEPT ![w] = "bury"]
    BY DEF ProcessResolves, ProcessRejects, Goto
  <1>0. /\ held[w] \in Envelope /\ Job(w) \in Jobs /\ pc \in [Workers -> PC] /\ w \in Workers
        /\ runs \in [Jobs -> 0..2]
    BY <1>1 DEF Quiet, TypeOK, Holding, Envelope, Job
  <1>2. /\ \A j \in Jobs : j # Job(w) => runs'[j] = runs[j]
        /\ pc'[w] = "done" => runs'[Job(w)] > 0
        /\ pc'[w] # "done" => runs' = runs
        /\ pc'[w] \in {"done", "retry", "bury"}
    <2>1. CASE pc' = [pc EXCEPT ![w] = "done"] /\ runs' = [runs EXCEPT ![Job(w)] = IF @ < 2 THEN @ + 1 ELSE @]
      BY <2>1, <1>0
    <2>2. CASE UNCHANGED runs /\ (pc' = [pc EXCEPT ![w] = "retry"] \/ pc' = [pc EXCEPT ![w] = "bury"])
      BY <2>2, <1>0
    <2> QED  BY <1>1, <2>1, <2>2
  <1>3. \A j : /\ (HeldBy(w, j) <=> j = Job(w)) /\ (HeldBy(w, j)' <=> j = Job(w))
               /\ Listed(queue, j)' = Listed(queue, j)
    BY <1>1, <1>2 DEF HeldBy, Holding, Listed, Job, lists
  <1>4. ASSUME NEW j \in Jobs  PROVE JobTracked(w, j)'
    <2>1. JobTracked(w, j) /\ (j # Job(w) => Reported(j)' = Reported(j))
      BY <1>1, <1>2 DEF Quiet, Undisturbed, Reported
    <2> QED  BY <2>1, <1>1, <1>2, <1>3 DEF JobTracked
  <1> QED  BY <1>1, <1>2, <1>4 DEF Undisturbed, Quiet, lists, Holding

\* The retry is the only envelope in the queue.
LEMMA RetryTracked ==
  ASSUME NEW w, Quiet(w), RetriesEarned, PushRetry(w)  PROVE Undisturbed(w)'
  <1>1. PICK at \in Stamps : queue' = LPush(queue, Again(held[w], at))
    BY DEF PushRetry, Dispose, Quiet, Fault
  <1>2. /\ pc[w] = "retry" /\ pc' = [pc EXCEPT ![w] = "requeued"]
        /\ UNCHANGED <<processing, status, caller, runs, held, safeToAck>>
    BY DEF PushRetry, Dispose, Quiet, Fault, history
  <1>3. held[w] \in Envelope /\ held[w].retry < RetryLimit /\ queue \in Seq(Envelope) /\ pc'[w] = "requeued"
    BY <1>2 DEF Quiet, TypeOK, Holding, RetriesEarned
  <1> DEFINE e == Again(held[w], at)
  <1>4. e \in Envelope /\ e.job = Job(w) /\ Job(w) \in Jobs
    BY <1>3, RetryLimitAssumption DEF Again, Envelope, Job
  <1> HIDE DEF e
  <1>5. \A j : /\ (HeldBy(w, j) <=> j = Job(w)) /\ (HeldBy(w, j)' <=> j = Job(w))
               /\ Listed(queue, j)' <=> Listed(queue, j) \/ j = Job(w)
               /\ Reported(j)' = Reported(j)
    BY <1>1, <1>2, <1>3, <1>4, PushListed DEF HeldBy, Holding, Job, Reported, e
  <1>6. ~Listed(queue, Job(w)) /\ runs[Job(w)] = 0
    BY <1>2, <1>4, <1>5 DEF Quiet, Undisturbed, JobTracked
  <1>7. ASSUME NEW j \in Jobs  PROVE JobTracked(w, j)'
    <2>1. JobTracked(w, j)
      BY DEF Quiet, Undisturbed
    <2> QED  BY <2>1, <1>2, <1>3, <1>5, <1>6 DEF JobTracked
  <1>8. Distinct(queue)'
    BY <1>1, <1>3, <1>4, <1>6, DistinctPush DEF Quiet, Undisturbed, e
  <1> QED  BY <1>2, <1>3, <1>7, <1>8 DEF Undisturbed, Quiet, Holding

\* The worker reports how the job it holds ended.
LEMMA DisposedTracked ==
  ASSUME NEW w, Quiet(w), PushDead(w) \/ ReportOutcome(w)  PROVE Undisturbed(w)'
  <1>1. /\ pc[w] \in {"bury", "done", "requeued", "buried"} /\ UNCHANGED <<queue, processing, caller, runs, held, safeToAck>>
        /\ \/ pc[w] = "bury" /\ pc' = [pc EXCEPT ![w] = "buried"] /\ UNCHANGED status
           \/ pc[w] = "done" /\ pc' = [pc EXCEPT ![w] = "ack"] /\ status' = [status EXCEPT ![Job(w)] = "completed"]
           \/ pc[w] = "requeued" /\ pc' = [pc EXCEPT ![w] = "ack"] /\ status' = [status EXCEPT ![Job(w)] = "queued"]
           \/ pc[w] = "buried" /\ pc' = [pc EXCEPT ![w] = "ack"] /\ status' = [status EXCEPT ![Job(w)] = "dead"]
    BY DEF Quiet, PushDead, Dispose, ReportOutcome, SetBatchJobStatus, Goto, Fault, history, lists
  <1>2. /\ held[w] \in Envelope /\ Job(w) \in Jobs
        /\ \A j \in Jobs : j # Job(w) => status'[j] = status[j]
        /\ pc[w] = "bury" => pc'[w] = "buried"
        /\ pc[w] # "bury" => pc'[w] = "ack"
        /\ pc[w] = "done" => status'[Job(w)] = "completed"
        /\ pc[w] = "requeued" => status'[Job(w)] = "queued"
        /\ pc[w] = "buried" => status'[Job(w)] = "dead"
    BY <1>1 DEF Quiet, TypeOK, Holding, Envelope, Job
  <1>3. \A j : /\ (HeldBy(w, j) <=> j = Job(w)) /\ (HeldBy(w, j)' <=> j = Job(w))
               /\ Listed(queue, j)' = Listed(queue, j)
    BY <1>1, <1>2 DEF HeldBy, Holding, Listed, Job
  <1>4. ASSUME NEW j \in Jobs  PROVE JobTracked(w, j)'
    <2>1. JobTracked(w, j) /\ (j # Job(w) => Reported(j)' = Reported(j))
      BY <1>1, <1>2 DEF Quiet, Undisturbed, Reported
    <2>2. CASE j # Job(w)
      BY <2>1, <2>2, <1>1, <1>3 DEF JobTracked
    <2>3. CASE j = Job(w)
      BY <2>1, <2>3, <1>1, <1>2, <1>3 DEF JobTracked, Reported
    <2> QED  BY <2>2, <2>3
  <1> QED  BY <1>1, <1>2, <1>4 DEF Undisturbed, Quiet, Holding

\* The acknowledgement takes the envelope of a job that is queued again or reported.
LEMMA AckTracked ==
  ASSUME NEW w, Quiet(w), Ack(w)  PROVE Undisturbed(w)'
  <1>1. /\ pc[w] = "ack" /\ pc'[w] = "poll" /\ safeToAck'[w] /\ processing' = LRem(processing, held[w])
        /\ processing = <<held[w]>> /\ UNCHANGED <<queue, status, caller, runs>>
    BY DEF Quiet, Undisturbed, Ack, Fault, TypeOK, history, Holding
  <1>2. processing' = <<>>
    <2>1. held[w] \in Range(processing) /\ Len(processing) = 1
      BY <1>1 DEF Range
    <2> QED  BY <2>1, <1>1 DEF LRem
  <1>3. \A j : /\ (HeldBy(w, j) <=> j = Job(w)) /\ ~HeldBy(w, j)'
               /\ Listed(queue, j)' = Listed(queue, j) /\ Reported(j)' = Reported(j)
    BY <1>1 DEF HeldBy, Holding, Listed, Job, Reported
  <1>4. ASSUME NEW j \in Jobs  PROVE JobTracked(w, j)'
    <2>1. JobTracked(w, j)
      BY DEF Quiet, Undisturbed
    <2> QED  BY <2>1, <1>1, <1>3 DEF JobTracked
  <1> QED  BY <1>1, <1>2, <1>4 DEF Undisturbed, Quiet, Holding

\* Every step of one server and its callers keeps track of every job.
LEMMA NextSInv ==
  ASSUME NEW s, Workers = {s}
  PROVE  IInv /\ IInv' /\ SInv /\ [Next]_vars => SInv'
  <1> SUFFICES ASSUME IInv, IInv', SInv, [Next]_vars, faults' = 0  PROVE Undisturbed(s)'
    BY DEF SInv, IInv
  <1>1. faults = 0
    <2>1. faults \in Nat
      BY MaxFaultsAssumption DEF IInv, TypeOK
    <2>2. NoFault \/ Fault
      BY DEF Next, vars, WorkerStep, Enqueue, ReportQueued, CallerDies, Start, RequeueProcessing, Drained, Pop,
             MarkProcessing, ProcessResolves, ProcessRejects, PushRetry, PushDead, ReportOutcome, Ack, Stop,
             Crash, Dispose, SetBatchJobStatus, NoFault
    <2> QED  BY <2>1, <2>2 DEF NoFault, Fault
  <1>2. Quiet(s) /\ RetriesEarned
    BY <1>1 DEF Quiet, SInv, IInv
  <1>3. CASE UNCHANGED vars
    BY <1>2, <1>3, SameTracked DEF vars, lists, worker, Reported
  <1>4. ASSUME NEW j \in Jobs, Enqueue(j) \/ ReportQueued(j) \/ CallerDies(j)  PROVE Undisturbed(s)'
    BY <1>2, <1>4, EnqueueTracked, CallerTracked
  <1>5. CASE WorkerStep(s) \/ Stop(s) \/ Crash(s)
    BY <1>2, <1>5, RestTracked, PopTracked, MarkTracked, RunTracked, RetryTracked, DisposedTracked, AckTracked
    DEF WorkerStep
  <1> QED  BY <1>3, <1>4, <1>5 DEF Next

\* For one server, any jobs, callers and retry limit: as long as nothing failed,
\* batch_status tells of a job that has left the queue how it ended, unless the late
\* "queued" of its call is still to come or was the last to report (_enqueueAsync,
\* _processJobEnvelope).
THEOREM BatchQueueReports ==
  ASSUME NEW s, Workers = {s}
  PROVE  Spec => []StatusTellsOutcome
  <1>1. SInv => StatusTellsOutcome
    <2> SUFFICES ASSUME SInv, NEW j \in Jobs, faults = 0, caller[j] = "accepted",
                        ~Listed(queue, j), ~Listed(processing, j)
                 PROVE  Reported(j)
      BY DEF StatusTellsOutcome, Reported
    <2>1. Undisturbed(s)
      BY DEF SInv
    <2>2. HeldBy(s, j) => Listed(processing, j)
      BY <2>1 DEF Undisturbed, HeldBy, Listed, Range, Job
    <2> QED  BY <2>1, <2>2 DEF Undisturbed, JobTracked
  <1> QED  BY <1>1, InitIInv, NextIInv, InitSInv, NextSInv, PTL DEF Spec
=============================================================================
