--------------------------- MODULE SessionsProofs ---------------------------
(***************************************************************************)
(* For any set of session ids, any number of handlers and timers, any      *)
(* window and any number of restarts: Redis backs every live session, and  *)
(* a session that ended stays ended.                                       *)
(*                                                                         *)
(* Backed alone is not inductive: a handler that saves the age of the Map  *)
(* to Redis must not write an age past the window, so no handler that goes *)
(* on with a session finds it expired (Current).  EndedStaysEnded alone is *)
(* not inductive either: no handler still holds what would bring an ended  *)
(* session back (Settled).  Both rest on the answers of Redis coming to    *)
(* the threads that wait for them, each once (QueueOK).                    *)
(***************************************************************************)
EXTENDS Sessions, TLAPS

Labels == RedisWaits \cup OtherWaits \cup {"idle"}
Ops    == {"none", "post", "get", "delete", "recovered", "init", "close", "rotate", "shutdown"}
Ages   == 0..SessionTTL

Thread == [pc : Labels, op : Ops, sid : Sids \cup {None}, val : Sids \cup Ages \cup {None}]

Waiting   == {t \in Threads : th[t].pc \in RedisWaits}
Listed(q) == {q[i] : i \in 1..Len(q)}
Once(q)   == \A i, j \in 1..Len(q) : q[i] = q[j] => i = j

\* The tables have their types.
TablesOK ==
    /\ proc \in {"off", "up", "draining"} /\ restarts \in 0..MaxRestarts
    /\ mem \in [Sids -> Ages \cup {None}]
    /\ redis \in [Sids -> 0..(SessionTTL - 1) \cup {None}]
    /\ token \in [sid : Sids \cup {None}, age : Nat]

\* So have the locals of the threads.
ThreadsOK == th \in [Threads -> Thread]

\* The threads that wait for Redis are queued, each once.
QueueOK == fifo \in Seq(Threads) /\ Listed(fifo) = Waiting /\ Once(fifo)

\* An id in use was handed out.
IdsOK ==
    /\ issued \subseteq Sids /\ ended \subseteq issued
    /\ token.sid \in issued \cup {None}
    /\ \A t \in Threads :
         /\ th[t].sid \in issued \cup {None}
         /\ th[t].pc \notin {"idle", "token", "create"} => th[t].sid \in issued
         /\ th[t].pc = "token" => th[t].val \in issued \cup {None}
         /\ th[t].pc = "bind" => th[t].op = "init"

\* A handler that goes on with a session of the Map does not find it expired.
Current ==
    \A t \in Threads :
        th[t].pc \in {"restored", "valid", "bind"} /\ Held(th[t].sid) => ~Expired(th[t].sid)

\* No handler holds what would bring an ended session back.
Settled == \A t \in Threads : th[t].sid \in ended => ~MaySave(t)

IInv == TablesOK /\ ThreadsOK /\ QueueOK /\ IdsOK /\ Current /\ Backed /\ EndedStaysEnded /\ Settled
-----------------------------------------------------------------------------
(* The queue of the threads that wait for Redis *)

\* A thread that joins the queue is its only new element.
LEMMA AppendFacts ==
    ASSUME NEW S, NEW q \in Seq(S), NEW e \in S
    PROVE  /\ Append(q, e) \in Seq(S)
           /\ Listed(Append(q, e)) = Listed(q) \cup {e}
           /\ Once(q) /\ e \notin Listed(q) => Once(Append(q, e))
<1>1. /\ Append(q, e) \in Seq(S)
      /\ Len(Append(q, e)) = Len(q) + 1 /\ Len(q) \in Nat
      /\ \A i \in 1..Len(q) : Append(q, e)[i] = q[i]
      /\ Append(q, e)[Len(q) + 1] = e
  OBVIOUS
<1>2. \A i \in 1..(Len(q) + 1) : i \in 1..Len(q) \/ i = Len(q) + 1
  BY <1>1
<1>3. 1..Len(q) \subseteq 1..(Len(q) + 1) /\ Len(q) + 1 \in 1..(Len(q) + 1)
  BY <1>1
<1>4. Listed(Append(q, e)) = Listed(q) \cup {e}
  BY <1>1, <1>2, <1>3 DEF Listed
<1>5. ASSUME Once(q), e \notin Listed(q) PROVE Once(Append(q, e))
  BY <1>1, <1>2, <1>5 DEF Listed, Once
<1> QED BY <1>1, <1>4, <1>5

\* When the head is answered, it is the only element that leaves.
LEMMA TailFacts ==
    ASSUME NEW S, NEW q \in Seq(S), q # <<>>, Once(q)
    PROVE  /\ Tail(q) \in Seq(S) /\ Head(q) \in S
           /\ Listed(Tail(q)) = Listed(q) \ {Head(q)}
           /\ Once(Tail(q))
<1>1. /\ Tail(q) \in Seq(S) /\ Head(q) = q[1] /\ q[1] \in S
      /\ Len(Tail(q)) = Len(q) - 1 /\ Len(q) \in Nat \ {0}
      /\ \A i \in 1..(Len(q) - 1) : Tail(q)[i] = q[i + 1]
  OBVIOUS
<1>2. \A i \in 1..(Len(q) - 1) : i + 1 \in 1..Len(q) /\ i + 1 # 1
  BY <1>1
<1>3. \A i \in 1..Len(q) : i # 1 => i - 1 \in 1..(Len(q) - 1) /\ (i - 1) + 1 = i
  BY <1>1
<1>4. 1 \in 1..Len(q)
  BY <1>1
<1>5. Once(Tail(q))
  <2> SUFFICES ASSUME NEW i \in 1..(Len(q) - 1), NEW j \in 1..(Len(q) - 1), q[i + 1] = q[j + 1]
               PROVE  i = j
    BY <1>1 DEF Once
  <2> QED BY <1>1, <1>2 DEF Once
<1>6. \A x \in Listed(Tail(q)) : x \in Listed(q) /\ x # Head(q)
  BY <1>1, <1>2, <1>4 DEF Listed, Once
<1>7. \A x \in Listed(q) : x # Head(q) => x \in Listed(Tail(q))
  <2> SUFFICES ASSUME NEW i \in 1..Len(q), q[i] # q[1]
               PROVE  q[i] \in Listed(Tail(q))
    BY <1>1 DEF Listed
  <2>1. i # 1
    OBVIOUS
  <2>2. q[i] = Tail(q)[i - 1] /\ i - 1 \in 1..Len(Tail(q))
    BY <2>1, <1>1, <1>3
  <2> QED BY <2>2 DEF Listed
<1> QED BY <1>1, <1>5, <1>6, <1>7

\* What a step of thread t may do to the queue: nothing, join it, leave it, or leave
\* it and join it again, as it stops or begins to wait for Redis.
Moves(t) ==
    /\ \A u \in Threads \ {t} : th'[u].pc = th[u].pc
    /\ \/ fifo' = fifo /\ (t \in Waiting' <=> t \in Waiting)
       \/ Await(t) /\ t \notin Waiting /\ t \in Waiting'
       \/ Ready(t) /\ Done(t) /\ t \notin Waiting'
       \/ Ready(t) /\ Next1(t) /\ t \in Waiting'

\* None of them makes the queue and the waiting threads differ.
LEMMA QueueMove ==
    ASSUME QueueOK, NEW t \in Threads, Moves(t)
    PROVE  QueueOK'
<1> USE DEF Moves
<1>1. \A u \in Threads \ {t} : u \in Waiting' <=> u \in Waiting
  BY DEF Waiting
<1>2. Waiting \subseteq Threads /\ Waiting' \subseteq Threads
  BY DEF Waiting
<1>3. CASE fifo' = fifo /\ (t \in Waiting' <=> t \in Waiting)
  <2>1. \A u \in Threads : u \in Waiting' <=> u \in Waiting
    BY <1>1, <1>3
  <2>2. Waiting' = Waiting
    BY <2>1, <1>2
  <2> QED BY <2>2, <1>3 DEF QueueOK, Listed, Once
<1>4. CASE Await(t) /\ t \notin Waiting /\ t \in Waiting'
  <2>1. Waiting' = Waiting \cup {t}
    BY <1>1, <1>2, <1>4
  <2>2. fifo \in Seq(Threads) /\ Once(fifo) /\ fifo' = Append(fifo, t) /\ t \notin Listed(fifo)
    BY <1>4 DEF QueueOK, Await
  <2>3. fifo' \in Seq(Threads) /\ Listed(fifo') = Listed(fifo) \cup {t} /\ Once(fifo')
    BY <2>2, AppendFacts
  <2> QED BY <1>4, <2>1, <2>3 DEF QueueOK
<1>5. CASE Ready(t) /\ Done(t) /\ t \notin Waiting'
  <2>1. Waiting' = Waiting \ {t}
    BY <1>1, <1>2, <1>5
  <2> QED BY <2>1, <1>5, TailFacts DEF QueueOK, Ready, Done
<1>6. CASE Ready(t) /\ Next1(t) /\ t \in Waiting'
  <2> DEFINE q == Tail(fifo)
  <2>1. q \in Seq(Threads) /\ Listed(q) = Waiting \ {t} /\ Once(q)
    BY <1>6, TailFacts DEF QueueOK, Ready
  <2>2. fifo' = Append(q, t)
    BY <1>6 DEF Next1
  <2>3. t \notin Listed(q)
    BY <2>1
  <2> HIDE DEF q
  <2>4. fifo' \in Seq(Threads) /\ Listed(fifo') = (Waiting \ {t}) \cup {t} /\ Once(fifo')
    BY <2>1, <2>2, <2>3, AppendFacts
  <2>5. Listed(fifo') = Waiting'
    BY <2>4, <1>1, <1>2, <1>6
  <2> QED BY <2>4, <2>5 DEF QueueOK
<1> QED BY <1>3, <1>4, <1>5, <1>6

-----------------------------------------------------------------------------
(* The parts of the invariant, step by step *)

\* Ages stay within the window: what a handler saves is 0 or an age of the Map that is
\* not past the window.
LEMMA TablesStep ==
    ASSUME TablesOK, IdsOK, Current, Backed, Next
    PROVE  TablesOK'
<1> USE TimeAssumption, BoundAssumption, NoneAssumption DEF TablesOK, IdsOK, Current,
       Backed, Ages, Held, Expired
<1>1. ASSUME NEW t \in Threads, Restore(t) PROVE TablesOK'
  BY <1>1 DEF Restore, Save, Sid, At, Go
<1>2. ASSUME NEW t \in Threads, Restored(t) PROVE TablesOK'
  BY <1>2 DEF Restored, Sid, Go
<1>3. ASSUME NEW t \in Threads, Invalid(t) PROVE TablesOK'
  BY <1>3 DEF Invalid, Go, At, Finish, Idle
<1>4. ASSUME NEW t \in Threads, Recover(t) PROVE TablesOK'
  BY <1>4 DEF Recover, Save, Sid, At
<1>5. ASSUME NEW t \in Threads, Valid(t) PROVE TablesOK'
  BY <1>5 DEF Valid, Go, Finish, Idle, Sid
<1>6. ASSUME NEW t \in Threads, Refetch(t) PROVE TablesOK'
  BY <1>6 DEF Refetch, Sid, Finish, Idle
<1>7. ASSUME NEW t \in Threads, Delete(t) PROVE TablesOK'
  BY <1>7 DEF Delete, Sid, At, Finish, Idle
<1>8. ASSUME NEW t \in Threads, Close(t) PROVE TablesOK'
  BY <1>8 DEF Close, Sid, Finish, Idle, Drop, Final, On, Busy, MaySave, Go
<1>9. ASSUME NEW t \in Threads, Closed(t) PROVE TablesOK'
  BY <1>9 DEF Closed, Requests, Go, Finish, Idle
<1>10. ASSUME NEW t \in Threads, Rotating(t) PROVE TablesOK'
  BY <1>10 DEF Rotating, Reissue, Fresh, Save, At, Sid, Finish, Idle
<1>11. ASSUME NEW t \in Threads, Retire(t) PROVE TablesOK'
  BY <1>11 DEF Retire, Drop, Sid, Final, On, Busy, MaySave, At
<1>12. ASSUME NEW t \in Threads, TokenRead(t) PROVE TablesOK'
  BY <1>12 DEF TokenRead, Validate, Save, At, Go
<1>13. ASSUME NEW t \in Threads, Create(t) PROVE TablesOK'
  BY <1>13 DEF Create, Fresh, Save, At
<1>14. ASSUME NEW t \in Threads, Bind(t) PROVE TablesOK'
  BY <1>14 DEF Bind, Sid, Go
<1>15. ASSUME NEW t \in Threads, Initialize(t) PROVE TablesOK'
  BY <1>15 DEF Initialize, Fresh, At
<1>16. ASSUME NEW t \in Threads, NEW s \in issued, NEW o \in Requests, Request(t, o, s)
      PROVE  TablesOK'
  BY <1>16 DEF Request, Requests, Validate, Save, At
<1>17. ASSUME NEW t \in Threads, NEW s \in issued, Rotate(t, s) PROVE TablesOK'
  BY <1>17 DEF Rotate, Fresh, Reissue, Save, At
<1>18. ASSUME NEW t \in Threads, NEW s \in issued,
             Sweep(t, s) \/ HeartbeatFails(t, s) \/ AdminClose(t, s) \/ ShutdownClose(t, s)
      PROVE  TablesOK'
  BY <1>18 DEF Sweep, Start, At, HeartbeatFails, AdminClose, ShutdownClose
<1>19. CASE Shutdown \/ Boot
  BY <1>19 DEF Shutdown, Boot
<1>20. CASE Exit \/ Crash
  BY <1>20 DEF Exit, Halt, Idle, Crash
<1>21. CASE Tick
  BY <1>21 DEF Tick, Busy, Older, Unbound
<1> QED BY <1>1, <1>2, <1>3, <1>4, <1>5, <1>6, <1>7, <1>8, <1>9, <1>10, <1>11, <1>12,
           <1>13, <1>14, <1>15, <1>16, <1>17, <1>18, <1>19, <1>20,
           <1>21 DEF Next, Step, Begin

\* A thread goes from one await to the next.
LEMMA ThreadsStep ==
    ASSUME TablesOK, ThreadsOK, IdsOK, Next
    PROVE  ThreadsOK'
<1> USE TimeAssumption, BoundAssumption, NoneAssumption DEF TablesOK, ThreadsOK, IdsOK,
       Thread, Labels, Ops, Ages, RedisWaits, OtherWaits
<1>1. ASSUME NEW t \in Threads, Restore(t) PROVE ThreadsOK'
  BY <1>1 DEF Restore, Save, Sid, At, Go
<1>2. ASSUME NEW t \in Threads, Restored(t) PROVE ThreadsOK'
  BY <1>2 DEF Restored, Sid, Go
<1>3. ASSUME NEW t \in Threads, Invalid(t) PROVE ThreadsOK'
  BY <1>3 DEF Invalid, Go, At, Finish, Idle
<1>4. ASSUME NEW t \in Threads, Recover(t) PROVE ThreadsOK'
  BY <1>4 DEF Recover, Save, Sid, At
<1>5. ASSUME NEW t \in Threads, Valid(t) PROVE ThreadsOK'
  BY <1>5 DEF Valid, Go, Finish, Idle, Held, Sid
<1>6. ASSUME NEW t \in Threads, Refetch(t) PROVE ThreadsOK'
  BY <1>6 DEF Refetch, Sid, Finish, Idle
<1>7. ASSUME NEW t \in Threads, Delete(t) PROVE ThreadsOK'
  BY <1>7 DEF Delete, Held, Sid, At, Finish, Idle
<1>8. ASSUME NEW t \in Threads, Close(t) PROVE ThreadsOK'
  BY <1>8 DEF Close, Sid, Finish, Idle, Drop, Final, Held, On, Busy, MaySave, Go
<1>9. ASSUME NEW t \in Threads, Closed(t) PROVE ThreadsOK'
  BY <1>9 DEF Closed, Requests, Go, Finish, Idle
<1>10. ASSUME NEW t \in Threads, Rotating(t) PROVE ThreadsOK'
  BY <1>10 DEF Rotating, Reissue, Fresh, Save, At, Sid, Finish, Idle
<1>11. ASSUME NEW t \in Threads, Retire(t) PROVE ThreadsOK'
  BY <1>11 DEF Retire, Drop, Sid, Final, Held, On, Busy, MaySave, At
<1>12. ASSUME NEW t \in Threads, TokenRead(t) PROVE ThreadsOK'
  BY <1>12 DEF TokenRead, Validate, Held, Expired, Save, At, Go
<1>13. ASSUME NEW t \in Threads, Create(t) PROVE ThreadsOK'
  BY <1>13 DEF Create, Fresh, Save, At
<1>14. ASSUME NEW t \in Threads, Bind(t) PROVE ThreadsOK'
  BY <1>14 DEF Bind, Sid, Go
<1>15. ASSUME NEW t \in Threads, Initialize(t) PROVE ThreadsOK'
  BY <1>15 DEF Initialize, Fresh, At
<1>16. ASSUME NEW t \in Threads, NEW s \in issued, NEW o \in Requests, Request(t, o, s)
      PROVE  ThreadsOK'
  BY <1>16 DEF Request, Requests, Validate, Held, Expired, Save, At
<1>17. ASSUME NEW t \in Threads, NEW s \in issued, Rotate(t, s)
      PROVE  ThreadsOK'
  BY <1>17 DEF Rotate, Fresh, Held, Expired, Reissue, Save, At
<1>18. ASSUME NEW t \in Threads, NEW s \in issued,
             Sweep(t, s) \/ HeartbeatFails(t, s) \/ AdminClose(t, s) \/ ShutdownClose(t, s)
      PROVE  ThreadsOK'
  BY <1>18 DEF Sweep, Held, Expired, Start, At, HeartbeatFails, AdminClose,
               ShutdownClose
<1>19. CASE Shutdown \/ Boot
  BY <1>19 DEF Shutdown, Boot
<1>20. CASE Exit \/ Crash
  BY <1>20 DEF Exit, Halt, Idle, Crash
<1>21. CASE Tick
  BY <1>21 DEF Tick, Busy, Held, Expired, Older, Unbound
<1> QED BY <1>1, <1>2, <1>3, <1>4, <1>5, <1>6, <1>7, <1>8, <1>9, <1>10, <1>11, <1>12,
           <1>13, <1>14, <1>15, <1>16, <1>17, <1>18, <1>19, <1>20,
           <1>21 DEF Next, Step, Begin

\* A handler works for an id that was handed out.
LEMMA IdsStep ==
    ASSUME ThreadsOK, IdsOK, Next
    PROVE  IdsOK'
<1> USE TimeAssumption, BoundAssumption, NoneAssumption DEF ThreadsOK, IdsOK, Thread
<1>1. ASSUME NEW t \in Threads, Restore(t) PROVE IdsOK'
  BY <1>1 DEF Restore, Save, Sid, At, Go
<1>2. ASSUME NEW t \in Threads, Restored(t) PROVE IdsOK'
  BY <1>2 DEF Restored, Sid, Go
<1>3. ASSUME NEW t \in Threads, Invalid(t) PROVE IdsOK'
  BY <1>3 DEF Invalid, Go, At, Finish, Idle
<1>4. ASSUME NEW t \in Threads, Recover(t) PROVE IdsOK'
  BY <1>4 DEF Recover, Save, Sid, At
<1>5. ASSUME NEW t \in Threads, Valid(t) PROVE IdsOK'
  BY <1>5 DEF Valid, Go, Finish, Idle, Held, Sid
<1>6. ASSUME NEW t \in Threads, Refetch(t) PROVE IdsOK'
  BY <1>6 DEF Refetch, Sid, Finish, Idle
<1>7. ASSUME NEW t \in Threads, Delete(t) PROVE IdsOK'
  BY <1>7 DEF Delete, Held, Sid, At, Finish, Idle
<1>8. ASSUME NEW t \in Threads, Close(t) PROVE IdsOK'
  BY <1>8 DEF Close, Sid, Finish, Idle, Drop, Final, Held, On, Busy, MaySave, Go
<1>9. ASSUME NEW t \in Threads, Closed(t) PROVE IdsOK'
  BY <1>9 DEF Closed, Requests, Go, Finish, Idle
<1>10. ASSUME NEW t \in Threads, Rotating(t) PROVE IdsOK'
  BY <1>10 DEF Rotating, Reissue, Fresh, Save, At, Sid, Finish, Idle
<1>11. ASSUME NEW t \in Threads, Retire(t) PROVE IdsOK'
  BY <1>11 DEF Retire, Drop, Sid, Final, Held, On, Busy, MaySave, At
<1>12. ASSUME NEW t \in Threads, TokenRead(t) PROVE IdsOK'
  BY <1>12 DEF TokenRead, Validate, Held, Expired, Save, At, Go
<1>13. ASSUME NEW t \in Threads, Create(t) PROVE IdsOK'
  BY <1>13 DEF Create, Fresh, Save, At
<1>14. ASSUME NEW t \in Threads, Bind(t) PROVE IdsOK'
  BY <1>14 DEF Bind, Sid, Go
<1>15. ASSUME NEW t \in Threads, Initialize(t) PROVE IdsOK'
  BY <1>15 DEF Initialize, Fresh, At
<1>16. ASSUME NEW t \in Threads, NEW s \in issued, NEW o \in Requests, Request(t, o, s)
      PROVE  IdsOK'
  BY <1>16 DEF Request, Requests, Validate, Held, Expired, Save, At
<1>17. ASSUME NEW t \in Threads, NEW s \in issued, Rotate(t, s) PROVE IdsOK'
  BY <1>17 DEF Rotate, Fresh, Held, Expired, Reissue, Save, At
<1>18. ASSUME NEW t \in Threads, NEW s \in issued,
             Sweep(t, s) \/ HeartbeatFails(t, s) \/ AdminClose(t, s) \/ ShutdownClose(t, s)
      PROVE  IdsOK'
  BY <1>18 DEF Sweep, Held, Expired, Start, At, HeartbeatFails, AdminClose,
               ShutdownClose
<1>19. CASE Shutdown \/ Boot
  BY <1>19 DEF Shutdown, Boot
<1>20. CASE Exit \/ Crash
  BY <1>20 DEF Exit, Halt, Idle, Crash
<1>21. CASE Tick
  BY <1>21 DEF Tick, Busy, Held, Expired, Older, Unbound
<1> QED BY <1>1, <1>2, <1>3, <1>4, <1>5, <1>6, <1>7, <1>8, <1>9, <1>10, <1>11, <1>12,
           <1>13, <1>14, <1>15, <1>16, <1>17, <1>18, <1>19, <1>20,
           <1>21 DEF Next, Step, Begin

\* Only the clock makes a session expire, and it waits until nothing is in progress.
LEMMA CurrentStep ==
    ASSUME TablesOK, ThreadsOK, IdsOK, Current, Next
    PROVE  Current'
<1> USE TimeAssumption, BoundAssumption, NoneAssumption DEF TablesOK, ThreadsOK, IdsOK,
       Current, Thread, Ages, Held, Expired
<1>1. ASSUME NEW t \in Threads, Restore(t) PROVE Current'
  BY <1>1 DEF Restore, Save, Sid, At, Go
<1>2. ASSUME NEW t \in Threads, Restored(t) PROVE Current'
  BY <1>2 DEF Restored, Sid, Go
<1>3. ASSUME NEW t \in Threads, Invalid(t) PROVE Current'
  BY <1>3 DEF Invalid, Go, At, Finish, Idle
<1>4. ASSUME NEW t \in Threads, Recover(t) PROVE Current'
  BY <1>4 DEF Recover, Save, Sid, At
<1>5. ASSUME NEW t \in Threads, Valid(t) PROVE Current'
  BY <1>5 DEF Valid, Go, Finish, Idle, Sid
<1>6. ASSUME NEW t \in Threads, Refetch(t) PROVE Current'
  BY <1>6 DEF Refetch, Sid, Finish, Idle
<1>7. ASSUME NEW t \in Threads, Delete(t) PROVE Current'
  BY <1>7 DEF Delete, Sid, At, Finish, Idle
<1>8. ASSUME NEW t \in Threads, Close(t) PROVE Current'
  BY <1>8 DEF Close, Sid, Finish, Idle, Drop, Final, On, Busy, MaySave, Go
<1>9. ASSUME NEW t \in Threads, Closed(t) PROVE Current'
  BY <1>9 DEF Closed, Requests, Go, Finish, Idle
<1>10. ASSUME NEW t \in Threads, Rotating(t) PROVE Current'
  BY <1>10 DEF Rotating, Reissue, Fresh, Save, At, Sid, Finish, Idle
<1>11. ASSUME NEW t \in Threads, Retire(t) PROVE Current'
  BY <1>11 DEF Retire, Drop, Sid, Final, On, Busy, MaySave, At
<1>12. ASSUME NEW t \in Threads, TokenRead(t) PROVE Current'
  BY <1>12 DEF TokenRead, Validate, Save, At, Go
<1>13. ASSUME NEW t \in Threads, Create(t) PROVE Current'
  BY <1>13 DEF Create, Fresh, Save, At
<1>14. ASSUME NEW t \in Threads, Bind(t) PROVE Current'
  BY <1>14 DEF Bind, Sid, Go
<1>15. ASSUME NEW t \in Threads, Initialize(t) PROVE Current'
  BY <1>15 DEF Initialize, Fresh, At
<1>16. ASSUME NEW t \in Threads, NEW s \in issued, NEW o \in Requests, Request(t, o, s)
      PROVE  Current'
  BY <1>16 DEF Request, Requests, Validate, Save, At
<1>17. ASSUME NEW t \in Threads, NEW s \in issued, Rotate(t, s) PROVE Current'
  BY <1>17 DEF Rotate, Fresh, Reissue, Save, At
<1>18. ASSUME NEW t \in Threads, NEW s \in issued,
             Sweep(t, s) \/ HeartbeatFails(t, s) \/ AdminClose(t, s) \/ ShutdownClose(t, s)
      PROVE  Current'
  BY <1>18 DEF Sweep, Start, At, HeartbeatFails, AdminClose, ShutdownClose
<1>19. CASE Shutdown \/ Boot
  BY <1>19 DEF Shutdown, Boot
<1>20. CASE Exit \/ Crash
  BY <1>20 DEF Exit, Halt, Idle, Crash
<1>21. CASE Tick
  BY <1>21 DEF Tick, Busy, Older, Unbound
<1> QED BY <1>1, <1>2, <1>3, <1>4, <1>5, <1>6, <1>7, <1>8, <1>9, <1>10, <1>11, <1>12,
           <1>13, <1>14, <1>15, <1>16, <1>17, <1>18, <1>19, <1>20,
           <1>21 DEF Next, Step, Begin

\* Every save of a session in the Map reaches Redis in the same step, and no later step
\* takes the copy while the session stays.
LEMMA BackedStep ==
    ASSUME TablesOK, IdsOK, Current, Backed, Next
    PROVE  Backed'
<1> USE TimeAssumption, BoundAssumption, NoneAssumption DEF TablesOK, IdsOK, Current,
       Backed, Ages, Held, Expired
<1>1. ASSUME NEW t \in Threads, Restore(t) PROVE Backed'
  BY <1>1 DEF Restore, Save, Sid, At, Go
<1>2. ASSUME NEW t \in Threads, Restored(t) PROVE Backed'
  BY <1>2 DEF Restored, Sid, Go
<1>3. ASSUME NEW t \in Threads, Invalid(t) PROVE Backed'
  BY <1>3 DEF Invalid, Go, At, Finish, Idle
<1>4. ASSUME NEW t \in Threads, Recover(t) PROVE Backed'
  BY <1>4 DEF Recover, Save, Sid, At
<1>5. ASSUME NEW t \in Threads, Valid(t) PROVE Backed'
  BY <1>5 DEF Valid, Go, Finish, Idle, Sid
<1>6. ASSUME NEW t \in Threads, Refetch(t) PROVE Backed'
  BY <1>6 DEF Refetch, Sid, Finish, Idle
<1>7. ASSUME NEW t \in Threads, Delete(t) PROVE Backed'
  BY <1>7 DEF Delete, Sid, At, Finish, Idle
<1>8. ASSUME NEW t \in Threads, Close(t) PROVE Backed'
  BY <1>8 DEF Close, Sid, Finish, Idle, Drop, Final, On, Busy, MaySave, Go
<1>9. ASSUME NEW t \in Threads, Closed(t) PROVE Backed'
  BY <1>9 DEF Closed, Requests, Go, Finish, Idle
<1>10. ASSUME NEW t \in Threads, Rotating(t) PROVE Backed'
  BY <1>10 DEF Rotating, Reissue, Fresh, Save, At, Sid, Finish, Idle
<1>11. ASSUME NEW t \in Threads, Retire(t) PROVE Backed'
  BY <1>11 DEF Retire, Drop, Sid, Final, On, Busy, MaySave, At
<1>12. ASSUME NEW t \in Threads, TokenRead(t) PROVE Backed'
  BY <1>12 DEF TokenRead, Validate, Save, At, Go
<1>13. ASSUME NEW t \in Threads, Create(t) PROVE Backed'
  BY <1>13 DEF Create, Fresh, Save, At
<1>14. ASSUME NEW t \in Threads, Bind(t) PROVE Backed'
  BY <1>14 DEF Bind, Sid, Go
<1>15. ASSUME NEW t \in Threads, Initialize(t) PROVE Backed'
  BY <1>15 DEF Initialize, Fresh, At
<1>16. ASSUME NEW t \in Threads, NEW s \in issued, NEW o \in Requests, Request(t, o, s)
      PROVE  Backed'
  BY <1>16 DEF Request, Requests, Validate, Save, At
<1>17. ASSUME NEW t \in Threads, NEW s \in issued, Rotate(t, s) PROVE Backed'
  BY <1>17 DEF Rotate, Fresh, Reissue, Save, At
<1>18. ASSUME NEW t \in Threads, NEW s \in issued,
             Sweep(t, s) \/ HeartbeatFails(t, s) \/ AdminClose(t, s) \/ ShutdownClose(t, s)
      PROVE  Backed'
  BY <1>18 DEF Sweep, Start, At, HeartbeatFails, AdminClose, ShutdownClose
<1>19. CASE Shutdown \/ Boot
  BY <1>19 DEF Shutdown, Boot
<1>20. CASE Exit \/ Crash
  BY <1>20 DEF Exit, Halt, Idle, Crash
<1>21. CASE Tick
  BY <1>21 DEF Tick, Busy, Older, Unbound
<1> QED BY <1>1, <1>2, <1>3, <1>4, <1>5, <1>6, <1>7, <1>8, <1>9, <1>10, <1>11, <1>12,
           <1>13, <1>14, <1>15, <1>16, <1>17, <1>18, <1>19, <1>20,
           <1>21 DEF Next, Step, Begin

\* An ended session is saved by nobody: not by a handler under way (Settled), not by one
\* that asks Redis from now on, and not under a new id.
LEMMA EndedStep ==
    ASSUME TablesOK, ThreadsOK, IdsOK, Settled, EndedStaysEnded, Next
    PROVE  EndedStaysEnded'
<1> USE TimeAssumption, BoundAssumption, NoneAssumption DEF TablesOK, ThreadsOK, IdsOK,
       EndedStaysEnded, Settled, Thread, MaySave
<1>1. ASSUME NEW t \in Threads, Restore(t) PROVE EndedStaysEnded'
  BY <1>1 DEF Restore, Save, Sid, At, Go
<1>2. ASSUME NEW t \in Threads, Restored(t) PROVE EndedStaysEnded'
  BY <1>2 DEF Restored, Sid, Go
<1>3. ASSUME NEW t \in Threads, Invalid(t) PROVE EndedStaysEnded'
  BY <1>3 DEF Invalid, Go, At, Finish, Idle
<1>4. ASSUME NEW t \in Threads, Recover(t) PROVE EndedStaysEnded'
  BY <1>4 DEF Recover, Save, Sid, At
<1>5. ASSUME NEW t \in Threads, Valid(t) PROVE EndedStaysEnded'
  BY <1>5 DEF Valid, Go, Finish, Idle, Held, Sid
<1>6. ASSUME NEW t \in Threads, Refetch(t) PROVE EndedStaysEnded'
  BY <1>6 DEF Refetch, Sid, Finish, Idle
<1>7. ASSUME NEW t \in Threads, Delete(t) PROVE EndedStaysEnded'
  BY <1>7 DEF Delete, Held, Sid, At, Finish, Idle
<1>8. ASSUME NEW t \in Threads, Close(t) PROVE EndedStaysEnded'
  BY <1>8 DEF Close, Sid, Finish, Idle, Drop, Final, Held, On, Busy, Go
<1>9. ASSUME NEW t \in Threads, Closed(t) PROVE EndedStaysEnded'
  BY <1>9 DEF Closed, Requests, Go, Finish, Idle
<1>10. ASSUME NEW t \in Threads, Rotating(t) PROVE EndedStaysEnded'
  BY <1>10 DEF Rotating, Reissue, Fresh, Save, At, Sid, Finish, Idle
<1>11. ASSUME NEW t \in Threads, Retire(t) PROVE EndedStaysEnded'
  BY <1>11 DEF Retire, Drop, Sid, Final, Held, On, Busy, At
<1>12. ASSUME NEW t \in Threads, TokenRead(t) PROVE EndedStaysEnded'
  BY <1>12 DEF TokenRead, Validate, Held, Expired, Save, At, Go
<1>13. ASSUME NEW t \in Threads, Create(t) PROVE EndedStaysEnded'
  BY <1>13 DEF Create, Fresh, Save, At
<1>14. ASSUME NEW t \in Threads, Bind(t) PROVE EndedStaysEnded'
  BY <1>14 DEF Bind, Sid, Go
<1>15. ASSUME NEW t \in Threads, Initialize(t) PROVE EndedStaysEnded'
  BY <1>15 DEF Initialize, Fresh, At
<1>16. ASSUME NEW t \in Threads, NEW s \in issued, NEW o \in Requests, Request(t, o, s)
      PROVE  EndedStaysEnded'
  BY <1>16 DEF Request, Requests, Validate, Held, Expired, Save, At
<1>17. ASSUME NEW t \in Threads, NEW s \in issued, Rotate(t, s)
      PROVE  EndedStaysEnded'
  BY <1>17 DEF Rotate, Fresh, Held, Expired, Reissue, Save, At
<1>18. ASSUME NEW t \in Threads, NEW s \in issued,
             Sweep(t, s) \/ HeartbeatFails(t, s) \/ AdminClose(t, s) \/ ShutdownClose(t, s)
      PROVE  EndedStaysEnded'
  BY <1>18 DEF Sweep, Held, Expired, Start, At, HeartbeatFails, AdminClose,
               ShutdownClose
<1>19. CASE Shutdown \/ Boot
  BY <1>19 DEF Shutdown, Boot
<1>20. CASE Exit \/ Crash
  BY <1>20 DEF Exit, Halt, Idle, Crash
<1>21. CASE Tick
  BY <1>21 DEF Tick, Busy, Held, Expired, Older, Unbound
<1> QED BY <1>1, <1>2, <1>3, <1>4, <1>5, <1>6, <1>7, <1>8, <1>9, <1>10, <1>11, <1>12,
           <1>13, <1>14, <1>15, <1>16, <1>17, <1>18, <1>19, <1>20,
           <1>21 DEF Next, Step, Begin

\* What Redis answers for an ended session is that there is none.
LEMMA SettledStep ==
    ASSUME TablesOK, ThreadsOK, IdsOK, Settled, EndedStaysEnded, Next
    PROVE  Settled'
<1> USE TimeAssumption, BoundAssumption, NoneAssumption DEF TablesOK, ThreadsOK, IdsOK,
       EndedStaysEnded, Settled, Thread, MaySave
<1>1. ASSUME NEW t \in Threads, Restore(t) PROVE Settled'
  BY <1>1 DEF Restore, Save, Sid, At, Go
<1>2. ASSUME NEW t \in Threads, Restored(t) PROVE Settled'
  BY <1>2 DEF Restored, Sid, Go
<1>3. ASSUME NEW t \in Threads, Invalid(t) PROVE Settled'
  BY <1>3 DEF Invalid, Go, At, Finish, Idle
<1>4. ASSUME NEW t \in Threads, Recover(t) PROVE Settled'
  BY <1>4 DEF Recover, Save, Sid, At
<1>5. ASSUME NEW t \in Threads, Valid(t) PROVE Settled'
  BY <1>5 DEF Valid, Go, Finish, Idle, Held, Sid
<1>6. ASSUME NEW t \in Threads, Refetch(t) PROVE Settled'
  BY <1>6 DEF Refetch, Sid, Finish, Idle
<1>7. ASSUME NEW t \in Threads, Delete(t) PROVE Settled'
  BY <1>7 DEF Delete, Held, Sid, At, Finish, Idle
<1>8. ASSUME NEW t \in Threads, Close(t) PROVE Settled'
  BY <1>8 DEF Close, Sid, Finish, Idle, Drop, Final, Held, On, Busy, Go
<1>9. ASSUME NEW t \in Threads, Closed(t) PROVE Settled'
  BY <1>9 DEF Closed, Requests, Go, Finish, Idle
<1>10. ASSUME NEW t \in Threads, Rotating(t) PROVE Settled'
  BY <1>10 DEF Rotating, Reissue, Fresh, Save, At, Sid, Finish, Idle
<1>11. ASSUME NEW t \in Threads, Retire(t) PROVE Settled'
  BY <1>11 DEF Retire, Drop, Sid, Final, Held, On, Busy, At
<1>12. ASSUME NEW t \in Threads, TokenRead(t) PROVE Settled'
  BY <1>12 DEF TokenRead, Validate, Held, Expired, Save, At, Go
<1>13. ASSUME NEW t \in Threads, Create(t) PROVE Settled'
  BY <1>13 DEF Create, Fresh, Save, At
<1>14. ASSUME NEW t \in Threads, Bind(t) PROVE Settled'
  BY <1>14 DEF Bind, Sid, Go
<1>15. ASSUME NEW t \in Threads, Initialize(t) PROVE Settled'
  BY <1>15 DEF Initialize, Fresh, At
<1>16. ASSUME NEW t \in Threads, NEW s \in issued, NEW o \in Requests, Request(t, o, s)
      PROVE  Settled'
  BY <1>16 DEF Request, Requests, Validate, Held, Expired, Save, At
<1>17. ASSUME NEW t \in Threads, NEW s \in issued, Rotate(t, s) PROVE Settled'
  BY <1>17 DEF Rotate, Fresh, Held, Expired, Reissue, Save, At
<1>18. ASSUME NEW t \in Threads, NEW s \in issued,
             Sweep(t, s) \/ HeartbeatFails(t, s) \/ AdminClose(t, s) \/ ShutdownClose(t, s)
      PROVE  Settled'
  BY <1>18 DEF Sweep, Held, Expired, Start, At, HeartbeatFails, AdminClose,
               ShutdownClose
<1>19. CASE Shutdown \/ Boot
  BY <1>19 DEF Shutdown, Boot
<1>20. CASE Exit \/ Crash
  BY <1>20 DEF Exit, Halt, Idle, Crash
<1>21. CASE Tick
  BY <1>21 DEF Tick, Busy, Held, Expired, Older, Unbound
<1> QED BY <1>1, <1>2, <1>3, <1>4, <1>5, <1>6, <1>7, <1>8, <1>9, <1>10, <1>11, <1>12,
           <1>13, <1>14, <1>15, <1>16, <1>17, <1>18, <1>19, <1>20,
           <1>21 DEF Next, Step, Begin

\* A thread joins and leaves the queue as it begins and stops to wait for Redis.
LEMMA ThreadMoves ==
    ASSUME ThreadsOK, NEW t \in Threads, Step(t) \/ Begin(t)
    PROVE  Moves(t)
<1> USE DEF ThreadsOK, Thread, Moves, Waiting, RedisWaits, Await, Next1, Done, Ready
<1>1. CASE Restore(t)
  BY <1>1 DEF Restore, Save, Sid, At, Go
<1>2. CASE Restored(t)
  BY <1>2 DEF Restored, Sid, Go
<1>3. CASE Invalid(t)
  BY <1>3 DEF Invalid, Go, At, Finish, Idle
<1>4. CASE Recover(t)
  BY <1>4 DEF Recover, Save, Sid, At
<1>5. CASE Valid(t)
  BY <1>5 DEF Valid, Go, Finish, Idle, Held, Sid
<1>6. CASE Refetch(t)
  BY <1>6 DEF Refetch, Sid, Finish, Idle
<1>7. CASE Delete(t)
  BY <1>7 DEF Delete, Held, Sid, At, Finish, Idle
<1>8. CASE Close(t)
  BY <1>8 DEF Close, Sid, Finish, Idle, Drop, Final, Held, On, Busy, MaySave, Go
<1>9. CASE Closed(t)
  BY <1>9 DEF Closed, Requests, Go, Finish, Idle
<1>10. CASE Rotating(t)
  BY <1>10 DEF Rotating, Reissue, Fresh, Save, At, Sid, Finish, Idle
<1>11. CASE Retire(t)
  BY <1>11 DEF Retire, Drop, Sid, Final, Held, On, Busy, MaySave, At
<1>12. CASE TokenRead(t)
  BY <1>12 DEF TokenRead, Validate, Held, Expired, Save, At, Queued, Go
<1>13. CASE Create(t)
  BY <1>13 DEF Create, Fresh, Save, At
<1>14. CASE Bind(t)
  BY <1>14 DEF Bind, Sid, Go
<1>15. CASE Initialize(t)
  BY <1>15 DEF Initialize, Fresh, At
<1>16. ASSUME NEW s \in issued, NEW o \in Requests, Request(t, o, s)
      PROVE  Moves(t)
  BY <1>16 DEF Request, Requests, Validate, Held, Expired, Save, At, Queued
<1>17. ASSUME NEW s \in issued, Rotate(t, s) PROVE Moves(t)
  BY <1>17 DEF Rotate, Fresh, Held, Expired, Reissue, Save, At, Queued
<1>18. ASSUME NEW s \in issued,
             Sweep(t, s) \/ HeartbeatFails(t, s) \/ AdminClose(t, s) \/ ShutdownClose(t, s)
      PROVE  Moves(t)
  BY <1>18 DEF Sweep, Held, Expired, Start, At, HeartbeatFails, AdminClose,
               ShutdownClose
<1> QED BY <1>1, <1>2, <1>3, <1>4, <1>5, <1>6, <1>7, <1>8, <1>9, <1>10, <1>11, <1>12,
           <1>13, <1>14, <1>15, <1>16, <1>17, <1>18 DEF Step, Begin

\* The queue follows the threads; when the process is gone, it is empty.
LEMMA QueueStep ==
    ASSUME ThreadsOK, QueueOK, Next
    PROVE  QueueOK'
<1>1. ASSUME NEW t \in Threads, Step(t) \/ Begin(t) PROVE QueueOK'
  BY <1>1, ThreadMoves, QueueMove
<1>2. CASE Exit \/ Crash
  <2>1. fifo' = <<>> /\ Waiting' = {}
    BY <1>2 DEF Exit, Crash, Halt, Idle, Waiting, RedisWaits
  <2> QED BY <2>1 DEF QueueOK, Listed, Once
<1>3. CASE Shutdown \/ Boot \/ Tick
  <2>1. fifo' = fifo /\ Waiting' = Waiting
    BY <1>3 DEF Shutdown, Boot, Tick, Waiting
  <2> QED BY <2>1 DEF QueueOK, Listed, Once
<1> QED BY <1>1, <1>2, <1>3 DEF Next

-----------------------------------------------------------------------------
(* The invariant *)

\* The server starts without sessions.
LEMMA InitIInv == Init => IInv
<1> SUFFICES ASSUME Init PROVE IInv
  OBVIOUS
<1> USE TimeAssumption, BoundAssumption, NoneAssumption DEF Init
<1>1. TablesOK
  BY DEF TablesOK, Ages, Unbound
<1>2. ThreadsOK
  BY DEF ThreadsOK, Thread, Labels, Ops, Idle
<1>3. QueueOK
  <2>1. fifo = <<>> /\ Waiting = {}
    BY DEF Idle, Waiting, RedisWaits
  <2> QED BY <2>1 DEF QueueOK, Listed, Once
<1>4. IdsOK
  BY DEF IdsOK, Unbound, Idle
<1>5. Current /\ Settled
  BY DEF Current, Settled, Idle
<1>6. Backed /\ EndedStaysEnded
  BY DEF Backed, EndedStaysEnded, Held
<1> QED BY <1>1, <1>2, <1>3, <1>4, <1>5, <1>6 DEF IInv

\* Every step keeps it.
LEMMA NextIInv == IInv /\ [Next]_vars => IInv'
<1> SUFFICES ASSUME IInv, [Next]_vars PROVE IInv'
  OBVIOUS
<1>1. CASE Next
  <2> USE <1>1 DEF IInv
  <2>1. TablesOK' BY TablesStep
  <2>2. ThreadsOK' BY ThreadsStep
  <2>3. QueueOK' BY QueueStep
  <2>4. IdsOK' BY IdsStep
  <2>5. Current' BY CurrentStep
  <2>6. Backed' BY BackedStep
  <2>7. EndedStaysEnded' BY EndedStep
  <2>8. Settled' BY SettledStep
  <2> QED BY <2>1, <2>2, <2>3, <2>4, <2>5, <2>6, <2>7, <2>8
<1>2. CASE UNCHANGED vars
  <2> USE <1>2 DEF IInv, vars
  <2>1. TablesOK' /\ ThreadsOK' /\ IdsOK'
    BY DEF TablesOK, ThreadsOK, IdsOK
  <2>2. QueueOK'
    BY DEF QueueOK, Waiting, Listed, Once
  <2>3. Current' /\ Settled'
    BY DEF Current, Settled, MaySave, Held, Expired
  <2>4. Backed' /\ EndedStaysEnded'
    BY DEF Backed, EndedStaysEnded, Held, Expired
  <2> QED BY <2>1, <2>2, <2>3, <2>4
<1> QED BY <1>1, <1>2

\* The session tables stay consistent.
LEMMA IInvTypeOK == IInv => TypeOK
  BY DEF IInv, TablesOK, Ages, ThreadsOK, Thread, Labels, QueueOK, Waiting, Listed, Once,
         IdsOK, TypeOK

\* The invariant holds in every reachable state.
LEMMA SpecIInv == Spec => []IInv
<1> QED BY InitIInv, NextIInv, PTL DEF Spec

\* The Map, its copies in Redis, the handlers and the queue of Redis are consistent, and a
\* restart finds the copy of every live session, whatever requests, timers, closes,
\* rotations, recoveries and shutdowns of it overlapped (createStreamableSessionWithId,
\* validateStreamableSession, closeStreamableSession, rotateSession).
THEOREM SessionsRestorable == Spec => []Restorable
<1>1. IInv => Restorable
  BY IInvTypeOK DEF IInv, Restorable
<1> QED BY <1>1, SpecIInv, PTL

\* A session that ended stays out of the Map and of Redis until a POST with accepted
\* credentials recovers it (closeStreamableSession, rotateSession, initialize by token).
THEOREM SessionsStayEnded == Spec => []EndedStaysEnded
<1>1. IInv => EndedStaysEnded
  BY DEF IInv
<1> QED BY <1>1, SpecIInv, PTL
=============================================================================
