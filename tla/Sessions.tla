------------------------------ MODULE Sessions ------------------------------
(***************************************************************************)
(* Streamable HTTP sessions of one server process: its Map, the copies in  *)
(* Redis that survive a restart, and the token index of initialize.        *)
(*                                                                         *)
(* A thread is one run of a handler (POST, GET, DELETE /mcp, rotate,       *)
(* initialize, the admin's close), of a timer (cleanup, heartbeat) or of   *)
(* the shutdown; a step goes from one await to the next.  A Redis command  *)
(* takes effect when it is issued; the answers come in the order of the    *)
(* commands (fifo), those of the database, of the credential check and of  *)
(* autoReflect at any time.  Redis does not fail here.                     *)
(*                                                                         *)
(* Credentials are accepted, as those of the session's key, or refused.    *)
(* Ages are whole ticks, and nothing stays in progress over a tick.        *)
(* Whether an event stream is attached is not tracked: the heartbeat of    *)
(* any session may fail.                                                   *)
(***************************************************************************)
EXTENDS Naturals, Sequences, TLC

CONSTANTS Sids,             \* session ids
          Threads,          \* handlers and timers that run at the same time
          None,
          SessionTTL,       \* SESSION_TTL_MS in ticks, also the TTL of the copies in Redis
          MaxRestarts       \* bound of shutdowns and crashes

ASSUME TimeAssumption == SessionTTL \in Nat \ {0}
ASSUME BoundAssumption == MaxRestarts \in Nat
ASSUME NoneAssumption == None \notin Sids \cup Nat

VARIABLES proc,      \* "off", "up" or "draining"
          mem,       \* id -> age of the session in the Map, or None
          redis,     \* id -> age of its copy in Redis, or None
          token,     \* the session bound to the client's token, and the age of the entry
          th,        \* thread -> its handler and locals
          fifo,      \* threads that wait for an answer of Redis
          issued,    \* ids handed out
          ended,     \* ids that left the Map for good
          restarts

vars == <<proc, mem, redis, token, th, fifo, issued, ended, restarts>>

Idle    == [pc |-> "idle", op |-> "none", sid |-> None, val |-> None]
Unbound == [sid |-> None, age |-> 0]

Init ==
    /\ proc = "up"
    /\ mem = [s \in Sids |-> None]
    /\ redis = [s \in Sids |-> None]
    /\ token = Unbound
    /\ th = [t \in Threads |-> Idle]
    /\ fifo = <<>>
    /\ issued = {} /\ ended = {}
    /\ restarts = 0

-----------------------------------------------------------------------------
Sid(t)   == th[t].sid
Fresh    == Sids \ issued
Busy     == {t \in Threads : th[t].pc # "idle"}
On(s)    == {t \in Busy : th[t].sid = s}

\* The session s is in the Map; its window has passed.
Held(s)    == mem[s] # None
Expired(s) == mem[s] >= SessionTTL

\* The Map and Redis get the session with a new window, or both lose it.
Save(s) == mem' = [mem EXCEPT ![s] = 0] /\ redis' = [redis EXCEPT ![s] = 0]
Drop(s) == mem' = [mem EXCEPT ![s] = None] /\ redis' = [redis EXCEPT ![s] = None]

\* Thread t, at label with locals o, s, v, waits: for Redis, or for the rest.
At(t, label, o, s, v) == th' = [th EXCEPT ![t] = [pc |-> label, op |-> o, sid |-> s, val |-> v]]
Await(t) == fifo' = Append(fifo, t)
Next1(t) == fifo' = Append(Tail(fifo), t)
Done(t)  == fifo' = Tail(fifo)
Ready(t) == fifo # <<>> /\ Head(fifo) = t

Go(t, label) == th' = [th EXCEPT ![t].pc = label]
Finish(t)    == th' = [th EXCEPT ![t] = Idle]

-----------------------------------------------------------------------------
(* validateStreamableSession *)

\* In the Map and not expired: the window slides, in Redis too.  In the Map and
\* expired: it is closed, autoReflect first.  Else Redis is asked.
Validate(t, o, s) ==
    \/ Held(s) /\ ~Expired(s) /\ Save(s) /\ At(t, "valid", o, s, None)
    \/ Held(s) /\ Expired(s) /\ At(t, "reflecting", o, s, None) /\ UNCHANGED <<mem, redis>>
    \/ ~Held(s) /\ At(t, "restoring", o, s, redis[s]) /\ UNCHANGED <<mem, redis>>

\* The thread waits for Redis unless it waits for autoReflect.
Queued(t, q) == fifo' = IF th'[t].pc = "reflecting" THEN q ELSE Append(q, t)

Requests == {"post", "get", "delete"}

Request(t, o, s) ==
    /\ th[t].pc = "idle" /\ proc = "up" /\ s \in issued /\ o \in Requests
    /\ Validate(t, o, s) /\ Queued(t, fifo)
    /\ UNCHANGED <<proc, token, issued, ended, restarts>>

\* Mutant: the copy of a restored session is not saved again.
Restore_NoSave(t) ==
    /\ th[t].pc = "restoring" /\ Ready(t)
    /\ \/ /\ th[t].val # None /\ mem' = [mem EXCEPT ![Sid(t)] = 0] /\ UNCHANGED redis
          /\ At(t, "restored", th[t].op, Sid(t), None) /\ Next1(t)
       \/ th[t].val = None /\ Go(t, "invalid") /\ Done(t) /\ UNCHANGED <<mem, redis>>
    /\ UNCHANGED <<proc, token, issued, ended, restarts>>

\* What Redis answered becomes a session of this process, with a new window, and
\* is saved.
Restore(t) ==
    /\ th[t].pc = "restoring" /\ Ready(t)
    /\ \/ th[t].val # None /\ Save(Sid(t)) /\ At(t, "restored", th[t].op, Sid(t), None) /\ Next1(t)
       \/ th[t].val = None /\ Go(t, "invalid") /\ Done(t) /\ UNCHANGED <<mem, redis>>
    /\ UNCHANGED <<proc, token, issued, ended, restarts>>

\* It is saved again with the slid window, whether it is still in the Map or not.
Restored(t) ==
    /\ th[t].pc = "restored" /\ Ready(t)
    /\ redis' = [redis EXCEPT ![Sid(t)] = 0]
    /\ Go(t, "valid") /\ Next1(t)
    /\ UNCHANGED <<proc, mem, token, issued, ended, restarts>>

\* A request without a session checks the credentials: a POST looks at Redis
\* again, initialize makes a session, the rest is answered with an error.
Invalid(t) ==
    /\ th[t].pc = "invalid"
    /\ \/ th[t].op = "post" /\ Go(t, "recover") /\ Await(t)
       \/ th[t].op = "init" /\ At(t, "create", "init", None, None) /\ UNCHANGED fifo
       \/ th[t].op # "init" /\ Finish(t) /\ UNCHANGED fifo
    /\ UNCHANGED <<proc, mem, redis, token, issued, ended, restarts>>

\* Recovery under the same id; a copy of another key's would be refused.
Recover(t) ==
    /\ th[t].pc = "recover" /\ Ready(t)
    /\ Save(Sid(t)) /\ At(t, "valid", "recovered", Sid(t), None) /\ Next1(t)
    /\ ended' = ended \ {Sid(t)}
    /\ UNCHANGED <<proc, token, issued, restarts>>

\* The request goes on.  A POST whose session has no groups fetches them; DELETE
\* checks the credentials; initialize, with or without a session id, saves the
\* version that was negotiated if the session is still in the Map; the others
\* are answered.
Valid(t) ==
    /\ th[t].pc = "valid" /\ Ready(t) /\ Done(t)
    /\ \/ th[t].op = "post" /\ Go(t, "refetch") /\ UNCHANGED redis
       \/ th[t].op = "delete" /\ Go(t, "deleting") /\ UNCHANGED redis
       \/ th[t].op # "init" /\ Finish(t) /\ UNCHANGED redis
       \/ /\ th[t].op \in {"init", "post", "recovered"} /\ Finish(t)
          /\ redis' = IF Held(Sid(t)) THEN [redis EXCEPT ![Sid(t)] = mem[Sid(t)]] ELSE redis
    /\ UNCHANGED <<proc, mem, token, issued, ended, restarts>>

\* The groups have come: the session is saved again, in the Map or not.
Refetch(t) ==
    /\ th[t].pc = "refetch"
    /\ redis' = [redis EXCEPT ![Sid(t)] = 0]
    /\ Finish(t)
    /\ UNCHANGED <<proc, mem, token, fifo, issued, ended, restarts>>

-----------------------------------------------------------------------------
(* closeStreamableSession *)

\* DELETE /mcp by the owner or the master.
Delete(t) ==
    /\ th[t].pc = "deleting"
    /\ \/ Held(Sid(t)) /\ At(t, "reflecting", "close", Sid(t), None)
       \/ ~Held(Sid(t)) /\ Finish(t)
    /\ UNCHANGED <<proc, mem, redis, token, fifo, issued, ended, restarts>>

\* A request that has the session, or the copy Redis answered, saves it once
\* more, whatever was closed meanwhile.
MaySave(u) ==
    \/ th[u].pc = "restoring" /\ th[u].val # None
    \/ th[u].pc \in {"restored", "refetch"}
    \/ th[u].pc = "valid" /\ th[u].op = "post"

\* An end that nothing under way takes back.
Final(s) == ended' = IF Held(s) /\ ~\E u \in On(s) : MaySave(u) THEN ended \cup {s} ELSE ended

\* Mutant: close keeps the copy in Redis, as on a shutdown.
Close_Preserve(t) ==
    /\ th[t].pc = "reflecting"
    /\ mem' = [mem EXCEPT ![Sid(t)] = None] /\ UNCHANGED redis
    /\ IF th[t].op = "shutdown" THEN Finish(t) /\ UNCHANGED <<fifo, ended>>
       ELSE Final(Sid(t)) /\ Go(t, "closed") /\ Await(t)
    /\ UNCHANGED <<proc, token, issued, restarts>>

\* autoReflect has returned.  The id leaves the Map, whatever session is there
\* by now, and, unless the server shuts down, Redis.
Close(t) ==
    /\ th[t].pc = "reflecting"
    /\ \/ /\ th[t].op = "shutdown"
          /\ mem' = [mem EXCEPT ![Sid(t)] = None]
          /\ Finish(t) /\ UNCHANGED <<redis, fifo, ended>>
       \/ /\ th[t].op # "shutdown"
          /\ Drop(Sid(t)) /\ Final(Sid(t))
          /\ Go(t, "closed") /\ Await(t)
    /\ UNCHANGED <<proc, token, issued, restarts>>

\* A request that found its session expired goes on as without one.
Closed(t) ==
    /\ th[t].pc = "closed" /\ Ready(t) /\ Done(t)
    /\ IF th[t].op \in Requests \cup {"init"} THEN Go(t, "invalid") ELSE Finish(t)
    /\ UNCHANGED <<proc, mem, redis, token, issued, ended, restarts>>

-----------------------------------------------------------------------------
(* rotateSession *)

\* A new id gets the context of the old session.
Reissue(t, s) ==
    \E n \in Fresh :
        /\ Save(n) /\ issued' = issued \cup {n}
        /\ At(t, "retire", "rotate", s, n)

Rotate(t, s) ==
    /\ th[t].pc = "idle" /\ proc = "up" /\ s \in issued /\ Fresh # {}
    /\ \/ Held(s) /\ ~Expired(s) /\ Reissue(t, s)
       \/ /\ Held(s) /\ Expired(s)
          /\ At(t, "reflecting", "close", s, None) /\ UNCHANGED <<mem, redis, issued>>
       \/ ~Held(s) /\ At(t, "rotating", "rotate", s, redis[s]) /\ UNCHANGED <<mem, redis, issued>>
    /\ Queued(t, fifo)
    /\ UNCHANGED <<proc, token, ended, restarts>>

Rotating(t) ==
    /\ th[t].pc = "rotating" /\ Ready(t)
    /\ \/ th[t].val # None /\ Reissue(t, Sid(t)) /\ Next1(t)
       \/ th[t].val = None /\ Finish(t) /\ Done(t) /\ UNCHANGED <<mem, redis, issued>>
    /\ UNCHANGED <<proc, token, ended, restarts>>

\* The old session leaves the Map and Redis, without a reflection.
Retire(t) ==
    /\ th[t].pc = "retire" /\ Ready(t)
    /\ Drop(Sid(t)) /\ Final(Sid(t))
    /\ At(t, "closed", "close", Sid(t), None) /\ Next1(t)
    /\ UNCHANGED <<proc, token, issued, restarts>>

-----------------------------------------------------------------------------
(* initialize without a session id: reuse by token, or a new session *)

Initialize(t) ==
    /\ th[t].pc = "idle" /\ proc = "up" /\ Fresh # {}
    /\ At(t, "token", "init", None, token.sid) /\ Await(t)
    /\ UNCHANGED <<proc, mem, redis, token, issued, ended, restarts>>

TokenRead(t) ==
    /\ th[t].pc = "token" /\ Ready(t)
    /\ \/ /\ th[t].val # None
          /\ Validate(t, "init", th[t].val) /\ Queued(t, Tail(fifo))
       \/ th[t].val = None /\ Go(t, "create") /\ Done(t) /\ UNCHANGED <<mem, redis>>
    /\ UNCHANGED <<proc, token, issued, ended, restarts>>

Create(t) ==
    /\ th[t].pc = "create"
    /\ \E n \in Fresh :
         /\ Save(n) /\ issued' = issued \cup {n}
         /\ At(t, "bind", "init", n, None)
    /\ Await(t)
    /\ UNCHANGED <<proc, token, ended, restarts>>

Bind(t) ==
    /\ th[t].pc = "bind" /\ Ready(t)
    /\ token' = [sid |-> Sid(t), age |-> 0]
    /\ Go(t, "valid") /\ Next1(t)
    /\ UNCHANGED <<proc, mem, redis, issued, ended, restarts>>

-----------------------------------------------------------------------------
(* Timers, the admin interface, shutdown, time *)

Start(t, o, s) ==
    /\ th[t].pc = "idle" /\ Held(s)
    /\ At(t, "reflecting", o, s, None)
    /\ UNCHANGED <<proc, mem, redis, token, fifo, issued, ended, restarts>>

\* cleanupExpiredSessions.  Passes may overlap: setInterval does not wait.
Sweep(t, s) == proc = "up" /\ Held(s) /\ Expired(s) /\ Start(t, "close", s)

\* The event stream stays broken for SSE_MAX_HEARTBEAT_FAILURES.
HeartbeatFails(t, s) == proc = "up" /\ Start(t, "close", s)

AdminClose(t, s) == proc = "up" /\ Start(t, "close", s)

\* gracefulShutdown: no new request; one session after the other of those listed
\* is reflected and leaves the Map, its copy in Redis stays; then the process
\* exits, whatever else is under way and whatever came too late for the list.
Shutdown ==
    /\ proc = "up" /\ restarts < MaxRestarts
    /\ proc' = "draining" /\ restarts' = restarts + 1
    /\ UNCHANGED <<mem, redis, token, th, fifo, issued, ended>>

ShutdownClose(t, s) ==
    /\ proc = "draining" /\ \A u \in Threads : th[u].op # "shutdown"
    /\ Start(t, "shutdown", s)

Halt ==
    /\ proc' = "off"
    /\ mem' = [s \in Sids |-> None]
    /\ th' = [t \in Threads |-> Idle]
    /\ fifo' = <<>>
    /\ UNCHANGED <<redis, token, issued, ended>>

Exit ==
    /\ proc = "draining" /\ \A t \in Threads : th[t].op # "shutdown"
    /\ Halt /\ UNCHANGED restarts

Crash == proc # "off" /\ restarts < MaxRestarts /\ Halt /\ restarts' = restarts + 1

Boot ==
    /\ proc = "off" /\ proc' = "up"
    /\ UNCHANGED <<mem, redis, token, th, fifo, issued, ended, restarts>>

Older(n) == IF n < SessionTTL THEN n + 1 ELSE n

\* Cleanup runs every five minutes: nothing expired is left when a tick ends.
Tick ==
    /\ Busy = {} /\ proc # "draining" /\ \A s \in Sids : Held(s) => ~Expired(s)
    /\ mem' = [s \in Sids |-> IF mem[s] = None THEN None ELSE Older(mem[s])]
    /\ redis' = [s \in Sids |-> IF redis[s] = None \/ redis[s] + 1 >= SessionTTL THEN None
                                ELSE redis[s] + 1]
    /\ token' = IF token.sid = None \/ token.age + 1 >= SessionTTL
                THEN Unbound ELSE [token EXCEPT !.age = @ + 1]
    /\ UNCHANGED <<proc, th, fifo, issued, ended, restarts>>

-----------------------------------------------------------------------------
Step(t) ==
    \/ Restore(t) \/ Restored(t) \/ Invalid(t) \/ Recover(t) \/ Valid(t) \/ Refetch(t)
    \/ Delete(t) \/ Close(t) \/ Closed(t)
    \/ Rotating(t) \/ Retire(t)
    \/ TokenRead(t) \/ Create(t) \/ Bind(t)

Begin(t) ==
    \/ Initialize(t)
    \/ \E s \in issued :
         \/ \E o \in Requests : Request(t, o, s)
         \/ Rotate(t, s)
         \/ Sweep(t, s) \/ HeartbeatFails(t, s) \/ AdminClose(t, s) \/ ShutdownClose(t, s)

Next ==
    \/ \E t \in Threads : Step(t) \/ Begin(t)
    \/ Shutdown \/ Exit \/ Crash \/ Boot \/ Tick

Spec == Init /\ [][Next]_vars

\* No id and no thread is special.
Symmetry == Permutations(Sids) \cup Permutations(Threads)

-----------------------------------------------------------------------------
(* Properties *)

RedisWaits == {"restoring", "restored", "recover", "valid", "closed", "rotating", "retire", "token", "bind"}
OtherWaits == {"invalid", "refetch", "deleting", "reflecting", "create"}

\* Ages stay within the window; exactly the threads that wait for Redis are
\* queued, each once; an id in use was handed out.
TypeOK ==
    /\ proc \in {"off", "up", "draining"} /\ restarts \in 0..MaxRestarts
    /\ mem \in [Sids -> 0..SessionTTL \cup {None}]
    /\ redis \in [Sids -> 0..(SessionTTL - 1) \cup {None}]
    /\ \A t \in Threads : th[t].pc \in RedisWaits \cup OtherWaits \cup {"idle"}
    /\ {t \in Threads : th[t].pc \in RedisWaits} = {fifo[i] : i \in 1..Len(fifo)}
    /\ \A i, j \in 1..Len(fifo) : fifo[i] = fifo[j] => i = j
    /\ \A t \in Threads : th[t].sid \in issued \cup {None}
    /\ issued \subseteq Sids /\ ended \subseteq issued /\ token.sid \in issued \cup {None}

\* A session whose window has not passed can be restored after a restart: Redis
\* holds its copy, and not for less time, whatever requests, closes, rotations
\* and recoveries of it overlap.
Backed == \A s \in Sids : Held(s) /\ ~Expired(s) => redis[s] # None /\ redis[s] <= mem[s]

\* The session tables are consistent, and a restart finds every live session.
Restorable == TypeOK /\ Backed

\* A session that a DELETE, an admin, an expiry or a rotation took from the Map
\* stays out of the Map and of Redis, through restarts and later requests of the
\* token it was bound to, until a POST with accepted credentials recovers it.
\* Left out (Final) are a session that only Redis had when it was rotated, and
\* one that a request had read but not yet saved when it ended.
EndedStaysEnded == \A s \in ended : mem[s] = None /\ redis[s] = None
=============================================================================
