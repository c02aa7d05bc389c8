----------------------------- MODULE Reflection -----------------------------
(***************************************************************************)
(* The end of a session: what its tool calls leave in the activity log of  *)
(* Redis, and the reflects that a client asks for or that autoReflect      *)
(* starts when the session closes.                                         *)
(*                                                                         *)
(* One session of one agent.  A reflect turns the caller's (or Gemini's)   *)
(* items and the working memory into fragments; an item stands for its     *)
(* content and has the category Kind[i].  The log is one JSON value: a     *)
(* record reads it and writes it back, and the one Redis connection        *)
(* answers in the order of the commands (flight).                          *)
(***************************************************************************)
EXTENDS Naturals, Sequences

CONSTANTS Runs,      \* reflects, asked for or automatic
          Items,     \* contents a reflect may save
          Kind,      \* [Items -> "fact", "decision", "error" or "procedure"]
          Similar,   \* pairs of items whose keywords overlap by 60 %
          None,
          MaxCalls,  \* bound of the tool calls
          Crashes    \* bound of the restarts; a run is used once

VARIABLES log,        \* frag:activity of the session
          flight,     \* records between their read and their write
          wm,         \* the working memory
          saved,      \* items stored as fragments
          run,        \* [Runs -> a reflect and its locals]
          calls, crashes

logged == <<log, flight, calls>>
stored == <<wm, saved>>
reflection == <<logged, stored, run, crashes>>

Empty == [tools |-> FALSE, frag |-> FALSE, reflected |-> FALSE]
\* items: what it saves; suggested: links it will suggest to its client
Idle  == [pc |-> "idle", auto |-> FALSE, items |-> {}, suggested |-> {}]

Init ==
  /\ log = Empty /\ flight = <<>> /\ calls = 0
  /\ wm = {} /\ saved = {}
  /\ run = [r \in Runs |-> Idle]
  /\ crashes = 0

---------------------------------------------------------------------------
(* The activity log *)

Get(op) == [op |-> op, read |-> log]

\* What record() makes of the value it read
Noted(c) ==
  [tools     |-> c.read.tools \/ c.op # "mark",
   frag      |-> c.read.frag \/ c.op = "remember",
   reflected |-> c.read.reflected \/ c.op = "mark"]

\* A tool has answered; its record is not awaited.  remember(scope=session)
\* has pushed an entry on the working memory.
ToolCall(op) ==
  /\ calls < MaxCalls
  /\ calls' = calls + 1
  /\ flight' = Append(flight, Get(op))
  /\ IF op = "remember" THEN \E i \in Items : wm' = wm \cup {i} ELSE wm' = wm
  /\ UNCHANGED <<log, saved, run, crashes>>

WriteBack ==
  /\ flight # <<>>
  /\ log' = Noted(Head(flight))
  /\ flight' = Tail(flight)
  /\ UNCHANGED <<calls, stored, run, crashes>>

\* 24 hours without a record, or the admin deletes the session
LogExpires ==
  /\ log # Empty
  /\ log' = Empty
  /\ UNCHANGED <<flight, calls, stored, run, crashes>>

---------------------------------------------------------------------------
(* Reflect *)

Step(r, pc) == run' = [run EXCEPT ![r].pc = pc]

Category(S, k) == {i \in S : Kind[i] = k}

\* consolidateSessionFragments: a category the caller left empty is filled
Filled(S) == S \cup {i \in wm \cup saved : Category(S, Kind[i]) = {}}

\* The tool, with the items of the client
Ask(r) ==
  /\ run[r].pc = "idle"
  /\ \E S \in SUBSET Items : run' = [run EXCEPT ![r].pc = "save", ![r].items = Filled(S)]
  /\ UNCHANGED <<logged, stored, crashes>>

\* No tool call, under 30 s, or the client remembered something itself
ShouldSkip(a, short) == ~ a.tools \/ short \/ a.frag

\* autoReflect of a session that closes, is idle, or that the admin reflects
AutoReflect(r) ==
  /\ run[r].pc = "idle"
  /\ ~ log.reflected
  /\ \E short \in BOOLEAN :
       run' = [run EXCEPT ![r].pc = IF ShouldSkip(log, short) THEN "mark" ELSE "gemini",
                               ![r].auto = TRUE]
  /\ UNCHANGED <<logged, stored, crashes>>

\* Gemini answers, with nothing, or not at all
Summarised(r) ==
  /\ run[r].pc = "gemini"
  /\ \E S \in SUBSET Items :
       run' = [run EXCEPT ![r].pc = IF S = {} THEN "mark" ELSE "save",
                               ![r].items = IF S = {} THEN {} ELSE Filled(S)]
  /\ UNCHANGED <<logged, stored, crashes>>

\* A throw ends a reflect: that of a client is not marked, the other is
Fail(r) ==
  /\ run[r].pc \in {"save", "episode"}
  /\ Step(r, IF run[r].auto THEN "mark" ELSE "done")
  /\ UNCHANGED <<logged, stored, crashes>>

\* Of two categories the better match of each item: one candidate, the other
\* end being any when none is similar
Matches(S, from, to) ==
  {p \in Category(S, from) \X Category(S, to) :
     p \in Similar \/ \A o \in Category(S, to) : <<p[1], o>> \notin Similar}

Candidates(S) == Matches(S, "error", "decision") \cup Matches(S, "procedure", "error")

\* The schema fit asks for a common case or session and for similarity; process()
\* hands over id, content, type and keywords alone, so no pair has the first, and
\* a pair without it is only suggested
SameContext(p) == FALSE
SchemaFit(p) == SameContext(p) /\ p \in Similar

\* batchRemember stores each item on its own; then autoLinkSessionFragments
Save(r) ==
  /\ run[r].pc = "save"
  /\ \E S \in SUBSET run[r].items :
       /\ saved' = saved \cup S
       /\ run' = [run EXCEPT ![r].pc = "episode", ![r].items = S,
                               ![r].suggested = {p \in Candidates(S) : ~SchemaFit(p)}]
  /\ UNCHANGED <<wm, logged, crashes>>

\* The episode is remembered, linkEpisodeMilestone (Milestones) is left to
\* itself, and the working memory is deleted with what came in meanwhile
Close(r) ==
  /\ run[r].pc = "episode"
  /\ wm' = {}
  /\ run' = [run EXCEPT ![r].pc = "mark", ![r].items = {}, ![r].suggested = {}]
  /\ UNCHANGED <<logged, saved, crashes>>

\* Mutant: the session is marked first
Mark_Mutant(r) ==
  /\ run[r].pc = "mark"
  /\ flight' = flight \o (IF run[r].auto THEN <<Get("mark")>> ELSE <<Get("mark"), Get("reflect")>>)
  /\ Step(r, "done")
  /\ UNCHANGED <<log, calls, stored, crashes>>

\* The tool records itself and marks the session, autoReflect marks it
Mark(r) ==
  /\ run[r].pc = "mark"
  /\ flight' = flight \o (IF run[r].auto THEN <<Get("mark")>> ELSE <<Get("reflect"), Get("mark")>>)
  /\ Step(r, "done")
  /\ UNCHANGED <<log, calls, stored, crashes>>

---------------------------------------------------------------------------
Crash ==
  /\ crashes < Crashes
  /\ crashes' = crashes + 1
  /\ run' = [r \in Runs |-> [Idle EXCEPT !.pc = IF run[r].pc = "idle" THEN "idle" ELSE "done"]]
  /\ flight' = <<>>
  /\ UNCHANGED <<log, calls, stored>>

Next ==
  \/ \E op \in {"remember", "recall"} : ToolCall(op)
  \/ WriteBack \/ LogExpires \/ Crash
  \/ \E r \in Runs : \/ Ask(r) \/ AutoReflect(r) \/ Summarised(r) \/ Fail(r)
                     \/ Save(r) \/ Close(r) \/ Mark(r)

Spec == Init /\ [][Next]_reflection

\* The record of a reflect and its mark are issued together: whatever runs
\* beside them, the record of a reflect never takes away a mark unless another
\* mark is still to be written (tools/memory.js, tool_reflect).
MarkOutlivesRecord ==
  [][ log.reflected /\ ~ log'.reflected =>
        \/ log' = Empty
        \/ Head(flight).op # "reflect"
        \/ \E k \in 2..Len(flight) : flight[k].op = "mark" ]_reflection
=============================================================================
