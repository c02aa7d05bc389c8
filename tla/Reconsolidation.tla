--------------------------- MODULE Reconsolidation ---------------------------
(***************************************************************************)
(* One link of fragment_links under feedback: reinforced, decayed or       *)
(* quarantined by calls that run side by side, each in a transaction of    *)
(* its own with an entry in link_reconsolidations, and raised without one  *)
(* by createLink and by recalls.  Weights are counted in steps of 0.05.    *)
(***************************************************************************)
EXTENDS Integers, SequencesExt

CONSTANTS Threads,   \* calls of reconsolidate at the same time
          None,
          LinkWeights, \* weights that createLink is asked for
          Window,    \* RATE_LIMIT_MS in ticks
          LastTick,  \* bound of the clock
          MaxCalls, MaxRaises,  \* bounds of the calls, of the raises
          Crashes    \* bound of the restarts

VARIABLES weight, lock,  \* of the row
          raises,        \* times that createLink or a recall raised it
          audit,         \* link_reconsolidations, with the commit's time and process, and raises
          th,            \* [Threads -> a call and its locals]
          lastDecay,     \* lastDecayAt of the link, or None
          pending,       \* the link is in pendingDecay
          now, calls, crashes

reconsolidation == <<weight, lock, raises, audit, th, lastDecay, pending, now, calls, crashes>>

Delta == [reinforce |-> 4, decay |-> -3, quarantine |-> -6]
Limited == {"decay", "quarantine"}
One == 20                                   \* weight 1.0
Clamp(w) == Max({0, Min({40, w})})          \* GREATEST(0, LEAST(2, w))

Idle == [pc |-> "idle", op |-> "none", old |-> 0]

Init ==
  /\ weight \in {4, One, 38} /\ lock = None /\ raises = 0 /\ audit = <<>>
  /\ th = [t \in Threads |-> Idle]
  /\ lastDecay = None /\ pending = FALSE
  /\ now = 0 /\ calls = 0 /\ crashes = 0

JustDecayed == lastDecay # None /\ now - lastDecay < Window

\* A decay is refused while another is under way or within the window
Call(t, op) ==
  /\ th[t].pc = "idle" /\ calls < MaxCalls
  /\ calls' = calls + 1
  /\ ~ (op \in Limited /\ (pending \/ JustDecayed))
  /\ pending' = (pending \/ op \in Limited)
  /\ th' = [th EXCEPT ![t] = [pc |-> "select", op |-> op, old |-> 0]]
  /\ UNCHANGED <<weight, lock, audit, raises, lastDecay, now, crashes>>

\* Mutant: the row is read without FOR UPDATE
Select_Mutant(t) ==
  /\ th[t].pc = "select"
  /\ th' = [th EXCEPT ![t].pc = "update", ![t].old = weight]
  /\ UNCHANGED <<weight, lock, audit, raises, lastDecay, pending, now, calls, crashes>>

\* SELECT ... FOR UPDATE
Select(t) ==
  /\ th[t].pc = "select" /\ lock = None
  /\ lock' = t
  /\ th' = [th EXCEPT ![t].pc = "update", ![t].old = weight]
  /\ UNCHANGED <<weight, audit, raises, lastDecay, pending, now, calls, crashes>>

Release(t) ==
  /\ lock' = IF lock = t THEN None ELSE lock
  /\ pending' = (pending /\ th[t].op \notin Limited)
  /\ th' = [th EXCEPT ![t] = Idle]

\* UPDATE, INSERT and COMMIT
Commit(t) ==
  LET new == Clamp(weight + Delta[th[t].op]) IN
  /\ th[t].pc = "update" /\ lock \in {t, None}
  /\ weight' = new
  /\ audit' = Append(audit, [op |-> th[t].op, old |-> th[t].old, new |-> new,
                              at |-> now, by |-> crashes, raises |-> raises])
  /\ lastDecay' = IF th[t].op \in Limited THEN now ELSE lastDecay
  /\ Release(t)
  /\ UNCHANGED <<raises, now, calls, crashes>>

\* A query fails, or the link is gone: ROLLBACK
Abort(t) ==
  /\ th[t].pc \in {"select", "update"}
  /\ Release(t)
  /\ UNCHANGED <<weight, audit, raises, lastDecay, now, calls, crashes>>

RaiseTo(w) ==
  /\ lock = None /\ raises < MaxRaises /\ w > weight
  /\ weight' = w
  /\ raises' = raises + 1
  /\ UNCHANGED <<lock, audit, th, lastDecay, pending, now, calls, crashes>>

\* createLink on the pair: SET weight = GREATEST(weight, EXCLUDED.weight)
Relink == \E w \in LinkWeights : RaiseTo(w)

\* buildCoRetrievalLinks after a recall that found both: SET weight = weight + 1,
\* beyond the 2 that reconsolidate keeps to
CoRetrieve == RaiseTo(weight + One)

Tick ==
  /\ now < LastTick
  /\ now' = now + 1
  /\ UNCHANGED <<weight, lock, audit, raises, th, lastDecay, pending, calls, crashes>>

Crash ==
  /\ crashes < Crashes
  /\ crashes' = crashes + 1
  /\ th' = [t \in Threads |-> Idle] /\ lock' = None
  /\ lastDecay' = None /\ pending' = FALSE
  /\ UNCHANGED <<weight, audit, raises, now, calls>>

Next ==
  \/ Relink \/ CoRetrieve \/ Tick \/ Crash
  \/ \E t \in Threads : \/ \E op \in DOMAIN Delta : Call(t, op)
                        \/ Select(t) \/ Commit(t) \/ Abort(t)

Spec == Init /\ [][Next]_reconsolidation

AuditChains ==
  \A i \in 2..Len(audit) :
    \/ audit[i].old = audit[i - 1].new
    \/ audit[i - 1].raises < audit[i].raises /\ audit[i - 1].new < audit[i].old

DecaysApart ==
  \A i, j \in DOMAIN audit :
    i < j /\ {audit[i].op, audit[j].op} \subseteq Limited /\ audit[i].by = audit[j].by
      => audit[j].at - audit[i].at >= Window

\* The log accounts for the weight: what an entry found is what the one before
\* it left, or more where createLink or a recall raised it since, though calls
\* overlap (reconsolidate).
\* And in the life of a process two decays of a link lie a whole window apart,
\* though the time of the last one is noted only at its commit.
FeedbackAccounted == AuditChains /\ DecaysApart
=============================================================================
