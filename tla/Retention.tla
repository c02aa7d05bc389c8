------------------------------- MODULE Retention -------------------------------
(***************************************************************************)
(* How long a fragment is kept.  The consolidation cycle (MemoryConsolidator, *)
(* every six hours) moves a row between tiers, lets its importance decay,  *)
(* deletes what has expired, splits and merges rows, scores and calibrates *)
(* them.  Its stages follow one another, each of one or more SQL           *)
(* statements, while clients recall, amend and replace fragments and the   *)
(* evaluator applies a language model's judgement.                         *)
(*                                                                         *)
(* The module follows one row.  A statement is one step; a stage that reads *)
(* its candidates first and writes later is two.  Time moves in ticks of 30 *)
(* days and stops counting at MaxTicks; nothing is in progress over a tick. *)
(* Importance is a level: level l stands for 0.05 * 2^(l/8) and above.     *)
(***************************************************************************)
EXTENDS Integers

CONSTANTS
    Kinds,        \* types of the fragments looked at
    Requested,    \* importance levels a client asks for
    LinkCounts,   \* lengths of linked_to looked at
    MaxJobs,      \* bound on queued evaluations of the row
    MaxTouches    \* bound on what happens to a row besides time and what the
                  \* cycle does to every row alike

MaxTicks == 7     \* more than 180 days, the longest period in the code
Never    == 8     \* a time column that is NULL

MaxLevel == 34    \* 0.95

\* The lowest level at a threshold or above it.
Level    == [p10 |-> 8, p20 |-> 16, p30 |-> 21, p40 |-> 24, p50 |-> 27,
             p55 |-> 28, p80 |-> 32, p90 |-> 34]
Days     == [d30 |-> 1, d60 |-> 2, d90 |-> 3, d180 |-> 6]

AllKinds == {"fact", "decision", "error", "preference", "procedure", "relation", "episode"}

ASSUME RetentionAssumption ==
    /\ Kinds \subseteq AllKinds
    /\ Requested \subseteq 0..MaxLevel
    /\ LinkCounts \subseteq Nat
    /\ MaxJobs \in Nat \ {0}      \* a new row brings a job
    /\ MaxTouches \in Nat

VARIABLES
    row,        \* the row, or Gone
    stage,      \* the statement of the cycle that runs next
    taken,      \* the running stage has read the row as a candidate
    seen,       \* access_count as the running stage read it
    due,        \* no cycle has run since the last tick
    jobs,       \* memory_evaluation: queued jobs of this row
    lowering,   \* a remember of little importance will move the row to "short"
    judging,    \* the evaluator waits for the model's answer
    touches,    \* touches so far
    recalled,   \* history: ticks since the last recall still counted
    steadfast   \* history: an anchor since the running stage began

cycle   == <<stage, taken, seen, due>>
history == <<recalled, steadfast>>
vars    == <<row, cycle, jobs, judging, lowering, touches, history>>

Gone  == [kind |-> "gone"]
Tiers == {"short", "hot", "warm", "cold", "permanent"}

\* Content that starts with "[resolved]", and the topic session_reflect.
Marks == {"plain", "resolved", "reflection"}

\* access_count: never, one to nine, ten or more.
Counts == {0, 1, 10}

Rows == [kind : AllKinds, tier : Tiers, imp : 0..MaxLevel, anchor : BOOLEAN,
         quality : {"null", "true", "false"},
         age : 0..MaxTicks, idle : (0..MaxTicks) \cup {Never},
         decayed : (0..MaxTicks) \cup {Never},
         count : Counts, links : LinkCounts, low : BOOLEAN, valid : BOOLEAN,
         active : BOOLEAN, mark : Marks]

Live == row # Gone

-----------------------------------------------------------------------------
(* A new row *)

\* FragmentFactory._inferTTL looks at the importance that was asked for.
InferTTL(kind, asked) ==
    IF kind = "preference" \/ asked >= Level.p80 THEN "permanent"
    ELSE IF kind \in {"error", "procedure"} THEN "hot"
    ELSE IF kind = "episode" \/ asked >= Level.p50 THEN "warm"
    ELSE "cold"

\* MAX_INITIAL_IMPORTANCE: 0.6, 0.9, 0.7.
Cap(kind) == CASE kind \in {"error", "procedure"} -> 28
               [] kind = "preference"             -> 33
               [] OTHER                           -> 30

\* sanitizeInsertImportance caps the stored importance, except of an anchor;
\* content of less than 20 characters gets 0.2 at most.
StoredImportance(kind, asked, anchor) ==
    IF anchor THEN {asked}
    ELSE LET imp == IF asked <= Cap(kind) THEN asked ELSE Cap(kind)
         IN {imp} \cup (IF imp > Level.p20 THEN {Level.p20} ELSE {})

NewRow(kind, asked, anchor, imp, links, mark) ==
    [kind |-> kind, tier |-> InferTTL(kind, asked), imp |-> imp, anchor |-> anchor,
     quality |-> "null", age |-> 0, idle |-> Never, decayed |-> Never, count |-> 0,
     links |-> links, low |-> FALSE, valid |-> TRUE, active |-> FALSE, mark |-> mark]

\* Which types RememberPostProcessor sends to the evaluator.
Evaluated(kind) == kind \notin {"fact", "procedure", "error", "episode"}

Init ==
    /\ \E kind \in Kinds, asked \in Requested, anchor \in BOOLEAN,
          links \in LinkCounts, mark \in Marks :
          /\ mark = "resolved" => kind = "error"
          /\ \E imp \in StoredImportance(kind, asked, anchor) :
                row = NewRow(kind, asked, anchor, imp, links, mark)
          /\ jobs = IF Evaluated(kind) THEN 1 ELSE 0
          /\ lowering = (asked < Level.p30)
          /\ steadfast = anchor
    /\ stage = "idle" /\ taken = FALSE /\ seen = 0 /\ due = TRUE
    /\ judging = FALSE /\ touches = 0 /\ recalled = Never

-----------------------------------------------------------------------------
(* Time *)

TouchLeft == touches < MaxTouches

Touched == Live /\ TouchLeft /\ touches' = touches + 1

Later(t) == IF t < MaxTicks THEN t + 1 ELSE t

\* A tick without a cycle: the server was down, or the schema-fit gate closed.
Tick ==
    /\ stage = "idle" /\ ~judging /\ ~lowering /\ Live
    /\ IF due THEN Touched ELSE UNCHANGED touches
    /\ due' = (row.age < MaxTicks)
    /\ row' = [row EXCEPT !.age = Later(@), !.idle = Later(@), !.decayed = Later(@)]
    /\ recalled' = Later(recalled)
    /\ UNCHANGED <<stage, taken, seen, jobs, judging, lowering, steadfast>>

-----------------------------------------------------------------------------
(* Clients and the linkers *)

\* UPDATE of the row r by somebody else than the cycle.
Becomes(r) ==
    /\ row' = r
    /\ steadfast' = (steadfast /\ r.anchor)
    /\ UNCHANGED <<cycle, judging, recalled>>

OneMore(n) == IF n = 0 THEN {1} ELSE IF n = 1 THEN {1, 10} ELSE {10}

\* incrementAccess, for a row that a recall returns.  Recalls raise
\* ema_activation, which nothing lowers again; the two ends of its range count.
Recall ==
    /\ Touched
    /\ \E n \in OneMore(row.count), a \in BOOLEAN :
          row' = [row EXCEPT !.count = n, !.idle = 0, !.active = @ \/ a]
    /\ recalled' = 0
    /\ UNCHANGED <<cycle, jobs, judging, lowering, steadfast>>

\* touchLinked: a neighbour by a co_retrieved link was recalled.
TouchLinked ==
    /\ Touched
    /\ Becomes([row EXCEPT !.idle = 0])
    /\ UNCHANGED <<jobs, lowering>>

\* FragmentWriter.update: every amendment counts as an access.
Amend(imp, anchor, mark) ==
    /\ Touched
    /\ mark = row.mark \/ (mark = "resolved" /\ row.kind = "error")
    /\ Becomes([row EXCEPT !.imp = imp, !.anchor = anchor, !.mark = mark, !.idle = 0])
    /\ UNCHANGED <<jobs, lowering>>

\* insert with ON CONFLICT: the same content is remembered once more, and what
\* follows an insert is done again.
RememberAgain(asked, anchor) ==
    /\ Touched
    /\ \E imp \in StoredImportance(row.kind, asked, anchor) :
          Becomes([row EXCEPT !.imp = IF imp > @ THEN imp ELSE @,
                              !.anchor = @ \/ anchor, !.idle = 0])
    /\ jobs' = IF Evaluated(row.kind) /\ jobs < MaxJobs THEN jobs + 1 ELSE jobs
    /\ lowering' = (lowering \/ asked < Level.p30)

\* The end of a remember: updateTtlTier(id, "short"), whatever the tier is by
\* then.  It may fail, and a batch does not do it.
LowerTier ==
    /\ lowering /\ Live
    /\ lowering' = FALSE
    /\ \/ Becomes([row EXCEPT !.tier = "short"])
       \/ Becomes(row)
    /\ UNCHANGED <<jobs, touches>>

\* Links come with other fragments and go with them.
Relink(n) ==
    /\ Touched
    /\ n # row.links
    /\ Becomes([row EXCEPT !.links = n])
    /\ UNCHANGED <<jobs, lowering>>

\* The linker found a duplicate of the row: access_count alone grows.
DuplicateFound ==
    /\ Touched
    /\ \E n \in OneMore(row.count) : Becomes([row EXCEPT !.count = n])
    /\ UNCHANGED <<jobs, lowering>>

Lower(imp, by) == IF imp > by THEN imp - by ELSE 0

\* The row is superseded (module Supersession); some ways halve its importance.
Superseded ==
    /\ Touched /\ row.valid
    /\ \E by \in {0, 8} : Becomes([row EXCEPT !.valid = FALSE, !.imp = Lower(@, by)])
    /\ UNCHANGED <<jobs, lowering>>

Remove == /\ row' = Gone
          /\ steadfast' = FALSE /\ recalled' = Never
          /\ stage' = "idle" /\ taken' = FALSE /\ seen' = 0 /\ UNCHANGED due

\* forget by id or by topic.
Forget(force) ==
    /\ Touched
    /\ row.tier = "permanent" => force
    /\ Remove
    /\ UNCHANGED <<jobs, judging, lowering>>

-----------------------------------------------------------------------------
(* MemoryEvaluator: one job at a time *)

\* The model is asked; its answer comes later.
EvaluateStart ==
    /\ Touched /\ jobs > 0 /\ ~judging
    /\ jobs' = jobs - 1 /\ judging' = TRUE
    /\ UNCHANGED <<row, cycle, lowering, history>>

\* The model is not there, or fails: the job is used up.
EvaluateSkip ==
    /\ Live
    /\ \/ jobs > 0 /\ ~judging /\ jobs' = jobs - 1 /\ UNCHANGED judging
       \/ judging /\ judging' = FALSE /\ UNCHANGED jobs
    /\ UNCHANGED <<row, cycle, lowering, touches, history>>

\* The row as the model's answer leaves it; an unknown action changes the
\* importance only.
Judged(r, score, action) ==
    CASE action = "keep"      -> [r EXCEPT !.imp = score, !.quality = "true", !.idle = 0]
      [] action = "downgrade" -> [r EXCEPT !.imp = IF score < Level.p30 THEN score ELSE Level.p30,
                                           !.quality = "false", !.idle = 0]
      [] action = "discard"   -> [r EXCEPT !.imp = Level.p10, !.quality = "false", !.idle = 0]
      [] OTHER                -> [r EXCEPT !.imp = score, !.idle = 0]

EvaluateEnd(score, action) ==
    /\ judging /\ Live
    /\ judging' = FALSE
    /\ row' = Judged(row, score, action)
    /\ UNCHANGED <<cycle, jobs, lowering, touches, history>>

\* More than MAX_QUEUE_SIZE jobs wait: the job is dropped and the row marked.
EvaluateDrop ==
    /\ Touched /\ jobs > 0 /\ ~judging
    /\ jobs' = jobs - 1
    /\ row' = [row EXCEPT !.quality = "false", !.idle = 0]
    /\ UNCHANGED <<cycle, judging, lowering, history>>

-----------------------------------------------------------------------------
(* The consolidation cycle *)

Stages == {"idle", "ttl", "decay", "select", "delete", "splits", "split", "dups",
           "dedup", "olds", "compress", "utility", "requeue", "anchors", "feedback",
           "stale", "reflections", "purge"}

\* The stages in order.  A stage that fails is reported by timedStage, and the
\* next one runs.
NextStage(s) ==
    CASE s = "ttl"                         -> "decay"
      [] s = "decay"                       -> "select"
      [] s \in {"select", "delete"}        -> "splits"
      [] s \in {"splits", "split"}         -> "dups"
      [] s \in {"dups", "dedup"}           -> "olds"
      [] s \in {"olds", "compress"}        -> "utility"
      [] s = "utility"                     -> "requeue"
      [] s = "requeue"                     -> "anchors"
      [] s = "anchors"                     -> "feedback"
      [] s = "feedback"                    -> "stale"
      [] s = "stale"                       -> "reflections"
      [] OTHER                             -> "idle"

At(s) == Live /\ stage = s

\* The next stage begins.
Advance == /\ stage' = NextStage(stage) /\ taken' = FALSE /\ seen' = 0
           /\ UNCHANGED <<due, jobs, judging, lowering>>

\* The stage leaves r.
Leaves(r) ==
    /\ row' = r
    /\ steadfast' = r.anchor
    /\ Advance
    /\ UNCHANGED <<touches, recalled>>

\* The stage has read the row as a candidate and "write" comes next.
Reads(write) ==
    /\ stage' = write /\ taken' = TRUE /\ seen' = row.count
    /\ UNCHANGED <<row, due, jobs, judging, lowering, history>>

\* A stage fails, or its LIMIT leaves the row to a later cycle.
StageMisses ==
    /\ Touched /\ stage # "idle"
    /\ steadfast' = row.anchor
    /\ Advance
    /\ UNCHANGED <<row, recalled>>

StartCycle ==
    /\ At("idle")
    /\ stage' = "ttl" /\ due' = FALSE /\ steadfast' = row.anchor
    /\ UNCHANGED <<row, taken, seen, jobs, judging, lowering, touches, recalled>>

Merit(r) ==
    /\ r.imp >= Level.p80
    /\ \/ r.quality = "true"
       \/ r.quality = "null" /\ (r.anchor \/ r.imp >= Level.p90)

Chilled(r) ==
    /\ r.tier = "warm"
    /\ \/ r.imp < Level.p30
       \/ IF r.idle = Never THEN r.age > Days.d30 ELSE r.idle > Days.d30

\* Mutant: a row that was never recalled has no time of access to compare.
Paroled_NeverRecalledKept(r) ==
    /\ r.tier = "permanent" /\ ~r.anchor /\ r.imp < Level.p50
    /\ r.idle # Never /\ r.idle > Days.d180

\* Permanent rows that nobody needs.
Paroled(r) ==
    r.tier = "permanent" /\ ~r.anchor /\ r.imp < Level.p50 /\ r.idle > Days.d180

\* transitionTTL: preferences, hubs and rows of merit become permanent, warm
\* ones cold, and permanent ones nobody needs cold too, in this order.
TransitionTTL ==
    /\ At("ttl")
    /\ LET promoted == IF row.kind = "preference" \/ row.links >= 5 \/ Merit(row)
                       THEN [row EXCEPT !.tier = "permanent"] ELSE row
       IN Leaves(IF Chilled(promoted) \/ Paroled(promoted)
                 THEN [promoted EXCEPT !.tier = "cold"] ELSE promoted)

HalfLife(kind) ==
    CASE kind = "procedure"               -> 30
      [] kind = "error"                   -> 45
      [] kind \in {"decision", "relation"} -> 90
      [] kind = "preference"              -> 120
      [] OTHER                            -> 60

\* COALESCE(last_decay_at, accessed_at, created_at).
Elapsed(r) == IF r.decayed # Never THEN r.decayed
              ELSE IF r.idle # Never THEN r.idle ELSE r.age

\* Levels lost in that time, rounded either way; activation by recalls
\* stretches the half-life up to twice.
Loss(r) ==
    LET levels == 240 * Elapsed(r)
        life   == HalfLife(r.kind) * IF r.active THEN 2 ELSE 1
    IN {levels \div life, -((-levels) \div life)}

DecayImportance ==
    /\ At("decay")
    /\ IF row.tier = "permanent" \/ row.anchor THEN Leaves(row)
       ELSE \E loss \in Loss(row) :
               Leaves([row EXCEPT !.imp = Lower(@, loss), !.decayed = 0])

\* Mutant: the row is not asked how long ago it was recalled.
Useless_RecallIgnored(r) == r.low

\* A low utility score, and no access for 60 days.
Useless(r) == r.low /\ r.idle > Days.d60

\* deleteExpired.  The grace period of 7 days is less than a tick; type is
\* NOT NULL, so the fifth branch of the code selects nothing.
Expired(r) ==
    /\ r.tier # "permanent" /\ ~r.anchor /\ r.age > 0
    /\ \/ Useless(r)
       \/ /\ r.kind \in {"fact", "decision"} /\ r.imp < Level.p20
          /\ r.count = 0 /\ r.links = 0 /\ r.age > Days.d30
       \/ /\ r.imp < Level.p10 /\ r.idle > Days.d90 /\ r.age > Days.d90
          /\ r.links < 2
       \/ r.mark = "resolved" /\ r.age > Days.d30 /\ r.imp < Level.p30

\* The candidates come from the statement's snapshot.
SelectExpired ==
    /\ At("select")
    /\ IF Expired(row) THEN Reads("delete") /\ UNCHANGED touches ELSE Leaves(row)

\* A row that changed since is deleted all the same: the recheck after a lock
\* wait only compares ids.
DeleteTaken ==
    /\ Live /\ stage \in {"delete", "purge"}
    /\ Remove
    /\ UNCHANGED <<jobs, judging, lowering, touches>>

\* Stages whose choice of the row depends on other rows: at most one choice
\* per touch.
MayTake(fit, write) == \/ Leaves(row)
                       \/ Touched /\ fit /\ Reads(write)

\* split_long_fragments: long, current, no anchor, no meta topic.  The parts
\* of a fact below 0.57 are worth less than 0.4 and are not stored.
SelectSplit ==
    /\ At("splits")
    /\ MayTake(/\ row.valid /\ ~row.anchor /\ row.mark # "reflection"
               /\ row.kind = "fact" => row.imp >= Level.p55, "split")

\* The parts are stored after the model has answered, then the row is
\* tombstoned by its id alone.
CommitSplit ==
    /\ At("split")
    /\ \E by \in {13, 14} :
          Leaves([row EXCEPT !.valid = FALSE, !.tier = "cold",
                             !.imp = IF Lower(@, by) > Level.p20 THEN Lower(@, by)
                                     ELSE Level.p20])

\* semantic_dedup and compress_old_fragments read groups of similar rows.
SelectSimilar ==
    \/ At("dups") /\ MayTake(row.valid /\ ~row.anchor, "dedup")
    \/ /\ At("olds")
       /\ MayTake(/\ row.valid /\ ~row.anchor /\ row.imp < Level.p50
                  /\ row.idle # Never /\ row.idle > Days.d30, "compress")

\* The sum of the access counts of a group, as they were read.
Sums(n) == {m \in Counts : m >= n}

\* One row of a group is kept and gets the sum, the others expire.
CommitSimilar ==
    /\ Live /\ stage \in {"dedup", "compress"}
    /\ \/ Leaves([row EXCEPT !.valid = FALSE])
       \/ /\ \E n \in Sums(seen) :
                /\ row' = [row EXCEPT !.count = n]
                /\ recalled' = IF n = 0 THEN Never ELSE recalled
          /\ steadfast' = row.anchor
          /\ Advance
          /\ UNCHANGED touches

\* utility_score < 0.15 at an access_count of at most one: importance below
\* 0.15 * months^0.3.
LowLevel == [a \in 0..MaxTicks |-> CASE a <= 1 -> 12 [] a = 2 -> 15 [] a = 3 -> 16
                                     [] a = 4 -> 17 [] a \in {5, 6} -> 18 [] OTHER -> 19]

\* What the score may say: more accesses raise it, by 13 levels at nine, and
\* MaxTicks stands for any greater age.
Lows(r) ==
    LET level == LowLevel[r.age]
        must  == r.imp <= level /\ (r.count = 0 \/ (r.count = 1 /\ r.imp + 14 <= level))
        may   == \/ r.age = MaxTicks
                 \/ r.imp <= level /\ (r.count < 10 \/ r.imp + 13 <= level)
    IN {b \in BOOLEAN : (must => b) /\ (b => may)}

UpdateUtilityScores(low) ==
    /\ At("utility")
    /\ low \in Lows(row)
    /\ Leaves([row EXCEPT !.low = low])

\* requeue_high_ema: only rows that nobody has judged.  A job that no touch is
\* left for is not looked at.
Requeue ==
    /\ At("requeue")
    /\ \/ /\ row.active /\ row.imp < Level.p40 /\ row.quality = "null"
          /\ row.tier # "permanent"
          /\ jobs < MaxJobs /\ TouchLeft
          /\ jobs' = jobs + 1
       \/ UNCHANGED jobs
    /\ stage' = NextStage(stage) /\ steadfast' = row.anchor
    /\ UNCHANGED <<row, taken, seen, due, judging, lowering, touches, recalled>>

PromoteAnchors ==
    /\ At("anchors")
    /\ Leaves(IF row.count = 10 /\ row.imp >= Level.p80
              THEN [row EXCEPT !.anchor = TRUE] ELSE row)

Raise(imp, by) == IF imp + by < MaxLevel THEN imp + by ELSE MaxLevel

\* feedbackFactor 1.1, 0.95 or 0.85 for the fragments of a session.
CalibrateFeedback ==
    /\ At("feedback")
    /\ \/ Leaves(row)
       \/ /\ Touched /\ ~row.anchor
          /\ \E imp \in {Raise(row.imp, 1), Raise(row.imp, 2), Lower(row.imp, 1),
                         Lower(row.imp, 2)} :
                row' = [row EXCEPT !.imp = imp]
          /\ UNCHANGED <<cycle, jobs, judging, lowering, history>>

\* Mutant: anchors are not spared.
Stale_AnchorForgotten(r) == r.valid /\ r.count = 0 /\ r.age > Days.d90

\* Rows nobody recalled for 90 days lose half of their importance, every cycle.
Stale(r) == ~r.anchor /\ r.valid /\ r.count = 0 /\ r.age > Days.d90

CalibrateStale ==
    /\ At("stale")
    /\ Leaves(IF Stale(row) THEN [row EXCEPT !.imp = Lower(@, 8)] ELSE row)

\* purge_stale_reflections: beyond the five best of a type.
SelectReflections ==
    /\ At("reflections")
    /\ \/ Leaves(row)
       \/ /\ row.mark = "reflection" /\ row.imp < Level.p55 /\ row.age > Days.d30
          /\ ~row.anchor /\ row.tier # "permanent"
          /\ Reads("purge") /\ UNCHANGED touches

-----------------------------------------------------------------------------
(* The system *)

Client ==
    \/ Recall \/ TouchLinked \/ LowerTier \/ DuplicateFound \/ Superseded
    \/ \E imp \in Requested, anchor \in BOOLEAN, mark \in Marks : Amend(imp, anchor, mark)
    \/ \E asked \in Requested, anchor \in BOOLEAN : RememberAgain(asked, anchor)
    \/ \E n \in LinkCounts : Relink(n)
    \/ \E force \in BOOLEAN : Forget(force)

Evaluator ==
    \/ EvaluateStart \/ EvaluateSkip \/ EvaluateDrop
    \/ \E score \in Requested, action \in {"keep", "downgrade", "discard", "other"} :
          EvaluateEnd(score, action)

Cycle ==
    \/ TransitionTTL \/ DecayImportance \/ SelectExpired \/ DeleteTaken
    \/ SelectSplit \/ CommitSplit \/ SelectSimilar \/ CommitSimilar
    \/ (\E low \in BOOLEAN : UpdateUtilityScores(low))
    \/ Requeue \/ PromoteAnchors \/ CalibrateFeedback \/ CalibrateStale
    \/ SelectReflections

Next == Tick \/ Client \/ Evaluator \/ StartCycle \/ Cycle \/ StageMisses

Spec == Init /\ [][Next]_vars

\* The scheduler starts a cycle every six hours and a cycle ends; time passes;
\* answers come.  A row grows older for ever, so the score of a row that is
\* left alone is below the threshold some day.
FairSpec ==
    /\ Spec
    /\ WF_vars(Cycle) /\ WF_vars(StartCycle)
    /\ WF_vars(EvaluateSkip) /\ WF_vars(LowerTier)
    /\ SF_vars(Tick)
    /\ SF_vars(UpdateUtilityScores(TRUE))

-----------------------------------------------------------------------------
(* Properties *)

\* The record of the row is well formed.
TypeOK ==
    /\ row \in Rows \cup {Gone}
    /\ stage \in Stages /\ taken \in BOOLEAN /\ seen \in Counts
    /\ jobs \in 0..MaxJobs /\ judging \in BOOLEAN /\ lowering \in BOOLEAN
    /\ touches \in Nat
    /\ recalled \in 0..Never /\ steadfast \in BOOLEAN

\* An anchor is safe from the cycle: a row that has been an anchor since the
\* running stage began is not deleted, and the stage neither lowers its
\* importance nor its tier nor expires it.
AnchorKept ==
    [][steadfast /\ Cycle =>
          /\ row' # Gone
          /\ row'.imp >= row.imp
          /\ row.tier = "permanent" => row'.tier = "permanent"
          /\ row.valid => row'.valid]_vars

\* A recall protects for 60 days: no statement of the cycle takes a row for
\* deletion that was recalled in that time, unless it is a resolved error or a
\* session's reflection.
RecallProtects ==
    [][stage' \in {"delete", "purge"} /\ taken' /\ ~taken =>
          recalled > Days.d60 \/ row.mark # "plain"]_vars

\* What nobody uses is forgotten: once the row is left alone it is deleted,
\* unless it is an anchor or a permanent row of some importance that was
\* recalled or is no longer current.
Kept(r) == r.anchor \/ (r.tier = "permanent" /\ r.imp >= Level.p50 /\ (r.count > 0 \/ ~r.valid))

EventuallyForgotten == <>[](row = Gone \/ Kept(row))

=============================================================================
