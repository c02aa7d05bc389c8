-------------------------- MODULE RetentionProofs --------------------------
(***************************************************************************)
(* For all types, importances, numbers of links, jobs and touches: the     *)
(* consolidation cycle spares anchors, and takes no row for deletion that  *)
(* was recalled within 60 days.                                            *)
(*                                                                         *)
(* The two need an invariant that ties the history to the columns the SQL  *)
(* reads: accessed_at is never older than the last recall, access_count is *)
(* zero only if no recall counts, and a stage that has read its candidates *)
(* and not yet written holds no row that was an anchor when it began.      *)
(* Rows have thirteen columns, so the lemmas RowOne, RowMany, RowReads and *)
(* StageReads say once what an UPDATE of some of them leaves.              *)
(***************************************************************************)
EXTENDS Retention, TLAPS

\* The second statements of the stages that read first and write later.
Commits == {"delete", "split", "dedup", "compress", "purge"}

\* An anchor since the stage began is one now, the last access is no older than the last recall
\* that counts, and a count of zero means that none does.
Remembered ==
  /\ steadfast => row.anchor
  /\ row.idle <= recalled
  /\ row.count = 0 => recalled = Never

\* The inductive invariant: what is remembered of a live row holds, and a row that has been an
\* anchor since the stage began is no candidate of it.
RIInv ==
  /\ TypeOK
  /\ Live => Remembered
  /\ ~Live => ~steadfast
  /\ stage \in Commits => ~steadfast

\* The fields of a row.
LEMMA RowFields ==
  ASSUME NEW r \in Rows
  PROVE  /\ r.kind \in AllKinds /\ r.tier \in Tiers /\ r.imp \in 0..34 /\ r.anchor \in BOOLEAN
         /\ r.quality \in {"null", "true", "false"} /\ r.age \in 0..7 /\ r.idle \in 0..8
         /\ r.decayed \in 0..8 /\ r.count \in Counts /\ r.links \in LinkCounts
         /\ r.low \in BOOLEAN /\ r.valid \in BOOLEAN /\ r.active \in BOOLEAN /\ r.mark \in Marks
         /\ r # Gone
  <1>1. r.kind # "gone"
    BY DEF Rows, AllKinds
  <1>2. Gone.kind = "gone"
    BY DEF Gone
  <1> QED  BY <1>1, <1>2 DEF Rows, MaxTicks, MaxLevel, Never

\* A row is written field by field.
LEMMA RowOne ==
  ASSUME NEW r \in Rows
  PROVE  /\ \A v \in Tiers : [r EXCEPT !.tier = v] \in Rows
         /\ \A v \in 0..34 : [r EXCEPT !.imp = v] \in Rows
         /\ \A v \in BOOLEAN : [r EXCEPT !.anchor = v] \in Rows
         /\ \A v \in {"null", "true", "false"} : [r EXCEPT !.quality = v] \in Rows
         /\ \A v \in 0..7 : [r EXCEPT !.age = v] \in Rows
         /\ \A v \in 0..8 : [r EXCEPT !.idle = v] \in Rows
         /\ \A v \in 0..8 : [r EXCEPT !.decayed = v] \in Rows
         /\ \A v \in Counts : [r EXCEPT !.count = v] \in Rows
         /\ \A v \in LinkCounts : [r EXCEPT !.links = v] \in Rows
         /\ \A v \in BOOLEAN : [r EXCEPT !.low = v] \in Rows
         /\ \A v \in BOOLEAN : [r EXCEPT !.valid = v] \in Rows
         /\ \A v \in BOOLEAN : [r EXCEPT !.active = v] \in Rows
         /\ \A v \in Marks : [r EXCEPT !.mark = v] \in Rows
  <1>1. ASSUME NEW v \in Tiers  PROVE [r EXCEPT !.tier = v] \in Rows
    BY DEF Rows, MaxTicks, MaxLevel, Never
  <1>2. ASSUME NEW v \in 0..34  PROVE [r EXCEPT !.imp = v] \in Rows
    BY DEF Rows, MaxTicks, MaxLevel, Never
  <1>3. ASSUME NEW v \in BOOLEAN  PROVE [r EXCEPT !.anchor = v] \in Rows
    BY DEF Rows, MaxTicks, MaxLevel, Never
  <1>4. ASSUME NEW v \in {"null", "true", "false"}  PROVE [r EXCEPT !.quality = v] \in Rows
    BY DEF Rows, MaxTicks, MaxLevel, Never
  <1>5. ASSUME NEW v \in 0..7  PROVE [r EXCEPT !.age = v] \in Rows
    BY DEF Rows, MaxTicks, MaxLevel, Never
  <1>6. ASSUME NEW v \in 0..8  PROVE [r EXCEPT !.idle = v] \in Rows
    BY DEF Rows, MaxTicks, MaxLevel, Never
  <1>7. ASSUME NEW v \in 0..8  PROVE [r EXCEPT !.decayed = v] \in Rows
    BY DEF Rows, MaxTicks, MaxLevel, Never
  <1>8. ASSUME NEW v \in Counts  PROVE [r EXCEPT !.count = v] \in Rows
    BY DEF Rows, MaxTicks, MaxLevel, Never
  <1>9. ASSUME NEW v \in LinkCounts  PROVE [r EXCEPT !.links = v] \in Rows
    BY DEF Rows, MaxTicks, MaxLevel, Never
  <1>10. ASSUME NEW v \in BOOLEAN  PROVE [r EXCEPT !.low = v] \in Rows
    BY DEF Rows, MaxTicks, MaxLevel, Never
  <1>11. ASSUME NEW v \in BOOLEAN  PROVE [r EXCEPT !.valid = v] \in Rows
    BY DEF Rows, MaxTicks, MaxLevel, Never
  <1>12. ASSUME NEW v \in BOOLEAN  PROVE [r EXCEPT !.active = v] \in Rows
    BY DEF Rows, MaxTicks, MaxLevel, Never
  <1>13. ASSUME NEW v \in Marks  PROVE [r EXCEPT !.mark = v] \in Rows
    BY DEF Rows, MaxTicks, MaxLevel, Never
  <1> QED  BY <1>1, <1>2, <1>3, <1>4, <1>5, <1>6, <1>7, <1>8, <1>9, <1>10, <1>11, <1>12, <1>13

\* Several fields are written one after the other.
LEMMA RowMany ==
  ASSUME NEW r \in Rows
  PROVE  /\ \A n \in Counts, i \in 0..8, b \in BOOLEAN :
               [r EXCEPT !.count = n, !.idle = i, !.active = b] \in Rows
         /\ \A m \in 0..34, i \in 0..8 :
               [r EXCEPT !.imp = m, !.idle = i] \in Rows
         /\ \A m \in 0..34, b \in BOOLEAN, i \in 0..8 :
               [r EXCEPT !.imp = m, !.anchor = b, !.idle = i] \in Rows
         /\ \A m \in 0..34, b \in BOOLEAN, k \in Marks, i \in 0..8 :
               [r EXCEPT !.imp = m, !.anchor = b, !.mark = k, !.idle = i] \in Rows
         /\ \A m \in 0..34, q \in {"null", "true", "false"}, i \in 0..8 :
               [r EXCEPT !.imp = m, !.quality = q, !.idle = i] \in Rows
         /\ \A q \in {"null", "true", "false"}, i \in 0..8 :
               [r EXCEPT !.quality = q, !.idle = i] \in Rows
         /\ \A g \in 0..7, i \in 0..8, d \in 0..8 :
               [r EXCEPT !.age = g, !.idle = i, !.decayed = d] \in Rows
         /\ \A m \in 0..34, d \in 0..8 :
               [r EXCEPT !.imp = m, !.decayed = d] \in Rows
         /\ \A b \in BOOLEAN, m \in 0..34 :
               [r EXCEPT !.valid = b, !.imp = m] \in Rows
         /\ \A b \in BOOLEAN, t \in Tiers, m \in 0..34 :
               [r EXCEPT !.valid = b, !.tier = t, !.imp = m] \in Rows
  <1>1. ASSUME NEW n \in Counts, NEW i \in 0..8, NEW b \in BOOLEAN
        PROVE  [r EXCEPT !.count = n, !.idle = i, !.active = b] \in Rows
    <2>1. [r EXCEPT !.count = n] \in Rows
      BY RowOne
    <2>2. [[r EXCEPT !.count = n] EXCEPT !.idle = i] \in Rows
      BY <2>1, RowOne
    <2>3. [[[r EXCEPT !.count = n] EXCEPT !.idle = i] EXCEPT !.active = b] \in Rows
      BY <2>2, RowOne
    <2> QED  BY <2>3
  <1>2. ASSUME NEW m \in 0..34, NEW i \in 0..8
        PROVE  [r EXCEPT !.imp = m, !.idle = i] \in Rows
    <2>1. [r EXCEPT !.imp = m] \in Rows
      BY RowOne
    <2>2. [[r EXCEPT !.imp = m] EXCEPT !.idle = i] \in Rows
      BY <2>1, RowOne
    <2> QED  BY <2>2
  <1>3. ASSUME NEW m \in 0..34, NEW b \in BOOLEAN, NEW i \in 0..8
        PROVE  [r EXCEPT !.imp = m, !.anchor = b, !.idle = i] \in Rows
    <2>1. [r EXCEPT !.imp = m] \in Rows
      BY RowOne
    <2>2. [[r EXCEPT !.imp = m] EXCEPT !.anchor = b] \in Rows
      BY <2>1, RowOne
    <2>3. [[[r EXCEPT !.imp = m] EXCEPT !.anchor = b] EXCEPT !.idle = i] \in Rows
      BY <2>2, RowOne
    <2> QED  BY <2>3
  <1>4. ASSUME NEW m \in 0..34, NEW b \in BOOLEAN, NEW k \in Marks, NEW i \in 0..8
        PROVE  [r EXCEPT !.imp = m, !.anchor = b, !.mark = k, !.idle = i] \in Rows
    <2>1. [r EXCEPT !.imp = m] \in Rows
      BY RowOne
    <2>2. [[r EXCEPT !.imp = m] EXCEPT !.anchor = b] \in Rows
      BY <2>1, RowOne
    <2>3. [[[r EXCEPT !.imp = m] EXCEPT !.anchor = b] EXCEPT !.mark = k] \in Rows
      BY <2>2, RowOne
    <2>4. [[[[r EXCEPT !.imp = m] EXCEPT !.anchor = b] EXCEPT !.mark = k] EXCEPT !.idle = i] \in Rows
      BY <2>3, RowOne
    <2> QED  BY <2>4
  <1>5. ASSUME NEW m \in 0..34, NEW q \in {"null", "true", "false"}, NEW i \in 0..8
        PROVE  [r EXCEPT !.imp = m, !.quality = q, !.idle = i] \in Rows
    <2>1. [r EXCEPT !.imp = m] \in Rows
      BY RowOne
    <2>2. [[r EXCEPT !.imp = m] EXCEPT !.quality = q] \in Rows
      BY <2>1, RowOne
    <2>3. [[[r EXCEPT !.imp = m] EXCEPT !.quality = q] EXCEPT !.idle = i] \in Rows
      BY <2>2, RowOne
    <2> QED  BY <2>3
  <1>6. ASSUME NEW q \in {"null", "true", "false"}, NEW i \in 0..8
        PROVE  [r EXCEPT !.quality = q, !.idle = i] \in Rows
    <2>1. [r EXCEPT !.quality = q] \in Rows
      BY RowOne
    <2>2. [[r EXCEPT !.quality = q] EXCEPT !.idle = i] \in Rows
      BY <2>1, RowOne
    <2> QED  BY <2>2
  <1>7. ASSUME NEW g \in 0..7, NEW i \in 0..8, NEW d \in 0..8
        PROVE  [r EXCEPT !.age = g, !.idle = i, !.decayed = d] \in Rows
    <2>1. [r EXCEPT !.age = g] \in Rows
      BY RowOne
    <2>2. [[r EXCEPT !.age = g] EXCEPT !.idle = i] \in Rows
      BY <2>1, RowOne
    <2>3. [[[r EXCEPT !.age = g] EXCEPT !.idle = i] EXCEPT !.decayed = d] \in Rows
      BY <2>2, RowOne
    <2> QED  BY <2>3
  <1>8. ASSUME NEW m \in 0..34, NEW d \in 0..8
        PROVE  [r EXCEPT !.imp = m, !.decayed = d] \in Rows
    <2>1. [r EXCEPT !.imp = m] \in Rows
      BY RowOne
    <2>2. [[r EXCEPT !.imp = m] EXCEPT !.decayed = d] \in Rows
      BY <2>1, RowOne
    <2> QED  BY <2>2
  <1>9. ASSUME NEW b \in BOOLEAN, NEW m \in 0..34
        PROVE  [r EXCEPT !.valid = b, !.imp = m] \in Rows
    <2>1. [r EXCEPT !.valid = b] \in Rows
      BY RowOne
    <2>2. [[r EXCEPT !.valid = b] EXCEPT !.imp = m] \in Rows
      BY <2>1, RowOne
    <2> QED  BY <2>2
  <1>10. ASSUME NEW b \in BOOLEAN, NEW t \in Tiers, NEW m \in 0..34
        PROVE  [r EXCEPT !.valid = b, !.tier = t, !.imp = m] \in Rows
    <2>1. [r EXCEPT !.valid = b] \in Rows
      BY RowOne
    <2>2. [[r EXCEPT !.valid = b] EXCEPT !.tier = t] \in Rows
      BY <2>1, RowOne
    <2>3. [[[r EXCEPT !.valid = b] EXCEPT !.tier = t] EXCEPT !.imp = m] \in Rows
      BY <2>2, RowOne
    <2> QED  BY <2>3
  <1> QED  BY <1>1, <1>2, <1>3, <1>4, <1>5, <1>6, <1>7, <1>8, <1>9, <1>10

\* The thresholds and the constants.
LEMMA Levels ==
  /\ Requested \subseteq 0..34 /\ Kinds \subseteq AllKinds /\ MaxJobs \in Nat \ {0} /\ MaxTouches \in Nat
  /\ Level.p10 = 8 /\ Level.p20 = 16 /\ Level.p30 = 21 /\ Level.p40 = 24 /\ Level.p50 = 27
  /\ Level.p55 = 28 /\ Level.p80 = 32 /\ Level.p90 = 34
  /\ Days.d30 = 1 /\ Days.d60 = 2 /\ Days.d90 = 3 /\ Days.d180 = 6
  BY RetentionAssumption DEF MaxLevel, Level, Days

\* The values the statements write.
LEMMA Written ==
  /\ 0 \in 0..8 /\ FALSE \in BOOLEAN /\ TRUE \in BOOLEAN /\ "short" \in Tiers /\ "cold" \in Tiers
  /\ "permanent" \in Tiers /\ "false" \in {"null", "true", "false"} /\ 0 \in Counts
  BY DEF Tiers, Counts

\* What lowers, raises and caps an importance.
LEMMA Worth ==
  ASSUME NEW imp \in 0..34, NEW by \in Nat
  PROVE  /\ Lower(imp, by) \in 0..34 /\ Raise(imp, by) \in 0..34 /\ Lower(imp, by) <= imp
  BY DEF Lower, Raise, MaxLevel

\* What decay takes away.
LEMMA LossCounts == ASSUME NEW r \in Rows  PROVE Loss(r) \subseteq Nat
  <1>1. Elapsed(r) \in 0..8
    BY RowFields DEF Elapsed, Never
  <1>2. HalfLife(r.kind) \in {30, 45, 60, 90, 120}
    BY DEF HalfLife
  <1> DEFINE levels == 240 * Elapsed(r)
             life == HalfLife(r.kind) * IF r.active THEN 2 ELSE 1
  <1>3. levels \in Nat
    BY <1>1
  <1>4. life \in {30, 45, 60, 90, 120, 180, 240}
    BY <1>2, RowFields
  <1> HIDE DEF levels, life
  <1>5. levels \div life \in Nat /\ -((-levels) \div life) \in Nat
    BY <1>3, <1>4
  <1> QED  BY <1>5 DEF Loss, levels, life

\* What a row is stored with.
LEMMA StoredWorth ==
  ASSUME NEW kind, NEW asked \in Requested, NEW anchor \in BOOLEAN
  PROVE  StoredImportance(kind, asked, anchor) \subseteq 0..34
  <1>1. Cap(kind) \in {28, 30, 33}
    BY DEF Cap
  <1>2. asked \in 0..34 /\ Level.p20 = 16
    BY Levels
  <1> QED  BY <1>1, <1>2 DEF StoredImportance

\* A new row is an anchor if it was asked for, and has not been recalled.
LEMMA RetentionInit == Init => RIInv
  <1> SUFFICES ASSUME Init  PROVE RIInv
    OBVIOUS
  <1>1. PICK kind \in Kinds, asked \in Requested, anchor \in BOOLEAN, links \in LinkCounts, mark \in Marks :
          /\ \E imp \in StoredImportance(kind, asked, anchor) : row = NewRow(kind, asked, anchor, imp, links, mark)
          /\ jobs = IF Evaluated(kind) THEN 1 ELSE 0
          /\ lowering = (asked < Level.p30)
          /\ steadfast = anchor
    BY DEF Init
  <1>2. PICK imp \in 0..34 : row = NewRow(kind, asked, anchor, imp, links, mark)
    BY <1>1, StoredWorth
  <1>3. InferTTL(kind, asked) \in Tiers
    BY DEF InferTTL, Tiers
  <1>4. row \in Rows /\ row.anchor = anchor /\ row.idle = 8 /\ row.count = 0
    BY <1>2, <1>3, Levels DEF NewRow, Rows, MaxTicks, MaxLevel, Never, Counts
  <1>5. lowering \in BOOLEAN
    <2>1. (asked < Level.p30) \in BOOLEAN
      OBVIOUS
    <2> QED  BY <1>1, <2>1, Zenon
  <1>7. jobs \in 0..MaxJobs
    BY <1>1, Levels
  <1>8. stage = "idle" /\ taken = FALSE /\ seen = 0 /\ judging = FALSE /\ touches = 0 /\ recalled = 8
    BY DEF Init, Never
  <1>6. TypeOK
    <2>1. row \in Rows \cup {Gone} /\ stage \in Stages /\ seen \in Counts /\ recalled \in 0..Never /\ touches \in Nat
      BY <1>4, <1>8 DEF Stages, Counts, Never
    <2>2. taken \in BOOLEAN /\ judging \in BOOLEAN
      BY <1>8
    <2>3. steadfast \in BOOLEAN
      BY <1>1
    <2> QED  BY <2>1, <2>2, <2>3, <1>5, <1>7, Zenon DEF TypeOK
  <1> QED  BY <1>1, <1>4, <1>6, <1>8, RowFields DEF RIInv, Remembered, Live, Never, Commits

\* The types of what is beside the row.
LEMMA Beside ==
  ASSUME RIInv
  PROVE  /\ stage \in Stages /\ taken \in BOOLEAN /\ seen \in Counts /\ jobs \in 0..MaxJobs
         /\ judging \in BOOLEAN /\ lowering \in BOOLEAN /\ touches \in Nat
         /\ recalled \in 0..8 /\ steadfast \in BOOLEAN
         /\ (Live => /\ row \in Rows /\ row # Gone /\ row.idle <= recalled
                     /\ (row.count = 0 => recalled = 8) /\ (steadfast => row.anchor))
         /\ (~Live => row = Gone /\ ~steadfast)
         /\ (stage \in Commits => ~steadfast)
  BY DEF RIInv, TypeOK, Remembered, Live, Never

\* Somebody else than the cycle writes the row.
LEMMA WrittenKept ==
  ASSUME RIInv, Live, NEW r \in Rows, row' = r, r.idle \in {0, row.idle}, r.count = 0 => row.count = 0,
         steadfast' \in BOOLEAN, steadfast' => steadfast /\ r.anchor,
         UNCHANGED <<stage, taken, seen, recalled>>,
         jobs' \in 0..MaxJobs, judging' \in BOOLEAN, lowering' \in BOOLEAN, touches' \in Nat
  PROVE  RIInv'
  <1>1. TypeOK'
    <2>1. row' \in Rows \cup {Gone} /\ stage' \in Stages /\ taken' \in BOOLEAN /\ seen' \in Counts
      BY Beside
    <2>2. recalled' \in 0..Never
      BY Beside DEF Never
    <2> QED  BY <2>1, <2>2, Zenon DEF TypeOK
  <1>2. Live' /\ Remembered'
    <2>1. row' # Gone
      BY RowFields
    <2>2. row'.idle <= recalled'
      BY Beside, RowFields
    <2>3. row'.count = 0 => recalled' = Never
      BY Beside DEF Never
    <2> QED  BY <2>1, <2>2, <2>3 DEF Remembered, Live
  <1>3. stage' \in Commits => ~steadfast'
    BY Beside
  <1> QED  BY <1>1, <1>2, <1>3 DEF RIInv

\* The stage after a stage begins with its first statement.
LEMMA NextStages == ASSUME NEW s \in Stages  PROVE NextStage(s) \in Stages \ Commits
  BY DEF NextStage, Stages, Commits

\* A step of the cycle that keeps the last access, and the count unless no recall counts any more.

LEMMA LeftKept ==
  ASSUME RIInv, Live, NEW r \in Rows, row' = r, steadfast' = r.anchor,
         recalled' \in 0..8, r.idle <= recalled', r.count = 0 => recalled' = 8,
         stage' \in Stages \ Commits, taken' \in BOOLEAN, seen' \in Counts, touches' \in Nat,
         UNCHANGED <<judging, lowering>>, jobs' \in 0..MaxJobs
  PROVE  RIInv'
  <1>1. TypeOK'
    <2>1. row' \in Rows \cup {Gone} /\ stage' \in Stages /\ steadfast' \in BOOLEAN
      BY RowFields
    <2>2. recalled' \in 0..Never
      BY DEF Never
    <2>3. judging' \in BOOLEAN /\ lowering' \in BOOLEAN
      BY Beside
    <2> QED  BY <2>1, <2>2, <2>3, Zenon DEF TypeOK
  <1>2. Live' /\ Remembered'
    <2>1. row' # Gone
      BY RowFields
    <2>2. row'.count = 0 => recalled' = Never
      BY DEF Never
    <2> QED  BY <2>1, <2>2 DEF Remembered, Live
  <1> QED  BY <1>1, <1>2 DEF RIInv

\* A stage that ends with Leaves and keeps the access columns.

LEMMA LeavesKept ==
  ASSUME RIInv, Live, NEW r \in Rows, Leaves(r), r.idle = row.idle, r.count = row.count
  PROVE  RIInv'
  <1>1. /\ row' = r /\ steadfast' = r.anchor /\ stage' = NextStage(stage) /\ taken' = FALSE /\ seen' = 0
        /\ UNCHANGED <<jobs, judging, lowering, touches, recalled>>
    BY DEF Leaves, Advance
  <1>2. stage' \in Stages \ Commits /\ seen' \in Counts /\ taken' \in BOOLEAN
    BY <1>1, Beside, NextStages DEF Counts
  <1>3. recalled' \in 0..8 /\ r.idle <= recalled' /\ (r.count = 0 => recalled' = 8) /\ jobs' \in 0..MaxJobs
        /\ touches' \in Nat
    BY <1>1, Beside
  <1>4. row' = r /\ steadfast' = r.anchor /\ UNCHANGED <<judging, lowering>>
    BY <1>1
  <1> QED  BY <1>2, <1>3, <1>4, LeftKept

\* A stage takes a row that is no anchor.
LEMMA ReadsKept ==
  ASSUME RIInv, Live, NEW write \in Commits, Reads(write), ~row.anchor, touches' \in Nat
  PROVE  RIInv'
  <1>1. /\ stage' = write /\ taken' = TRUE /\ seen' = row.count
        /\ UNCHANGED <<row, jobs, judging, lowering, recalled, steadfast>>
    BY DEF Reads, history
  <1>2. row \in Rows /\ row.count \in Counts /\ ~steadfast
    BY Beside, RowFields
  <1>3. TypeOK'
    <2>1. row' \in Rows \cup {Gone} /\ stage' \in Stages /\ seen' \in Counts /\ taken' \in BOOLEAN
      BY <1>1, <1>2 DEF Commits, Stages
    <2>2. recalled' \in 0..Never /\ jobs' \in 0..MaxJobs
      BY <1>1, Beside DEF Never
    <2>3. judging' \in BOOLEAN /\ lowering' \in BOOLEAN /\ steadfast' \in BOOLEAN
      BY <1>1, Beside
    <2> QED  BY <2>1, <2>2, <2>3, Zenon DEF TypeOK
  <1>4. Live' /\ Remembered' /\ ~steadfast'
    BY <1>1, <1>2 DEF RIInv, Live, Remembered
  <1> QED  BY <1>3, <1>4 DEF RIInv

\* The row is deleted.
LEMMA RemoveKept ==
  ASSUME RIInv, Remove, UNCHANGED <<jobs, judging, lowering>>, touches' \in Nat
  PROVE  RIInv'
  <1>1. row' = Gone /\ steadfast' = FALSE /\ recalled' = 8 /\ stage' = "idle" /\ taken' = FALSE /\ seen' = 0
    BY DEF Remove, Never
  <1>2. TypeOK'
    <2>1. row' \in Rows \cup {Gone} /\ stage' \in Stages /\ seen' \in Counts /\ taken' \in BOOLEAN
      BY <1>1 DEF Stages, Counts
    <2>2. recalled' \in 0..Never /\ jobs' \in 0..MaxJobs
      BY <1>1, Beside DEF Never
    <2>3. judging' \in BOOLEAN /\ lowering' \in BOOLEAN /\ steadfast' \in BOOLEAN
      BY <1>1, Beside
    <2> QED  BY <2>1, <2>2, <2>3, Zenon DEF TypeOK
  <1> QED  BY <1>1, <1>2 DEF RIInv, Live

\* A client or a linker writes the row by Becomes.
LEMMA BecomesKept ==
  ASSUME RIInv, Live, NEW r \in Rows, Becomes(r), r.idle \in {0, row.idle}, r.count = 0 => row.count = 0,
         jobs' \in 0..MaxJobs, lowering' \in BOOLEAN, touches' \in Nat
  PROVE  RIInv'
  <1>1. row' = r /\ UNCHANGED <<stage, taken, seen, recalled, judging>>
    BY DEF Becomes, cycle
  <1>2. steadfast' = (steadfast /\ r.anchor)
    BY DEF Becomes
  <1>3. steadfast' \in BOOLEAN /\ (steadfast' => steadfast /\ r.anchor)
    BY <1>2
  <1>4. judging' \in BOOLEAN
    BY <1>1, Beside
  <1> QED  BY <1>1, <1>3, <1>4, WrittenKept

\* A touch is counted.
LEMMA TouchCounts == ASSUME RIInv, Touched  PROVE Live /\ touches' \in Nat /\ row \in Rows
  BY Beside DEF Touched

\* Counts grow.
LEMMA CountsGrow == ASSUME NEW n \in Counts  PROVE OneMore(n) \subseteq Counts \ {0}
  BY DEF OneMore, Counts

\* What the fields hold of a row after they were written.
LEMMA RowReads ==
  ASSUME NEW r \in Rows, NEW i, NEW m, NEW n, NEW v
  PROVE  /\ [r EXCEPT !.idle = i].idle = i
         /\ [r EXCEPT !.idle = i].count = r.count
         /\ [r EXCEPT !.count = n, !.idle = i, !.active = v].idle = i
         /\ [r EXCEPT !.count = n, !.idle = i, !.active = v].count = n
         /\ [r EXCEPT !.count = n, !.idle = i, !.active = v].anchor = r.anchor
         /\ [r EXCEPT !.imp = m, !.idle = i].idle = i
         /\ [r EXCEPT !.imp = m, !.idle = i].count = r.count
         /\ [r EXCEPT !.imp = m, !.idle = i].anchor = r.anchor
         /\ [r EXCEPT !.imp = m, !.quality = v, !.idle = i].idle = i
         /\ [r EXCEPT !.imp = m, !.quality = v, !.idle = i].count = r.count
         /\ [r EXCEPT !.imp = m, !.quality = v, !.idle = i].anchor = r.anchor
         /\ [r EXCEPT !.quality = v, !.idle = i].idle = i
         /\ [r EXCEPT !.quality = v, !.idle = i].count = r.count
         /\ [r EXCEPT !.quality = v, !.idle = i].anchor = r.anchor
         /\ [r EXCEPT !.imp = m, !.anchor = v, !.idle = i].idle = i
         /\ [r EXCEPT !.imp = m, !.anchor = v, !.idle = i].count = r.count
         /\ [r EXCEPT !.imp = m, !.anchor = v, !.mark = n, !.idle = i].idle = i
         /\ [r EXCEPT !.imp = m, !.anchor = v, !.mark = n, !.idle = i].count = r.count
         /\ [r EXCEPT !.valid = v, !.imp = m].idle = r.idle
         /\ [r EXCEPT !.valid = v, !.imp = m].count = r.count
  <1>1. [r EXCEPT !.idle = i].idle = i
    BY DEF Rows
  <1>2. [r EXCEPT !.idle = i].count = r.count
    BY DEF Rows
  <1>3. [r EXCEPT !.count = n, !.idle = i, !.active = v].idle = i
    BY DEF Rows
  <1>4. [r EXCEPT !.count = n, !.idle = i, !.active = v].count = n
    BY DEF Rows
  <1>5. [r EXCEPT !.count = n, !.idle = i, !.active = v].anchor = r.anchor
    BY DEF Rows
  <1>6. [r EXCEPT !.imp = m, !.idle = i].idle = i
    BY DEF Rows
  <1>7. [r EXCEPT !.imp = m, !.idle = i].count = r.count
    BY DEF Rows
  <1>8. [r EXCEPT !.imp = m, !.idle = i].anchor = r.anchor
    BY DEF Rows
  <1>9. [r EXCEPT !.imp = m, !.quality = v, !.idle = i].idle = i
    BY DEF Rows
  <1>10. [r EXCEPT !.imp = m, !.quality = v, !.idle = i].count = r.count
    BY DEF Rows
  <1>11. [r EXCEPT !.imp = m, !.quality = v, !.idle = i].anchor = r.anchor
    BY DEF Rows
  <1>12. [r EXCEPT !.quality = v, !.idle = i].idle = i
    BY DEF Rows
  <1>13. [r EXCEPT !.quality = v, !.idle = i].count = r.count
    BY DEF Rows
  <1>14. [r EXCEPT !.quality = v, !.idle = i].anchor = r.anchor
    BY DEF Rows
  <1>15. [r EXCEPT !.imp = m, !.anchor = v, !.idle = i].idle = i
    BY DEF Rows
  <1>16. [r EXCEPT !.imp = m, !.anchor = v, !.idle = i].count = r.count
    BY DEF Rows
  <1>17. [r EXCEPT !.imp = m, !.anchor = v, !.mark = n, !.idle = i].idle = i
    BY DEF Rows
  <1>18. [r EXCEPT !.imp = m, !.anchor = v, !.mark = n, !.idle = i].count = r.count
    BY DEF Rows
  <1>19. [r EXCEPT !.valid = v, !.imp = m].idle = r.idle
    BY DEF Rows
  <1>20. [r EXCEPT !.valid = v, !.imp = m].count = r.count
    BY DEF Rows
  <1> QED  BY <1>1, <1>2, <1>3, <1>4, <1>5, <1>6, <1>7, <1>8, <1>9, <1>10, <1>11, <1>12, <1>13, <1>14, <1>15, <1>16, <1>17, <1>18, <1>19, <1>20

\* What clients and linkers do to the row.
LEMMA ClientKept == ASSUME RIInv, Client  PROVE RIInv'
  <1>0. Live => row \in Rows
    BY Beside
  <1>1. CASE Recall
    <2>1. Live /\ touches' \in Nat /\ row \in Rows
      BY <1>1, TouchCounts DEF Recall
    <2>2. PICK n \in OneMore(row.count), a \in BOOLEAN :
            row' = [row EXCEPT !.count = n, !.idle = 0, !.active = @ \/ a]
      BY <1>1 DEF Recall
    <2>3. n \in Counts \ {0} /\ (row.active \/ a) \in BOOLEAN
      BY <2>1, <2>2, RowFields, CountsGrow
    <2> DEFINE r == [row EXCEPT !.count = n, !.idle = 0, !.active = row.active \/ a]
    <2>4. r \in Rows
      BY <2>1, <2>3, Written, RowMany
    <2>5. r.idle = 0 /\ r.count = n /\ r.anchor = row.anchor
      BY <2>1, RowReads
    <2>10. row' = r
      BY <2>2
    <2>6. /\ recalled' = 0 /\ UNCHANGED <<stage, taken, seen, jobs, judging, lowering, steadfast>>
      BY <1>1 DEF Recall, cycle
    <2> HIDE DEF r
    <2>7. TypeOK'
      <3>1. row' \in Rows \cup {Gone} /\ stage' \in Stages /\ taken' \in BOOLEAN /\ seen' \in Counts
        BY <2>4, <2>10, <2>6, Beside
      <3>2. recalled' \in 0..Never /\ jobs' \in 0..MaxJobs
        BY <2>6, Beside DEF Never
      <3>3. judging' \in BOOLEAN /\ lowering' \in BOOLEAN /\ steadfast' \in BOOLEAN
        BY <2>6, Beside
      <3> QED  BY <2>1, <3>1, <3>2, <3>3, Zenon DEF TypeOK
    <2>8. Live' /\ Remembered'
      <3>1. row' # Gone
        BY <2>4, <2>10, RowFields
      <3>2. steadfast' => row'.anchor
        BY <2>1, <2>5, <2>10, <2>6, Beside
      <3> QED  BY <2>3, <2>5, <2>10, <2>6, <3>1, <3>2 DEF Remembered, Live
    <2>9. stage' \in Commits => ~steadfast'
      BY <2>6, Beside
    <2> QED  BY <2>7, <2>8, <2>9 DEF RIInv
  <1>2. CASE TouchLinked
    <2>1. Live /\ touches' \in Nat /\ row \in Rows
      BY <1>2, TouchCounts DEF TouchLinked
    <2> DEFINE r == [row EXCEPT !.idle = 0]
    <2>2. r \in Rows /\ r.idle = 0 /\ r.count = row.count
      <3>1. r \in Rows
        BY <2>1, Written, RowOne
      <3> QED  BY <2>1, <3>1, RowReads
    <2>3. Becomes(r) /\ jobs' \in 0..MaxJobs /\ lowering' \in BOOLEAN
      BY <1>2, Beside DEF TouchLinked
    <2> HIDE DEF r
    <2> QED  BY <2>1, <2>2, <2>3, BecomesKept
  <1>3. CASE LowerTier
    <2>1. Live /\ touches' \in Nat /\ row \in Rows /\ jobs' \in 0..MaxJobs /\ lowering' \in BOOLEAN
      BY <1>0, <1>3, Beside DEF LowerTier
    <2> DEFINE r == [row EXCEPT !.tier = "short"]
    <2>2. r \in Rows /\ r.idle = row.idle /\ r.count = row.count
      <3>1. r \in Rows
        BY <2>1, RowOne DEF Tiers
      <3> QED  BY <2>1, <3>1 DEF Rows
    <2>3. Becomes(r) \/ Becomes(row)
      BY <1>3 DEF LowerTier
    <2> HIDE DEF r
    <2> QED  BY <2>1, <2>2, <2>3, BecomesKept
  <1>4. CASE DuplicateFound
    <2>1. Live /\ touches' \in Nat /\ row \in Rows
      BY <1>4, TouchCounts DEF DuplicateFound
    <2>2. PICK n \in OneMore(row.count) : Becomes([row EXCEPT !.count = n])
      BY <1>4 DEF DuplicateFound
    <2> DEFINE r == [row EXCEPT !.count = n]
    <2>3. r \in Rows /\ r.idle = row.idle /\ r.count # 0
      <3>1. n \in Counts \ {0}
        BY <2>1, RowFields, CountsGrow
      <3>2. r \in Rows
        BY <2>1, <3>1, RowOne
      <3> QED  BY <2>1, <3>1, <3>2 DEF Rows
    <2>4. Becomes(r) /\ jobs' \in 0..MaxJobs /\ lowering' \in BOOLEAN
      BY <1>4, <2>2, Beside DEF DuplicateFound
    <2> HIDE DEF r
    <2> QED  BY <2>1, <2>3, <2>4, BecomesKept
  <1>5. CASE Superseded
    <2>1. Live /\ touches' \in Nat /\ row \in Rows
      BY <1>5, TouchCounts DEF Superseded
    <2>2. PICK by \in {0, 8} : Becomes([row EXCEPT !.valid = FALSE, !.imp = Lower(@, by)])
      BY <1>5 DEF Superseded
    <2> DEFINE r == [row EXCEPT !.valid = FALSE, !.imp = Lower(row.imp, by)]
    <2>3. r \in Rows /\ r.idle = row.idle /\ r.count = row.count
      <3>1. Lower(row.imp, by) \in 0..34
        BY <2>1, RowFields, Worth
      <3>2. r \in Rows
        BY <2>1, <3>1, Written, RowMany
      <3> QED  BY <2>1, <3>2, RowReads
    <2>4. Becomes(r) /\ jobs' \in 0..MaxJobs /\ lowering' \in BOOLEAN
      BY <1>5, <2>2, Beside DEF Superseded
    <2> HIDE DEF r
    <2> QED  BY <2>1, <2>3, <2>4, BecomesKept
  <1>6. ASSUME NEW imp \in Requested, NEW anchor \in BOOLEAN, NEW mark \in Marks, Amend(imp, anchor, mark)
        PROVE  RIInv'
    <2>1. Live /\ touches' \in Nat /\ row \in Rows
      BY <1>6, TouchCounts DEF Amend
    <2> DEFINE r == [row EXCEPT !.imp = imp, !.anchor = anchor, !.mark = mark, !.idle = 0]
    <2>2. r \in Rows /\ r.idle = 0 /\ r.count = row.count
      <3>1. imp \in 0..34
        BY Levels
      <3>2. r \in Rows
        BY <2>1, <3>1, Written, RowMany
      <3> QED  BY <2>1, <3>2, RowReads
    <2>3. Becomes(r) /\ jobs' \in 0..MaxJobs /\ lowering' \in BOOLEAN
      BY <1>6, Beside DEF Amend
    <2> HIDE DEF r
    <2> QED  BY <2>1, <2>2, <2>3, BecomesKept
  <1>7. ASSUME NEW asked \in Requested, NEW anchor \in BOOLEAN, RememberAgain(asked, anchor)
        PROVE  RIInv'
    <2>1. Live /\ touches' \in Nat /\ row \in Rows
      BY <1>7, TouchCounts DEF RememberAgain
    <2>2. PICK imp \in StoredImportance(row.kind, asked, anchor) :
            Becomes([row EXCEPT !.imp = IF imp > row.imp THEN imp ELSE row.imp,
                                !.anchor = row.anchor \/ anchor, !.idle = 0])
      BY <1>7 DEF RememberAgain
    <2> DEFINE v == IF imp > row.imp THEN imp ELSE row.imp
               f == row.anchor \/ anchor
               r == [row EXCEPT !.imp = v, !.anchor = f, !.idle = 0]
    <2>3. r \in Rows /\ r.idle = 0 /\ r.count = row.count
      <3>1. v \in 0..34 /\ f \in BOOLEAN
        BY <2>1, <2>2, StoredWorth, RowFields
      <3> HIDE DEF v, f
      <3>2. r \in Rows
        BY <2>1, <3>1, Written, RowMany
      <3> QED  BY <2>1, <3>2, RowReads
    <2>4. Becomes(r)
      BY <2>2
    <2>5. jobs' \in 0..MaxJobs
      BY <1>7, Beside, Levels DEF RememberAgain
    <2>6. lowering' \in BOOLEAN
      <3>1. lowering' = (lowering \/ asked < Level.p30)
        BY <1>7 DEF RememberAgain
      <3>2. (lowering \/ asked < Level.p30) \in BOOLEAN
        OBVIOUS
      <3> QED  BY <3>1, <3>2, Zenon
    <2> HIDE DEF r
    <2> QED  BY <2>1, <2>3, <2>4, <2>5, <2>6, BecomesKept
  <1>8. ASSUME NEW n \in LinkCounts, Relink(n)  PROVE RIInv'
    <2>1. Live /\ touches' \in Nat /\ row \in Rows
      BY <1>8, TouchCounts DEF Relink
    <2> DEFINE r == [row EXCEPT !.links = n]
    <2>2. r \in Rows /\ r.idle = row.idle /\ r.count = row.count
      <3>1. r \in Rows
        BY <2>1, RowOne
      <3> QED  BY <2>1, <3>1 DEF Rows
    <2>3. Becomes(r) /\ jobs' \in 0..MaxJobs /\ lowering' \in BOOLEAN
      BY <1>8, Beside DEF Relink
    <2> HIDE DEF r
    <2> QED  BY <2>1, <2>2, <2>3, BecomesKept
  <1>9. ASSUME NEW force \in BOOLEAN, Forget(force)  PROVE RIInv'
    <2>1. Remove /\ UNCHANGED <<jobs, judging, lowering>> /\ touches' \in Nat
      BY <1>9, TouchCounts DEF Forget
    <2> QED  BY <2>1, RemoveKept
  <1> QED  BY <1>1, <1>2, <1>3, <1>4, <1>5, <1>6, <1>7, <1>8, <1>9 DEF Client

\* What the evaluator does to the row.
LEMMA EvaluatorKept == ASSUME RIInv, Evaluator  PROVE RIInv'
  <1>0. Live => row \in Rows
    BY Beside
  <1>1. CASE EvaluateStart \/ EvaluateSkip
    <2>1. Live /\ row \in Rows /\ UNCHANGED <<row, stage, taken, seen, lowering, recalled, steadfast>>
      BY <1>0, <1>1 DEF EvaluateStart, EvaluateSkip, Touched, cycle, history
    <2>2. jobs' \in 0..MaxJobs /\ touches' \in Nat
      BY <1>1, Beside, Levels DEF EvaluateStart, EvaluateSkip, Touched
    <2>3. judging' \in BOOLEAN
      BY <1>1, Beside DEF EvaluateStart, EvaluateSkip
    <2>4. row' = row /\ lowering' \in BOOLEAN /\ steadfast' \in BOOLEAN /\ (steadfast' => steadfast /\ row.anchor)
      BY <2>1, Beside
    <2> QED  BY <2>1, <2>2, <2>3, <2>4, WrittenKept
  <1>2. ASSUME NEW r \in Rows, Live, row' = r, r.idle = 0, r.count = row.count, r.anchor = row.anchor,
               UNCHANGED <<stage, taken, seen, lowering, recalled, steadfast>>,
               jobs' \in 0..MaxJobs, judging' \in BOOLEAN, touches' \in Nat
        PROVE  RIInv'
    <2>1. steadfast' \in BOOLEAN /\ (steadfast' => steadfast /\ r.anchor) /\ lowering' \in BOOLEAN
      BY <1>2, Beside
    <2> QED  BY <1>2, <2>1, WrittenKept
  <1>3. CASE EvaluateDrop
    <2>1. Live /\ touches' \in Nat /\ row \in Rows
      BY <1>3, TouchCounts DEF EvaluateDrop
    <2> DEFINE r == [row EXCEPT !.quality = "false", !.idle = 0]
    <2>2. r \in Rows /\ r.idle = 0 /\ r.count = row.count /\ r.anchor = row.anchor
      <3>1. r \in Rows
        BY <2>1, Written, RowMany
      <3> QED  BY <2>1, <3>1, RowReads
    <2>3. row' = r /\ UNCHANGED <<stage, taken, seen, lowering, recalled, steadfast>>
      BY <1>3 DEF EvaluateDrop, cycle, history
    <2>4. jobs' \in 0..MaxJobs /\ judging' \in BOOLEAN
      BY <1>3, Beside, Levels DEF EvaluateDrop
    <2> HIDE DEF r
    <2> QED  BY <1>2, <2>1, <2>2, <2>3, <2>4
  <1>4. ASSUME NEW score \in Requested, NEW action \in {"keep", "downgrade", "discard", "other"},
               EvaluateEnd(score, action)
        PROVE  RIInv'
    <2>1. Live /\ row \in Rows /\ touches' \in Nat /\ jobs' \in 0..MaxJobs /\ judging' \in BOOLEAN
      BY <1>0, <1>4, Beside DEF EvaluateEnd
    <2>2. score \in 0..34 /\ (IF score < Level.p30 THEN score ELSE Level.p30) \in 0..34 /\ Level.p10 \in 0..34
      BY Levels
    <2>3. \E imp \in 0..34, quality \in {"null", "true", "false"} :
            \/ Judged(row, score, action) = [row EXCEPT !.imp = imp, !.quality = quality, !.idle = 0]
            \/ Judged(row, score, action) = [row EXCEPT !.imp = imp, !.idle = 0]
      BY <2>2 DEF Judged
    <2>4. PICK imp \in 0..34, quality \in {"null", "true", "false"} :
            \/ row' = [row EXCEPT !.imp = imp, !.quality = quality, !.idle = 0]
            \/ row' = [row EXCEPT !.imp = imp, !.idle = 0]
      BY <1>4, <2>3 DEF EvaluateEnd
    <2>5. UNCHANGED <<stage, taken, seen, lowering, recalled, steadfast>>
      BY <1>4 DEF EvaluateEnd, cycle, history
    <2>6. CASE row' = [row EXCEPT !.imp = imp, !.quality = quality, !.idle = 0]
      <3> DEFINE r == [row EXCEPT !.imp = imp, !.quality = quality, !.idle = 0]
      <3>1. r \in Rows
        BY <2>1, Written, RowMany
      <3>2. r.idle = 0 /\ r.count = row.count /\ r.anchor = row.anchor
        BY <2>1, RowReads
      <3> HIDE DEF r
      <3>3. row' = r
        BY <2>6 DEF r
      <3> QED  BY <1>2, <2>1, <2>5, <3>1, <3>2, <3>3
    <2>7. CASE row' = [row EXCEPT !.imp = imp, !.idle = 0]
      <3> DEFINE r == [row EXCEPT !.imp = imp, !.idle = 0]
      <3>1. r \in Rows
        BY <2>1, Written, RowMany
      <3>2. r.idle = 0 /\ r.count = row.count /\ r.anchor = row.anchor
        BY <2>1, RowReads
      <3> HIDE DEF r
      <3>3. row' = r
        BY <2>7 DEF r
      <3> QED  BY <1>2, <2>1, <2>5, <3>1, <3>2, <3>3
    <2> QED  BY <2>4, <2>6, <2>7
  <1> QED  BY <1>1, <1>3, <1>4 DEF Evaluator

\* What the fields hold of a row after a stage wrote it.
LEMMA StageReads ==
  ASSUME NEW r \in Rows, NEW i, NEW m, NEW n, NEW v
  PROVE  /\ [r EXCEPT !.tier = v].idle = r.idle
         /\ [r EXCEPT !.tier = v].count = r.count
         /\ [r EXCEPT !.tier = v].imp = r.imp
         /\ [r EXCEPT !.tier = v].anchor = r.anchor
         /\ [r EXCEPT !.tier = v].valid = r.valid
         /\ [r EXCEPT !.tier = v].tier = v
         /\ [r EXCEPT !.imp = m, !.decayed = i].idle = r.idle
         /\ [r EXCEPT !.imp = m, !.decayed = i].count = r.count
         /\ [r EXCEPT !.valid = v, !.tier = n, !.imp = m].idle = r.idle
         /\ [r EXCEPT !.valid = v, !.tier = n, !.imp = m].count = r.count
         /\ [r EXCEPT !.valid = v].idle = r.idle
         /\ [r EXCEPT !.valid = v].count = r.count
         /\ [r EXCEPT !.count = n].idle = r.idle
         /\ [r EXCEPT !.count = n].imp = r.imp
         /\ [r EXCEPT !.count = n].tier = r.tier
         /\ [r EXCEPT !.count = n].valid = r.valid
         /\ [r EXCEPT !.count = n].count = n
         /\ [r EXCEPT !.low = v].idle = r.idle
         /\ [r EXCEPT !.low = v].count = r.count
         /\ [r EXCEPT !.low = v].imp = r.imp
         /\ [r EXCEPT !.low = v].tier = r.tier
         /\ [r EXCEPT !.low = v].valid = r.valid
         /\ [r EXCEPT !.anchor = v].idle = r.idle
         /\ [r EXCEPT !.anchor = v].count = r.count
         /\ [r EXCEPT !.anchor = v].imp = r.imp
         /\ [r EXCEPT !.anchor = v].tier = r.tier
         /\ [r EXCEPT !.anchor = v].valid = r.valid
         /\ [r EXCEPT !.anchor = v].anchor = v
         /\ [r EXCEPT !.imp = m].idle = r.idle
         /\ [r EXCEPT !.imp = m].count = r.count
         /\ [r EXCEPT !.imp = m].anchor = r.anchor
  <1>1. [r EXCEPT !.tier = v].idle = r.idle
    BY DEF Rows
  <1>2. [r EXCEPT !.tier = v].count = r.count
    BY DEF Rows
  <1>3. [r EXCEPT !.tier = v].imp = r.imp
    BY DEF Rows
  <1>4. [r EXCEPT !.tier = v].anchor = r.anchor
    BY DEF Rows
  <1>5. [r EXCEPT !.tier = v].valid = r.valid
    BY DEF Rows
  <1>6. [r EXCEPT !.tier = v].tier = v
    BY DEF Rows
  <1>7. [r EXCEPT !.imp = m, !.decayed = i].idle = r.idle
    BY DEF Rows
  <1>8. [r EXCEPT !.imp = m, !.decayed = i].count = r.count
    BY DEF Rows
  <1>9. [r EXCEPT !.valid = v, !.tier = n, !.imp = m].idle = r.idle
    BY DEF Rows
  <1>10. [r EXCEPT !.valid = v, !.tier = n, !.imp = m].count = r.count
    BY DEF Rows
  <1>11. [r EXCEPT !.valid = v].idle = r.idle
    BY DEF Rows
  <1>12. [r EXCEPT !.valid = v].count = r.count
    BY DEF Rows
  <1>13. [r EXCEPT !.count = n].idle = r.idle
    BY DEF Rows
  <1>14. [r EXCEPT !.count = n].imp = r.imp
    BY DEF Rows
  <1>15. [r EXCEPT !.count = n].tier = r.tier
    BY DEF Rows
  <1>16. [r EXCEPT !.count = n].valid = r.valid
    BY DEF Rows
  <1>17. [r EXCEPT !.count = n].count = n
    BY DEF Rows
  <1>18. [r EXCEPT !.low = v].idle = r.idle
    BY DEF Rows
  <1>19. [r EXCEPT !.low = v].count = r.count
    BY DEF Rows
  <1>20. [r EXCEPT !.low = v].imp = r.imp
    BY DEF Rows
  <1>21. [r EXCEPT !.low = v].tier = r.tier
    BY DEF Rows
  <1>22. [r EXCEPT !.low = v].valid = r.valid
    BY DEF Rows
  <1>23. [r EXCEPT !.anchor = v].idle = r.idle
    BY DEF Rows
  <1>24. [r EXCEPT !.anchor = v].count = r.count
    BY DEF Rows
  <1>25. [r EXCEPT !.anchor = v].imp = r.imp
    BY DEF Rows
  <1>26. [r EXCEPT !.anchor = v].tier = r.tier
    BY DEF Rows
  <1>27. [r EXCEPT !.anchor = v].valid = r.valid
    BY DEF Rows
  <1>28. [r EXCEPT !.anchor = v].anchor = v
    BY DEF Rows
  <1>29. [r EXCEPT !.imp = m].idle = r.idle
    BY DEF Rows
  <1>30. [r EXCEPT !.imp = m].count = r.count
    BY DEF Rows
  <1>31. [r EXCEPT !.imp = m].anchor = r.anchor
    BY DEF Rows
  <1> QED  BY <1>1, <1>2, <1>3, <1>4, <1>5, <1>6, <1>7, <1>8, <1>9, <1>10, <1>11, <1>12, <1>13, <1>14, <1>15, <1>16, <1>17, <1>18, <1>19, <1>20, <1>21, <1>22, <1>23, <1>24, <1>25, <1>26, <1>27, <1>28, <1>29, <1>30, <1>31

\* Where a row goes when its tier is looked at: an anchor never leaves the permanent tier.
LEMMA Transition ==
  ASSUME NEW r \in Rows, NEW s,
         s = LET promoted == IF r.kind = "preference" \/ r.links >= 5 \/ Merit(r)
                             THEN [r EXCEPT !.tier = "permanent"] ELSE r
             IN IF Chilled(promoted) \/ Paroled(promoted)
                THEN [promoted EXCEPT !.tier = "cold"] ELSE promoted
  PROVE  \E t \in Tiers : s = [r EXCEPT !.tier = t] /\ (r.anchor /\ r.tier = "permanent" => t = "permanent")
  <1>1. r = [r EXCEPT !.tier = r.tier] /\ r.tier \in Tiers
    BY RowFields DEF Rows
  <1>2. \A t, u : [[r EXCEPT !.tier = t] EXCEPT !.tier = u] = [r EXCEPT !.tier = u]
    OBVIOUS
  <1>3. \A q \in Rows : q.tier = "permanent" /\ q.anchor => ~Chilled(q) /\ ~Paroled(q)
    BY DEF Chilled, Paroled
  <1> DEFINE p == IF r.kind = "preference" \/ r.links >= 5 \/ Merit(r)
                  THEN [r EXCEPT !.tier = "permanent"] ELSE r
  <1>4. s = IF Chilled(p) \/ Paroled(p) THEN [p EXCEPT !.tier = "cold"] ELSE p
    OBVIOUS
  <1>5. PICK t \in Tiers : p = [r EXCEPT !.tier = t] /\ (r.tier = "permanent" => t = "permanent")
    BY <1>1, Written
  <1> HIDE DEF p
  <1>6. p \in Rows /\ p.tier = t /\ p.anchor = r.anchor
    BY <1>5, RowOne, StageReads
  <1>7. [p EXCEPT !.tier = "cold"] = [r EXCEPT !.tier = "cold"]
    BY <1>2, <1>5
  <1>8. r.anchor /\ r.tier = "permanent" => s = p
    BY <1>3, <1>4, <1>5, <1>6
  <1>9. CASE s = p
    BY <1>5, <1>9
  <1>10. CASE s = [p EXCEPT !.tier = "cold"] /\ ~(r.anchor /\ r.tier = "permanent")
    BY <1>7, <1>10, Written
  <1> QED  BY <1>4, <1>8, <1>9, <1>10

\* What the stages of the cycle do to the row.
LEMMA CycleKept == ASSUME RIInv, Cycle  PROVE RIInv'
  <1>0. Live => row \in Rows
    BY Beside
  <1>1. CASE TransitionTTL
    <2>1. Live /\ row \in Rows
      BY <1>0, <1>1 DEF TransitionTTL, At
    <2>2. PICK t \in Tiers : Leaves([row EXCEPT !.tier = t])
      BY <1>1, <2>1, Transition DEF TransitionTTL
    <2> DEFINE r == [row EXCEPT !.tier = t]
    <2>3. r \in Rows /\ r.idle = row.idle /\ r.count = row.count
      BY <2>1, RowOne, StageReads
    <2> HIDE DEF r
    <2>4. Leaves(r)
      BY <2>2 DEF r
    <2> QED  BY <2>1, <2>3, <2>4, LeavesKept
  <1>2. CASE DecayImportance
    <2>1. Live /\ row \in Rows
      BY <1>0, <1>2 DEF DecayImportance, At
    <2>2. CASE Leaves(row)
      BY <2>1, <2>2, LeavesKept
    <2>3. ASSUME NEW loss \in Loss(row), Leaves([row EXCEPT !.imp = Lower(@, loss), !.decayed = 0])
          PROVE  RIInv'
      <3> DEFINE m == Lower(row.imp, loss)
                 r == [row EXCEPT !.imp = m, !.decayed = 0]
      <3>1. m \in 0..34
        BY <2>1, LossCounts, RowFields, Worth
      <3>2. Leaves(r)
        BY <2>3
      <3> HIDE DEF m
      <3>3. r \in Rows
        BY <2>1, <3>1, Written, RowMany
      <3>4. r.idle = row.idle /\ r.count = row.count
        BY <2>1, StageReads
      <3> HIDE DEF r
      <3> QED  BY <2>1, <3>2, <3>3, <3>4, LeavesKept
    <2> QED  BY <1>2, <2>2, <2>3 DEF DecayImportance
  <1>3. CASE SelectExpired
    <2>1. Live /\ row \in Rows
      BY <1>0, <1>3 DEF SelectExpired, At
    <2>2. CASE Expired(row)
      <3>1. Reads("delete") /\ ~row.anchor /\ touches' \in Nat
        BY <1>3, <2>2, Beside DEF SelectExpired, Expired
      <3> QED  BY <2>1, <3>1, ReadsKept DEF Commits
    <2>3. CASE ~Expired(row)
      BY <1>3, <2>1, <2>3, LeavesKept DEF SelectExpired
    <2> QED  BY <2>2, <2>3
  <1>4. CASE DeleteTaken
    <2>1. Remove /\ UNCHANGED <<jobs, judging, lowering>> /\ touches' \in Nat
      BY <1>4, Beside DEF DeleteTaken
    <2> QED  BY <2>1, RemoveKept
  <1>5. ASSUME Live, NEW write \in Commits, NEW fit, MayTake(fit, write), fit => ~row.anchor
        PROVE  RIInv'
    <2>1. CASE Leaves(row)
      BY <1>0, <1>5, <2>1, LeavesKept
    <2>2. CASE Touched /\ fit /\ Reads(write)
      BY <1>5, <2>2, TouchCounts, ReadsKept
    <2> QED  BY <1>5, <2>1, <2>2 DEF MayTake
  <1>6. CASE SelectSplit
    BY <1>5, <1>6 DEF SelectSplit, At, Commits
  <1>7. CASE CommitSplit
    <2>1. Live /\ row \in Rows
      BY <1>0, <1>7 DEF CommitSplit, At
    <2>2. PICK by \in {13, 14} :
            Leaves([row EXCEPT !.valid = FALSE, !.tier = "cold",
                               !.imp = IF Lower(row.imp, by) > Level.p20 THEN Lower(row.imp, by)
                                       ELSE Level.p20])
      BY <1>7 DEF CommitSplit
    <2> DEFINE m == IF Lower(row.imp, by) > Level.p20 THEN Lower(row.imp, by) ELSE Level.p20
               r == [row EXCEPT !.valid = FALSE, !.tier = "cold", !.imp = m]
    <2>3. m \in 0..34
      <3>1. Lower(row.imp, by) \in 0..34
        BY <2>1, <2>2, RowFields, Worth
      <3> QED  BY <3>1, Levels
    <2>4. Leaves(r)
      BY <2>2
    <2> HIDE DEF m
    <2>5. r \in Rows
      BY <2>1, <2>3, Written, RowMany
    <2>6. r.idle = row.idle /\ r.count = row.count
      BY <2>1, StageReads
    <2> HIDE DEF r
    <2> QED  BY <2>1, <2>4, <2>5, <2>6, LeavesKept
  <1>8. CASE SelectSimilar
    BY <1>5, <1>8 DEF SelectSimilar, At, Commits
  <1>9. CASE CommitSimilar
    <2>1. Live /\ row \in Rows
      BY <1>0, <1>9 DEF CommitSimilar
    <2>2. CASE Leaves([row EXCEPT !.valid = FALSE])
      <3> DEFINE r == [row EXCEPT !.valid = FALSE]
      <3>1. r \in Rows /\ r.idle = row.idle /\ r.count = row.count
        BY <2>1, Written, RowOne, StageReads
      <3> HIDE DEF r
      <3>2. Leaves(r)
        BY <2>2 DEF r
      <3> QED  BY <2>1, <3>1, <3>2, LeavesKept
    <2>3. ASSUME NEW n \in Sums(seen), row' = [row EXCEPT !.count = n],
                 recalled' = IF n = 0 THEN Never ELSE recalled,
                 steadfast' = row.anchor, Advance, UNCHANGED touches
          PROVE  RIInv'
      <3> DEFINE r == [row EXCEPT !.count = n]
      <3>1. n \in Counts
        BY <2>3 DEF Sums
      <3>2. r \in Rows
        BY <2>1, <3>1, RowOne
      <3>9. r.idle = row.idle /\ r.count = n
        BY <2>1, StageReads
      <3>3. r.anchor = row.anchor
        BY <2>1 DEF Rows
      <3>4. row' = r
        BY <2>3
      <3> HIDE DEF r
      <3>5. /\ stage' = NextStage(stage) /\ taken' = FALSE /\ seen' = 0
            /\ UNCHANGED <<jobs, judging, lowering, touches>>
        BY <2>3 DEF Advance
      <3>6. stage' \in Stages \ Commits /\ seen' \in Counts /\ taken' \in BOOLEAN
        BY <3>5, Beside, NextStages, Written
      <3>7. steadfast' = r.anchor /\ UNCHANGED <<judging, lowering>> /\ jobs' \in 0..MaxJobs /\ touches' \in Nat
        BY <2>3, <3>3, <3>5, Beside
      <3>8. recalled' \in 0..8 /\ r.idle <= recalled' /\ (r.count = 0 => recalled' = 8)
        <4>1. row.idle \in 0..8 /\ recalled \in 0..8 /\ row.idle <= recalled
          BY <2>1, Beside, RowFields
        <4> QED  BY <2>3, <3>9, <4>1 DEF Never
      <3> QED  BY <2>1, <3>2, <3>4, <3>6, <3>7, <3>8, LeftKept
    <2> QED  BY <1>9, <2>2, <2>3 DEF CommitSimilar
  <1>10. ASSUME NEW low \in BOOLEAN, UpdateUtilityScores(low)  PROVE RIInv'
    <2>1. Live /\ row \in Rows
      BY <1>0, <1>10 DEF UpdateUtilityScores, At
    <2> DEFINE r == [row EXCEPT !.low = low]
    <2>2. r \in Rows /\ r.idle = row.idle /\ r.count = row.count
      BY <2>1, RowOne, StageReads
    <2> HIDE DEF r
    <2>3. Leaves(r)
      BY <1>10 DEF UpdateUtilityScores, r
    <2> QED  BY <2>1, <2>2, <2>3, LeavesKept
  <1>11. CASE Requeue
    <2>1. Live /\ row \in Rows /\ stage = "requeue"
      BY <1>0, <1>11 DEF Requeue, At
    <2>2. /\ row' = row /\ steadfast' = row.anchor /\ stage' = NextStage(stage)
          /\ UNCHANGED <<taken, seen, judging, lowering, touches, recalled>>
      BY <1>11 DEF Requeue
    <2>3. jobs' \in 0..MaxJobs
      BY <1>11, Beside, Levels DEF Requeue
    <2>4. stage' \in Stages \ Commits /\ seen' \in Counts /\ taken' \in BOOLEAN
      BY <2>2, Beside, NextStages
    <2>5. recalled' \in 0..8 /\ row.idle <= recalled' /\ (row.count = 0 => recalled' = 8) /\ touches' \in Nat
      BY <2>1, <2>2, Beside
    <2>6. UNCHANGED <<judging, lowering>>
      BY <2>2
    <2> QED  BY <2>1, <2>2, <2>3, <2>4, <2>5, <2>6, LeftKept
  <1>12. CASE PromoteAnchors
    <2>1. Live /\ row \in Rows
      BY <1>0, <1>12 DEF PromoteAnchors, At
    <2> DEFINE r == [row EXCEPT !.anchor = TRUE]
    <2>2. r \in Rows /\ r.idle = row.idle /\ r.count = row.count
      BY <2>1, Written, RowOne, StageReads
    <2>3. Leaves(r) \/ Leaves(row)
      BY <1>12 DEF PromoteAnchors
    <2> HIDE DEF r
    <2> QED  BY <2>1, <2>2, <2>3, LeavesKept
  <1>13. CASE CalibrateFeedback
    <2>1. Live /\ row \in Rows
      BY <1>0, <1>13 DEF CalibrateFeedback, At
    <2>2. CASE Leaves(row)
      BY <2>1, <2>2, LeavesKept
    <2>3. CASE ~Leaves(row)
      <3>1. PICK imp \in {Raise(row.imp, 1), Raise(row.imp, 2), Lower(row.imp, 1), Lower(row.imp, 2)} :
              row' = [row EXCEPT !.imp = imp]
        BY <1>13, <2>3 DEF CalibrateFeedback
      <3>2. Touched /\ UNCHANGED <<stage, taken, seen, jobs, judging, lowering, recalled, steadfast>>
        BY <1>13, <2>3 DEF CalibrateFeedback, cycle, history
      <3> DEFINE r == [row EXCEPT !.imp = imp]
      <3>3. imp \in 0..34
        BY <2>1, <3>1, RowFields, Worth
      <3>4. r \in Rows /\ r.idle = row.idle /\ r.count = row.count /\ r.anchor = row.anchor
        BY <2>1, <3>3, RowOne, StageReads
      <3> HIDE DEF r
      <3>5. row' = r
        BY <3>1 DEF r
      <3>6. steadfast' \in BOOLEAN /\ (steadfast' => steadfast /\ r.anchor)
        BY <2>1, <3>2, <3>4, Beside
      <3>7. jobs' \in 0..MaxJobs /\ judging' \in BOOLEAN /\ lowering' \in BOOLEAN /\ touches' \in Nat
        BY <3>2, Beside, TouchCounts
      <3>8. UNCHANGED <<stage, taken, seen, recalled>>
        BY <3>2
      <3> QED  BY <2>1, <3>4, <3>5, <3>6, <3>7, <3>8, WrittenKept
    <2> QED  BY <2>2, <2>3
  <1>14. CASE CalibrateStale
    <2>1. Live /\ row \in Rows
      BY <1>0, <1>14 DEF CalibrateStale, At
    <2> DEFINE m == Lower(row.imp, 8)
               r == [row EXCEPT !.imp = m]
    <2>2. m \in 0..34
      BY <2>1, RowFields, Worth
    <2>3. Leaves(r) \/ Leaves(row)
      BY <1>14 DEF CalibrateStale
    <2> HIDE DEF m
    <2>4. r \in Rows /\ r.idle = row.idle /\ r.count = row.count
      BY <2>1, <2>2, RowOne, StageReads
    <2> HIDE DEF r
    <2> QED  BY <2>1, <2>3, <2>4, LeavesKept
  <1>15. CASE SelectReflections
    <2>1. Live /\ row \in Rows
      BY <1>0, <1>15 DEF SelectReflections, At
    <2>2. CASE Leaves(row)
      BY <2>1, <2>2, LeavesKept
    <2>3. CASE ~Leaves(row)
      <3>1. Reads("purge") /\ ~row.anchor /\ touches' \in Nat
        BY <1>15, <2>3, Beside DEF SelectReflections
      <3> QED  BY <2>1, <3>1, ReadsKept DEF Commits
    <2> QED  BY <2>2, <2>3
  <1> QED  BY <1>1, <1>2, <1>3, <1>4, <1>6, <1>7, <1>8, <1>9, <1>10, <1>11, <1>12, <1>13, <1>14, <1>15 DEF Cycle

\* Time passes, a cycle starts, or a stage passes the row by.
LEMMA TimeKept == ASSUME RIInv, Tick \/ StartCycle \/ StageMisses  PROVE RIInv'
  <1>0. Live => row \in Rows
    BY Beside
  <1>1. CASE Tick
    <2>1. Live /\ row \in Rows /\ touches' \in Nat
      BY <1>0, <1>1, Beside DEF Tick, Touched
    <2>2. /\ row' = [row EXCEPT !.age = Later(row.age), !.idle = Later(row.idle), !.decayed = Later(row.decayed)]
          /\ recalled' = Later(recalled) /\ UNCHANGED <<stage, taken, seen, jobs, judging, lowering, steadfast>>
      BY <1>1 DEF Tick
    <2>3. \A t \in 0..8 : Later(t) \in 0..8 /\ (\A u \in 0..8 : t <= u => Later(t) <= Later(u))
      BY DEF Later, MaxTicks
    <2>4. Later(row.age) \in 0..7
      BY <2>1, RowFields DEF Later, MaxTicks
    <2> DEFINE g == Later(row.age)
               i == Later(row.idle)
               d == Later(row.decayed)
               r == [row EXCEPT !.age = g, !.idle = i, !.decayed = d]
    <2>5. g \in 0..7 /\ i \in 0..8 /\ d \in 0..8
      BY <2>1, <2>3, <2>4, RowFields
    <2>6. i <= Later(recalled) /\ Later(recalled) \in 0..8 /\ (recalled = 8 => Later(recalled) = 8)
      <3>1. row.idle \in 0..8 /\ recalled \in 0..8 /\ row.idle <= recalled
        BY <2>1, Beside, RowFields
      <3>2. Later(8) = 8
        BY DEF Later, MaxTicks
      <3> QED  BY <2>3, <3>1, <3>2
    <2>7. row' = r
      BY <2>2
    <2> HIDE DEF g, i, d
    <2>8. r \in Rows
      BY <2>1, <2>5, RowMany
    <2>9. r.idle = i
      BY <2>1 DEF Rows
    <2>10. r.count = row.count
      BY <2>1 DEF Rows
    <2>11. r.anchor = row.anchor
      BY <2>1 DEF Rows
    <2> HIDE DEF r
    <2>12. TypeOK'
      <3>1. row' \in Rows \cup {Gone} /\ stage' \in Stages /\ taken' \in BOOLEAN /\ seen' \in Counts
        BY <2>2, <2>7, <2>8, Beside
      <3>2. recalled' \in 0..Never /\ jobs' \in 0..MaxJobs
        BY <2>2, <2>6, Beside DEF Never
      <3>3. judging' \in BOOLEAN /\ lowering' \in BOOLEAN /\ steadfast' \in BOOLEAN
        BY <2>2, Beside
      <3> QED  BY <2>1, <3>1, <3>2, <3>3, Zenon DEF TypeOK
    <2>13. Live' /\ Remembered'
      <3>1. row' # Gone
        BY <2>7, <2>8, RowFields
      <3>2. row'.idle <= recalled'
        BY <2>2, <2>6, <2>7, <2>9
      <3>3. row'.count = 0 => recalled' = Never
        BY <2>1, <2>2, <2>6, <2>7, <2>10, Beside DEF Never
      <3>4. steadfast' => row'.anchor
        BY <2>1, <2>2, <2>7, <2>11, Beside
      <3> QED  BY <3>1, <3>2, <3>3, <3>4 DEF Remembered, Live
    <2>14. stage' \in Commits => ~steadfast'
      BY <2>2, Beside
    <2> QED  BY <2>12, <2>13, <2>14 DEF RIInv
  <1>2. ASSUME Live, row' = row, recalled' = recalled, steadfast' = row.anchor,
               stage' \in Stages \ Commits, taken' \in BOOLEAN, seen' \in Counts, touches' \in Nat,
               UNCHANGED <<jobs, judging, lowering>>
        PROVE  RIInv'
    <2>1. recalled' \in 0..8 /\ row.idle <= recalled' /\ (row.count = 0 => recalled' = 8) /\ jobs' \in 0..MaxJobs
      BY <1>2, Beside
    <2> QED  BY <1>0, <1>2, <2>1, LeftKept
  <1>3. CASE StartCycle
    <2>1. /\ Live /\ row' = row /\ recalled' = recalled /\ steadfast' = row.anchor /\ stage' = "ttl"
          /\ UNCHANGED <<taken, seen, jobs, judging, lowering, touches>>
      BY <1>3 DEF StartCycle, At
    <2>2. stage' \in Stages \ Commits
      BY <2>1 DEF Stages, Commits
    <2> QED  BY <1>2, <2>1, <2>2, Beside
  <1>4. CASE StageMisses
    <2>1. /\ Live /\ row' = row /\ recalled' = recalled /\ steadfast' = row.anchor
          /\ stage' = NextStage(stage) /\ taken' = FALSE /\ seen' = 0 /\ touches' \in Nat
          /\ UNCHANGED <<jobs, judging, lowering>>
      BY <1>4, TouchCounts DEF StageMisses, Advance
    <2>2. stage' \in Stages \ Commits /\ seen' \in Counts /\ taken' \in BOOLEAN
      BY <2>1, Beside, NextStages, Written
    <2> QED  BY <1>2, <2>1, <2>2
  <1> QED  BY <1>1, <1>3, <1>4

\* Every step keeps the invariant.
LEMMA RetentionNext == RIInv /\ [Next]_vars => RIInv'
  <1> SUFFICES ASSUME RIInv, [Next]_vars  PROVE RIInv'
    OBVIOUS
  <1>1. CASE UNCHANGED vars
    BY <1>1 DEF vars, cycle, history, RIInv, TypeOK, Live, Remembered
  <1> QED  BY <1>1, TimeKept, ClientKept, EvaluatorKept, CycleKept DEF Next

\* Every reachable state satisfies the invariant.
LEMMA RetentionReached == Spec => []RIInv
  <1> QED  BY RetentionInit, RetentionNext, PTL DEF Spec

\* What the cycle does to a row that has been an anchor since the stage began.
LEMMA AnchorStep ==
  ASSUME RIInv, steadfast, Cycle
  PROVE  /\ row' # Gone /\ row'.imp >= row.imp
         /\ row.tier = "permanent" => row'.tier = "permanent"
         /\ row.valid => row'.valid
  <1>1. Live /\ row \in Rows /\ row.anchor /\ stage \notin Commits
    BY Beside
  <1>2. row.imp \in 0..34 /\ row # Gone
    BY <1>1, RowFields
  <1>3. CASE row' = row
    BY <1>2, <1>3
  <1>4. CASE TransitionTTL
    <2>1. PICK t \in Tiers : Leaves([row EXCEPT !.tier = t]) /\ (row.tier = "permanent" => t = "permanent")
      BY <1>1, <1>4, Transition DEF TransitionTTL
    <2> DEFINE r == [row EXCEPT !.tier = t]
    <2>2. r \in Rows
      BY <1>1, RowOne
    <2>3. r.imp = row.imp /\ r.valid = row.valid /\ r.tier = t
      BY <1>1, StageReads
    <2> HIDE DEF r
    <2>4. row' = r
      BY <2>1 DEF Leaves, r
    <2> QED  BY <1>2, <2>1, <2>2, <2>3, <2>4, RowFields
  <1>5. CASE DecayImportance
    BY <1>1, <1>3, <1>5 DEF DecayImportance, Leaves
  <1>6. CASE SelectExpired
    BY <1>1, <1>3, <1>6 DEF SelectExpired, Expired, Leaves
  <1>7. CASE DeleteTaken \/ CommitSplit \/ CommitSimilar
    BY <1>1, <1>7 DEF DeleteTaken, CommitSplit, CommitSimilar, At, Commits
  <1>8. CASE SelectSplit \/ SelectSimilar
    BY <1>3, <1>8 DEF SelectSplit, SelectSimilar, MayTake, Leaves, Reads
  <1>9. ASSUME NEW low \in BOOLEAN, UpdateUtilityScores(low)
        PROVE  /\ row' # Gone /\ row'.imp >= row.imp
               /\ row.tier = "permanent" => row'.tier = "permanent"
               /\ row.valid => row'.valid
    <2> DEFINE r == [row EXCEPT !.low = low]
    <2>1. r \in Rows
      BY <1>1, RowOne
    <2>2. r.imp = row.imp /\ r.valid = row.valid /\ r.tier = row.tier
      BY <1>1, StageReads
    <2> HIDE DEF r
    <2>3. row' = r
      BY <1>9 DEF UpdateUtilityScores, Leaves, r
    <2> QED  BY <1>2, <2>1, <2>2, <2>3, RowFields
  <1>10. CASE Requeue
    BY <1>3, <1>10 DEF Requeue
  <1>11. CASE PromoteAnchors
    <2> DEFINE r == [row EXCEPT !.anchor = TRUE]
    <2>1. r \in Rows
      BY <1>1, Written, RowOne
    <2>2. r.imp = row.imp /\ r.valid = row.valid /\ r.tier = row.tier
      BY <1>1, StageReads
    <2>3. row' = r \/ row' = row
      BY <1>11 DEF PromoteAnchors, Leaves
    <2> HIDE DEF r
    <2> QED  BY <1>2, <2>1, <2>2, <2>3, RowFields
  <1>12. CASE CalibrateFeedback
    BY <1>1, <1>3, <1>12 DEF CalibrateFeedback, Leaves
  <1>13. CASE CalibrateStale
    BY <1>1, <1>3, <1>13 DEF CalibrateStale, Stale, Leaves
  <1>14. CASE SelectReflections
    BY <1>1, <1>3, <1>14 DEF SelectReflections, Leaves
  <1> QED  BY <1>4, <1>5, <1>6, <1>7, <1>8, <1>9, <1>10, <1>11, <1>12, <1>13, <1>14 DEF Cycle

\* An anchor is safe from the cycle: a row that has been an anchor since the running stage
\* began is not deleted, and no stage lowers its importance or its tier or expires it.
THEOREM RetentionAnchors == Spec => AnchorKept
  <1>1. RIInv /\ [Next]_vars =>
          [steadfast /\ Cycle =>
             /\ row' # Gone
             /\ row'.imp >= row.imp
             /\ row.tier = "permanent" => row'.tier = "permanent"
             /\ row.valid => row'.valid]_vars
    BY AnchorStep
  <1> QED  BY <1>1, RetentionReached, PTL DEF Spec, AnchorKept

\* What the statement that takes a row for deletion knows of its recalls.
LEMMA TakenUnused ==
  ASSUME RIInv, Next, stage' \in {"delete", "purge"}, taken', ~taken
  PROVE  recalled > Days.d60 \/ row.mark # "plain"
  <1>1. Live /\ (SelectExpired \/ SelectReflections) /\ ~Leaves(row)
    <2>1. ~Tick /\ ~StartCycle /\ ~StageMisses
      BY DEF Tick, StartCycle, StageMisses, Advance
    <2>2. ~Client
      BY DEF Client, Recall, TouchLinked, LowerTier, DuplicateFound, Superseded, Amend, RememberAgain,
             Relink, Forget, Becomes, Remove, cycle
    <2>3. ~Evaluator
      BY DEF Evaluator, EvaluateStart, EvaluateSkip, EvaluateDrop, EvaluateEnd, cycle
    <2>4. \A r : ~Leaves(r)
      BY DEF Leaves, Advance
    <2>5. ~TransitionTTL /\ ~DecayImportance /\ ~DeleteTaken
      BY <2>4 DEF TransitionTTL, DecayImportance, DeleteTaken, Remove
    <2>6. ~CommitSplit /\ ~CommitSimilar
      BY <2>4 DEF CommitSplit, CommitSimilar, Advance
    <2>7. ~SelectSplit /\ ~SelectSimilar
      BY <2>4 DEF SelectSplit, SelectSimilar, MayTake, Reads
    <2>8. \A low \in BOOLEAN : ~UpdateUtilityScores(low)
      BY <2>4 DEF UpdateUtilityScores
    <2>9. ~Requeue /\ ~PromoteAnchors /\ ~CalibrateFeedback /\ ~CalibrateStale
      BY <2>4 DEF Requeue, PromoteAnchors, CalibrateFeedback, CalibrateStale, cycle
    <2>10. SelectExpired \/ SelectReflections
      BY <2>1, <2>2, <2>3, <2>5, <2>6, <2>7, <2>8, <2>9 DEF Next, Cycle
    <2> QED  BY <2>4, <2>10 DEF SelectExpired, SelectReflections, At
  <1>2. row.idle \in 0..8 /\ row.count \in Counts /\ recalled \in 0..8 /\ row.idle <= recalled
        /\ (row.count = 0 => recalled = 8) /\ Days.d60 = 2 /\ Days.d90 = 3
    BY <1>1, Beside, RowFields, Levels
  <1>3. CASE SelectExpired
    <2>1. Expired(row)
      BY <1>1, <1>3 DEF SelectExpired
    <2>2. row.idle > 2 \/ row.count = 0 \/ row.idle > 3 \/ row.mark = "resolved"
      BY <1>2, <2>1 DEF Expired, Useless
    <2> QED  BY <1>2, <2>2
  <1>4. CASE SelectReflections
    BY <1>1, <1>4 DEF SelectReflections
  <1> QED  BY <1>1, <1>3, <1>4

\* A recall protects for 60 days: no statement of the cycle takes a row for deletion that was
\* recalled in that time, unless it is a resolved error or a reflection of a session.
THEOREM RetentionRecalls == Spec => RecallProtects
  <1>1. RIInv /\ [Next]_vars =>
          [stage' \in {"delete", "purge"} /\ taken' /\ ~taken =>
             recalled > Days.d60 \/ row.mark # "plain"]_vars
    BY TakenUnused
  <1> QED  BY <1>1, RetentionReached, PTL DEF Spec, RecallProtects

====
