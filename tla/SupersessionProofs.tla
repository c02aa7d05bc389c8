-------------------------- MODULE SupersessionProofs --------------------------
(***************************************************************************)
(* For any fragments, keys, contents, similarities, linkers and requests:  *)
(* a stage of the consolidation cycle that works on rows it read earlier,  *)
(* with a language model's answer in between, never expires a fragment in  *)
(* favour of one of another key (contradictions, supersessions) and never  *)
(* merges or compresses one that was always an anchor.  What a stage has   *)
(* read stays true for two reasons: an id is used once, so its key is      *)
(* fixed, and a row that was no anchor when it was read can not have       *)
(* been one always.                                                        *)
(***************************************************************************)
EXTENDS Supersession, TLAPS

\* The place the cycle is at, or returns to when it has expired a row
Stage == IF pc[Cons] \in {"expire", "resolve", "fail"} THEN task[Cons].then ELSE pc[Cons]

\* A row that was stored and has not been an anchor all along
Plain(i) == i \in used \ steadfast

OneKey(i, j) == i \in used /\ j \in used /\ key[i] = key[j]

\* Of one key, and i is not younger than j
InOrder(i, j) == OneKey(i, j) /\ born[i] <= born[j]

\* What holds of the rows
RowsFit ==
  /\ live \subseteq used /\ used \subseteq Ids
  /\ valid \subseteq live /\ emb \subseteq live /\ anchor \subseteq live
  /\ steadfast \subseteq anchor
  /\ DOMAIN key = Ids /\ born \in [Ids -> Nat] /\ DOMAIN link = Ids \X Ids
  /\ DOMAIN pc = Procs /\ DOMAIN frag = Procs /\ DOMAIN cands = Procs /\ DOMAIN task = Procs

\* What the stages that merge rows have read
MergesFit ==
  /\ Stage \in {"dedup", "merge", "compress"} => \A w \in list : Plain(w[1])
  /\ Stage = "merge" => Plain(frag[Cons]) /\ \A s \in cands[Cons] : Plain(s[1])
  /\ task[Cons].why \in {"dedup", "compress"} => Plain(task[Cons].old)

\* What the stages of the contradiction detector have read
PairsFit ==
  /\ Stage \in {"contra", "judge"} => list \subseteq used
  /\ Stage = "judge" => \A s \in cands[Cons] : OneKey(frag[Cons], s[1])
  /\ Stage = "super" => \A e \in list : InOrder(e[1], e[2])
  /\ task[Cons].why \in {"contradiction", "supersession"} => InOrder(task[Cons].old, task[Cons].by)

Returns ==
  task[Cons].then \in {"idle", "retro", "link", "merge", "compress", "judge", "resolved", "super"}

\* Links of a contradiction are made for a pair that was judged one.
Resolving == pc[Cons] = "resolve" => task[Cons].why = "contradiction"

WorkFits == MergesFit /\ PairsFit /\ Returns
IInv == RowsFit /\ WorkFits

---------------------------------------------------------------------------
\* ORDER BY similarity LIMIT n returns some of the rows.
LEMMA ClosestSubset ==
  ASSUME NEW S, NEW n, NEW T \in Closest(S, n)
  PROVE  T \subseteq S
BY DEF Closest

\* The cycle is none of the linkers and clients.
LEMMA ConsApart == Cons \in Procs /\ \A p \in Linkers \cup Clients : p \in Procs /\ p # Cons
BY SupersessionAssumption DEF Procs

\* What the cycle has read stays true while others change rows: ids are used
\* once, and an anchor flag set later does not make a row steadfast.
LEMMA OthersKeepWork ==
  ASSUME IInv,
         used \subseteq used', steadfast' \cap used \subseteq steadfast,
         \A i \in used : key'[i] = key[i] /\ born'[i] = born[i],
         pc'[Cons] = pc[Cons], frag'[Cons] = frag[Cons], cands'[Cons] = cands[Cons],
         task'[Cons] = task[Cons], list' = list
  PROVE  WorkFits'
<1>1. Stage' = Stage
  BY DEF Stage
<1>2. \A i : Plain(i) => Plain(i)'
  BY DEF Plain
<1>3. \A i, j : (OneKey(i, j) => OneKey(i, j)') /\ (InOrder(i, j) => InOrder(i, j)')
  BY DEF OneKey, InOrder
<1>4. MergesFit'
  BY <1>1, <1>2 DEF IInv, WorkFits, MergesFit
<1>5. PairsFit'
  BY <1>1, <1>3 DEF IInv, WorkFits, PairsFit
<1>6. Returns'
  BY DEF IInv, WorkFits, Returns
<1> QED BY <1>4, <1>5, <1>6 DEF WorkFits

\* What a step leaves true of the cycle if it leaves the rows' ids, keys and
\* anchors alone.
LEMMA SameFacts ==
  ASSUME UNCHANGED <<used, steadfast, key, born>>
  PROVE  /\ \A i : Plain(i)' <=> Plain(i)
         /\ \A i, j : (OneKey(i, j)' <=> OneKey(i, j)) /\ (InOrder(i, j)' <=> InOrder(i, j))
BY DEF Plain, OneKey, InOrder

---------------------------------------------------------------------------
\* Requests: remember, amend, forget and the vectors.
LEMMA ClientKeeps ==
  ASSUME IInv, ClientNext
  PROVE  IInv'
<1> USE ConsApart
<1>1. ASSUME NEW r \in Clients, NEW k, NEW c, NEW a \in BOOLEAN, NEW old, NEW i \in Ids \ used,
             Remember(r, k, c, a, old, i)
      PROVE  IInv'
  <2>1. /\ live' = live \cup {i} /\ used' = used \cup {i} /\ valid' = valid \cup {i}
        /\ key' = [key EXCEPT ![i] = k] /\ emb' = emb /\ list' = list /\ cands' = cands
        /\ anchor' = (IF a THEN anchor \cup {i} ELSE anchor)
        /\ steadfast' = (IF a THEN steadfast \cup {i} ELSE steadfast)
    BY <1>1 DEF Remember, cycle
  <2>b. \E t \in Nat : born' = [born EXCEPT ![i] = t]
    <3>1. PICK t \in {clock, clock + 1} \cap (1..MaxClock) : born' = [born EXCEPT ![i] = t]
      BY <1>1 DEF Remember
    <3>2. MaxClock \in Nat
      BY SupersessionAssumption
    <3>3. t \in Nat
      BY <3>1, <3>2
    <3> QED BY <3>1, <3>3
  <2>2. /\ DOMAIN pc' = Procs /\ DOMAIN frag' = Procs /\ DOMAIN task' = Procs
        /\ pc'[Cons] = pc[Cons] /\ frag'[Cons] = frag[Cons] /\ task'[Cons] = task[Cons]
    BY <1>1 DEF Remember, Relate, Goto, IInv, RowsFit
  <2>l. DOMAIN link' = Ids \X Ids
    BY <1>1 DEF Remember, Relate
  <2>3. RowsFit'
    BY <2>1, <2>b, <2>2, <2>l DEF IInv, RowsFit
  <2>4. WorkFits'
    BY <2>1, <2>b, <2>2, OthersKeepWork DEF IInv, RowsFit
  <2> QED BY <2>3, <2>4 DEF IInv
<1>2. ASSUME NEW r \in Clients, NEW k, NEW c, NEW a \in BOOLEAN, NEW old, NEW i \in Row(k, c),
             RememberAgain(r, k, c, a, old, i)
      PROVE  IInv'
  <2>1. /\ UNCHANGED <<live, used, key, born, emb, valid, cands, list, steadfast>>
        /\ anchor' = (IF a THEN anchor \cup {i} ELSE anchor) /\ i \in live
    BY <1>2 DEF RememberAgain, Row, cycle
  <2>2. /\ DOMAIN pc' = Procs /\ DOMAIN frag' = Procs /\ DOMAIN task' = Procs
        /\ pc'[Cons] = pc[Cons] /\ frag'[Cons] = frag[Cons] /\ task'[Cons] = task[Cons]
    BY <1>2 DEF RememberAgain, Relate, Goto, IInv, RowsFit
  <2>l. DOMAIN link' = Ids \X Ids
    BY <1>2 DEF RememberAgain, Relate
  <2>3. RowsFit'
    BY <2>1, <2>2, <2>l DEF IInv, RowsFit
  <2>4. WorkFits'
    BY <2>1, <2>2, OthersKeepWork
  <2> QED BY <2>3, <2>4 DEF IInv
<1>3. ASSUME NEW r \in Clients, Supersede(r)
      PROVE  IInv'
  <2>1. UNCHANGED <<rows, frag, cands, list, steadfast>>
    BY <1>3 DEF Supersede, cycle
  <2>2. /\ DOMAIN pc' = Procs /\ DOMAIN task' = Procs /\ DOMAIN link' = Ids \X Ids
        /\ pc'[Cons] = pc[Cons] /\ task'[Cons] = task[Cons]
    BY <1>3 DEF Supersede, Plan, Goto, CreateLink, IInv, RowsFit
  <2>3. RowsFit'
    BY <2>1, <2>2 DEF IInv, RowsFit, rows
  <2>4. WorkFits'
    BY <2>1, <2>2, OthersKeepWork DEF rows
  <2> QED BY <2>3, <2>4 DEF IInv
<1>4. ASSUME NEW i \in live, Forget(i) \/ Embed(i) \/ \E c \in Contents, a \in BOOLEAN : Amend(i, c, a)
      PROVE  IInv'
  <2>1. UNCHANGED <<used, key, born, pc, frag, cands, task, list>> /\ steadfast' \subseteq steadfast
    BY <1>4 DEF Forget, Embed, Amend, process, cycle
  <2>2. RowsFit'
    BY <1>4, <2>1 DEF IInv, RowsFit, Forget, Embed, Amend
  <2>3. WorkFits'
    BY <2>1, OthersKeepWork
  <2> QED BY <2>2, <2>3 DEF IInv
<1> QED BY <1>1, <1>2, <1>3, <1>4 DEF ClientNext

\* Runs of linkFragment, started by events or by retro_link.
LEMMA LinkerKeeps ==
  ASSUME IInv, NEW p \in Linkers \cup {Cons}, LinkerNext(p)
  PROVE  IInv'
<1> USE ConsApart
<1>1. /\ UNCHANGED <<used, key, born, live, valid, anchor, steadfast, list>> /\ emb' \subseteq live
      /\ DOMAIN pc' = Procs /\ DOMAIN frag' = Procs /\ DOMAIN cands' = Procs /\ DOMAIN task' = Procs
      /\ DOMAIN link' = Ids \X Ids
  BY DEF LinkerNext, OnEmbeddingReady, Gate, ReadCandidates, LinkCandidate, LinkingEnds, Plan, Goto,
     CreateLink, IInv, RowsFit, rows, cycle
<1>2. RowsFit'
  BY <1>1 DEF IInv, RowsFit
<1>3. CASE p # Cons
  <2>1. /\ pc'[Cons] = pc[Cons] /\ frag'[Cons] = frag[Cons] /\ cands'[Cons] = cands[Cons]
        /\ task'[Cons] = task[Cons]
    BY <1>3 DEF LinkerNext, OnEmbeddingReady, Gate, ReadCandidates, LinkCandidate, LinkingEnds, Plan,
       Goto, IInv, RowsFit
  <2> QED BY <1>1, <1>2, <2>1, OthersKeepWork DEF IInv
<1>4. CASE p = Cons
  <2>1. /\ \/ pc'[Cons] \in {"read", "link", "retro"} /\ task'[Cons] = task[Cons]
           \/ /\ pc'[Cons] = "expire" /\ task'[Cons].then \in {"retro", "link"}
              /\ task'[Cons].why \in {"duplicate", "linker"}
    <3>1. ~(\E i \in Ids : OnEmbeddingReady(p, i))
      BY <1>4 DEF OnEmbeddingReady, SupersessionAssumption, IInv, RowsFit
    <3>2. CASE Gate(p)
      BY <1>4, <3>2 DEF Gate, Plan, Goto, After, IInv, RowsFit
    <3>3. CASE ReadCandidates(p) \/ LinkingEnds(p)
      BY <1>4, <3>3 DEF ReadCandidates, LinkingEnds, Goto, After, IInv, RowsFit
    <3>4. CASE \E s \in cands[p] : LinkCandidate(p, s)
      BY <1>4, <3>4 DEF LinkCandidate, Plan, Goto, IInv, RowsFit
    <3> QED BY <3>1, <3>2, <3>3, <3>4 DEF LinkerNext
  <2>2. Stage' \in {"read", "link", "retro"}
    BY <2>1 DEF Stage
  <2>3. WorkFits'
    BY <1>1, <2>1, <2>2, SameFacts DEF IInv, WorkFits, MergesFit, PairsFit, Returns
  <2> QED BY <1>2, <2>3 DEF IInv
<1> QED BY <1>3, <1>4

---------------------------------------------------------------------------
\* The cycle's own steps leave every row's id, key and history alone.
LEMMA ConsRows ==
  ASSUME IInv, ConsNext
  PROVE  UNCHANGED <<used, key, born, steadfast>> /\ RowsFit'
<1>1. CASE \E S \in SUBSET live : PromoteAnchors(S)
  BY <1>1 DEF PromoteAnchors, process, IInv, RowsFit
<1>2. CASE ~(\E S \in SUBSET live : PromoteAnchors(S))
  <2>1. /\ UNCHANGED <<used, key, born, steadfast, live, valid, emb, anchor>> /\ DOMAIN link' = DOMAIN link
        /\ DOMAIN pc' = Procs /\ DOMAIN frag' = Procs /\ DOMAIN cands' = Procs /\ DOMAIN task' = Procs
    <3>1. CASE RetroLink \/ SemanticDedup \/ DetectContradictions \/ DetectSupersessions
      BY <3>1 DEF RetroLink, SemanticDedup, DetectContradictions, DetectSupersessions, StartStage, Goto,
         IInv, RowsFit, rows
    <3>2. CASE \/ \E S \in SUBSET live : \E i \in S : CompressOldFragments(S, i)
               \/ \E e \in pending : PendingPop(e)
      BY <3>2 DEF CompressOldFragments, PendingPop, Goto, IInv, RowsFit, rows
    <3>3. CASE \E w \in list : RetroNext(w) \/ ContraNext(w) \/ DedupNext(w) \/ CompressOne(w)
      BY <3>3 DEF RetroNext, ContraNext, DedupNext, CompressOne, Plan, Goto, IInv, RowsFit, rows
    <3>4. CASE \E w \in list : PendingJudge(w) \/ SupersessionYes(w) \/ SupersessionNo(w)
      BY <3>4 DEF PendingJudge, SupersessionYes, SupersessionNo, ResolveStart, CreateLink, Plan, Goto, IInv,
         RowsFit, rows, process
    <3>5. CASE \E s \in cands[Cons] : DedupMerge(s) \/ JudgeYes(s) \/ JudgeNo(s) \/ JudgeLater(s)
      BY <3>5 DEF DedupMerge, JudgeYes, JudgeNo, JudgeLater, ResolveStart, CreateLink, Plan, Goto, IInv,
         RowsFit, rows
    <3>6. CASE DedupFragmentEnds \/ JudgeEnds \/ ContraEnds \/ ResolveLink \/ StageEnds \/ StageFails
      BY <3>6 DEF DedupFragmentEnds, JudgeEnds, ContraEnds, ResolveLink, StageEnds, StageFails, CreateLink,
         Goto, IInv, RowsFit, rows
    <3> QED BY <1>2, <3>1, <3>2, <3>3, <3>4, <3>5, <3>6 DEF ConsNext
  <2> QED BY <2>1 DEF IInv, RowsFit
<1> QED BY <1>1, <1>2

\* A stage reads its list: rows of the topic without the anchors, rows with a
\* vector, or pairs of rows of one key.
LEMMA StartKeeps ==
  ASSUME IInv, UNCHANGED <<used, key, born, steadfast>>,
         \/ RetroLink \/ SemanticDedup \/ DetectContradictions \/ DetectSupersessions
         \/ \E S \in SUBSET live : \E i \in S : CompressOldFragments(S, i)
         \/ \E e \in pending : PendingPop(e)
  PROVE  WorkFits'
<1> USE ConsApart, SameFacts
<1>1. task' = task /\ cands' = cands /\ DOMAIN pc = Procs
  BY DEF RetroLink, SemanticDedup, DetectContradictions, DetectSupersessions, StartStage,
     CompressOldFragments, PendingPop, IInv, RowsFit
<1>2. CASE RetroLink \/ \E e \in pending : PendingPop(e)
  <2>1. Stage' \in {"retro", "pending"}
    BY <1>1, <1>2 DEF RetroLink, StartStage, PendingPop, Goto, Stage
  <2> QED BY <1>1, <2>1 DEF IInv, WorkFits, MergesFit, PairsFit, Returns
<1>3. CASE SemanticDedup \/ \E S \in SUBSET live : \E i \in S : CompressOldFragments(S, i)
  <2>1. Stage' \in {"dedup", "compress"}
    BY <1>1, <1>3 DEF SemanticDedup, StartStage, CompressOldFragments, Goto, Stage
  <2>2. \A w \in list' : w[1] \in (valid \cap emb) \ anchor
    BY <1>3 DEF SemanticDedup, StartStage, CompressOldFragments
  <2>3. \A w \in list' : Plain(w[1])
    BY <2>2 DEF Plain, IInv, RowsFit
  <2> QED BY <1>1, <2>1, <2>3 DEF IInv, WorkFits, MergesFit, PairsFit, Returns
<1>4. CASE DetectContradictions
  <2>1. Stage' = "contra"
    BY <1>1, <1>4 DEF DetectContradictions, StartStage, Goto, Stage
  <2>2. list' \subseteq used
    BY <1>4 DEF DetectContradictions, StartStage, IInv, RowsFit
  <2> QED BY <1>1, <2>1, <2>2 DEF IInv, WorkFits, MergesFit, PairsFit, Returns
<1>5. CASE DetectSupersessions
  <2>1. Stage' = "super"
    BY <1>1, <1>5 DEF DetectSupersessions, StartStage, Goto, Stage
  <2>2. list' \subseteq SupersessionPairs
    BY <1>5 DEF DetectSupersessions, StartStage
  <2>3. \A e \in list' : InOrder(e[1], e[2])
    BY <2>2 DEF SupersessionPairs, OneKey, InOrder, IInv, RowsFit
  <2> QED BY <1>1, <2>1, <2>3 DEF IInv, WorkFits, MergesFit, PairsFit, Returns
<1> QED BY <1>2, <1>3, <1>4, <1>5

\* The stages that merge rows take them from their lists, and candidates that
\* are no anchors when they are read.
LEMMA MergeKeeps ==
  ASSUME IInv, UNCHANGED <<used, key, born, steadfast>>,
         \/ \E w \in list : RetroNext(w) \/ DedupNext(w) \/ CompressOne(w)
         \/ \E s \in cands[Cons] : DedupMerge(s)
         \/ DedupFragmentEnds
  PROVE  WorkFits'
<1> USE ConsApart, SameFacts
<1>0. DOMAIN pc = Procs /\ DOMAIN frag = Procs /\ DOMAIN cands = Procs /\ DOMAIN task = Procs
  BY DEF IInv, RowsFit
<1>1. ASSUME NEW w \in list, RetroNext(w)
      PROVE  WorkFits'
  <2>1. Stage' \in {"retro", "gate"} /\ task' = task
    BY <1>0, <1>1 DEF RetroNext, Goto, Stage
  <2> QED BY <2>1 DEF IInv, WorkFits, MergesFit, PairsFit, Returns
<1>2. ASSUME NEW w \in list, DedupNext(w)
      PROVE  WorkFits'
  <2>1. Stage = "dedup" /\ task' = task /\ list' \subseteq list /\ Plain(w[1])
    BY <1>0, <1>2 DEF DedupNext, Stage, IInv, WorkFits, MergesFit
  <2>2. CASE w[1] \in seen
    <3>1. Stage' = "dedup"
      BY <1>2, <2>1, <2>2 DEF DedupNext, Stage
    <3> QED BY <2>1, <3>1 DEF IInv, WorkFits, MergesFit, PairsFit, Returns
  <2>3. CASE w[1] \notin seen
    <3> DEFINE S == {<<j, Sim[w[2]][content[j]]>> : j \in (valid \cap emb) \ {w[1]}}
    <3>1. PICK T \in Closest(S, 3) : cands' = [cands EXCEPT ![Cons] = {s \in T : Mergeable(s)}]
      BY <1>2, <2>3 DEF DedupNext
    <3>2. frag'[Cons] = w[1] /\ Stage' = "merge"
      BY <1>0, <1>2, <2>3 DEF DedupNext, Goto, Stage
    <3>3. T \subseteq S
      BY <3>1, ClosestSubset
    <3>4. \A s \in cands'[Cons] : s[1] \in valid /\ s[1] \notin anchor
      BY <1>0, <3>1, <3>3 DEF Mergeable
    <3>5. \A s \in cands'[Cons] : Plain(s[1])
      BY <3>4 DEF Plain, IInv, RowsFit
    <3> QED BY <2>1, <3>2, <3>5 DEF IInv, WorkFits, MergesFit, PairsFit, Returns
  <2> QED BY <2>2, <2>3
<1>3. ASSUME NEW w \in list, CompressOne(w)
      PROVE  WorkFits'
  <2>1. Stage = "compress" /\ list' \subseteq list /\ Plain(w[1])
    BY <1>0, <1>3 DEF CompressOne, Stage, IInv, WorkFits, MergesFit
  <2>2. Stage' = "compress" /\ task'[Cons].old = w[1] /\ task'[Cons].why = "compress"
        /\ task'[Cons].then = "compress"
    BY <1>0, <1>3 DEF CompressOne, Plan, Goto, Stage
  <2> QED BY <2>1, <2>2 DEF IInv, WorkFits, MergesFit, PairsFit, Returns
<1>4. ASSUME NEW s \in cands[Cons], DedupMerge(s)
      PROVE  WorkFits'
  <2>1. Stage = "merge" /\ list' = list /\ frag' = frag /\ cands'[Cons] \subseteq cands[Cons]
    BY <1>0, <1>4 DEF DedupMerge, Stage
  <2>2. Plain(frag[Cons]) /\ Plain(s[1])
    BY <2>1 DEF IInv, WorkFits, MergesFit
  <2>3. CASE s[1] \in seen
    <3>1. Stage' = "merge" /\ task' = task
      BY <1>4, <2>1, <2>3 DEF DedupMerge, Stage
    <3> QED BY <2>1, <3>1 DEF IInv, WorkFits, MergesFit, PairsFit, Returns
  <2>4. CASE s[1] \notin seen
    <3>1. /\ Stage' = "merge" /\ task'[Cons].old \in {frag[Cons], s[1]} /\ task'[Cons].why = "dedup"
          /\ task'[Cons].then = "merge"
      BY <1>0, <1>4, <2>4 DEF DedupMerge, Plan, Goto, Stage
    <3>2. Plain(task'[Cons].old)
      BY <2>2, <3>1
    <3> QED BY <2>1, <3>1, <3>2 DEF IInv, WorkFits, MergesFit, PairsFit, Returns
  <2> QED BY <2>3, <2>4
<1>5. ASSUME DedupFragmentEnds
      PROVE  WorkFits'
  <2>1. Stage = "merge" /\ Stage' = "dedup" /\ task' = task /\ list' = list
    BY <1>0, <1>5 DEF DedupFragmentEnds, Goto, Stage, cycle
  <2> QED BY <2>1 DEF IInv, WorkFits, MergesFit, PairsFit, Returns
<1> QED BY <1>1, <1>2, <1>3, <1>4, <1>5

\* The contradiction stages compare pairs of one key only, and keep the pair
\* while the model judges it and its links are made.
LEMMA JudgeKeeps ==
  ASSUME IInv, UNCHANGED <<used, key, born, steadfast>>,
         \/ \E w \in list : ContraNext(w)
         \/ \E s \in cands[Cons] : JudgeYes(s) \/ JudgeNo(s) \/ JudgeLater(s)
         \/ JudgeEnds \/ ContraEnds \/ ResolveLink
  PROVE  WorkFits'
<1> USE ConsApart, SameFacts
<1>0. DOMAIN pc = Procs /\ DOMAIN frag = Procs /\ DOMAIN cands = Procs /\ DOMAIN task = Procs
  BY DEF IInv, RowsFit
<1>1. ASSUME NEW w \in list, ContraNext(w)
      PROVE  WorkFits'
  <2>1. /\ Stage = "contra" /\ list \subseteq used /\ list' \subseteq list /\ w \in used
        /\ task' = task /\ frag'[Cons] = w
    BY <1>0, <1>1 DEF ContraNext, Stage, IInv, WorkFits, PairsFit
  <2>2. Stage' = "judge"
    BY <1>0, <1>1, <2>1 DEF ContraNext, Goto, Stage
  <2> DEFINE S == {s \in {<<j, Likeness(w, j)>> : j \in emb \ {w}} :
                      /\ w \in emb /\ s[2] > 85 /\ ContraScope(w, s[1])
                      /\ link[w, s[1]] # "contradicts" /\ link[s[1], w] # "contradicts"}
  <2>3. PICK T \in Closest(S, 3) : cands' = [cands EXCEPT ![Cons] = T]
    BY <1>1 DEF ContraNext
  <2>4. T \subseteq S
    BY <2>3, ClosestSubset
  <2>5. \A s \in cands'[Cons] : s[1] \in emb /\ key[w] = key[s[1]]
    <3>1. cands'[Cons] \subseteq S
      BY <1>0, <2>3, <2>4
    <3>2. ASSUME NEW s \in S PROVE s[1] \in emb /\ key[w] = key[s[1]]
      <4>1. PICK j \in emb \ {w} : s = <<j, Likeness(w, j)>>
        OBVIOUS
      <4>2. ContraScope(w, s[1])
        OBVIOUS
      <4> QED BY <4>1, <4>2 DEF ContraScope
    <3> HIDE DEF S
    <3> QED BY <3>1, <3>2
  <2>6. \A s \in cands'[Cons] : OneKey(frag'[Cons], s[1])
    BY <2>1, <2>5 DEF OneKey, IInv, RowsFit
  <2> QED BY <2>1, <2>2, <2>6 DEF IInv, WorkFits, MergesFit, PairsFit, Returns
<1>2. ASSUME NEW s \in cands[Cons], JudgeYes(s) \/ JudgeNo(s) \/ JudgeLater(s)
      PROVE  WorkFits'
  <2>1. Stage = "judge" /\ list' = list /\ frag' = frag /\ cands'[Cons] \subseteq cands[Cons]
    BY <1>0, <1>2 DEF JudgeYes, JudgeNo, JudgeLater, Stage
  <2>2. OneKey(frag[Cons], s[1])
    BY <2>1 DEF IInv, WorkFits, PairsFit
  <2>3. \/ Stage' = "judge" /\ task' = task
        \/ /\ Stage' = "judge" /\ task'[Cons].why = "contradiction" /\ task'[Cons].then = "judge"
           /\ InOrder(task'[Cons].old, task'[Cons].by)
    <3>1. CASE Resolvable(frag[Cons], s[1]) /\ JudgeYes(s)
      <4>1. Stage' = "judge" /\ task'[Cons].why = "contradiction" /\ task'[Cons].then = "judge"
        BY <1>0, <3>1 DEF JudgeYes, ResolveStart, Goto, Stage
      <4>2. \/ /\ task'[Cons].old = frag[Cons] /\ task'[Cons].by = s[1]
               /\ ~(born[frag[Cons]] > born[s[1]])
            \/ /\ task'[Cons].old = s[1] /\ task'[Cons].by = frag[Cons]
               /\ born[frag[Cons]] > born[s[1]]
        BY <1>0, <3>1 DEF JudgeYes, ResolveStart
      <4>3. born[frag[Cons]] \in Nat /\ born[s[1]] \in Nat
        BY <2>2 DEF OneKey, IInv, RowsFit
      <4> QED BY <2>2, <4>1, <4>2, <4>3 DEF OneKey, InOrder
    <3>2. CASE ~Resolvable(frag[Cons], s[1]) /\ JudgeYes(s)
      BY <2>1, <3>2 DEF JudgeYes, Stage
    <3>3. CASE JudgeNo(s) \/ JudgeLater(s)
      BY <2>1, <3>3 DEF JudgeNo, JudgeLater, Stage
    <3> QED BY <1>2, <3>1, <3>2, <3>3
  <2> QED BY <2>1, <2>2, <2>3 DEF IInv, WorkFits, MergesFit, PairsFit, Returns
<1>3. CASE JudgeEnds
  <2>1. Stage = "judge" /\ Stage' = "contra" /\ task' = task /\ list' = list
    BY <1>0, <1>3 DEF JudgeEnds, Goto, Stage, cycle
  <2> QED BY <2>1 DEF IInv, WorkFits, MergesFit, PairsFit, Returns
<1>4. CASE ContraEnds
  <2>1. Stage' = "idle" /\ task' = task
    BY <1>0, <1>4 DEF ContraEnds, Goto, Stage
  <2> QED BY <2>1 DEF IInv, WorkFits, MergesFit, PairsFit, Returns
<1>5. CASE ResolveLink
  <2>1. UNCHANGED <<frag, cands, list>> /\ Stage = task[Cons].then
    BY <1>0, <1>5 DEF ResolveLink, Stage
  <2>2. \/ task' = task /\ pc'[Cons] \in {"expire", "fail"}
        \/ task'[Cons] = NoTask /\ pc'[Cons] = "judge" /\ Stage = "judge"
    BY <1>0, <1>5, <2>1 DEF ResolveLink, Goto
  <2>3. CASE task' = task /\ pc'[Cons] \in {"expire", "fail"}
    <3>1. Stage' = Stage
      BY <2>1, <2>3 DEF Stage
    <3> QED BY <2>1, <2>3, <3>1 DEF IInv, WorkFits, MergesFit, PairsFit, Returns
  <2>4. CASE task'[Cons] = NoTask /\ pc'[Cons] = "judge" /\ Stage = "judge"
    <3>1. Stage' = Stage
      BY <2>4 DEF Stage
    <3> QED BY <2>1, <2>4, <3>1 DEF NoTask, IInv, WorkFits, MergesFit, PairsFit, Returns
  <2> QED BY <2>2, <2>3, <2>4
<1> QED BY <1>1, <1>2, <1>3, <1>4, <1>5

\* Pending pairs are read again before they are resolved; the supersession
\* stage has selected pairs of one key.
LEMMA PairKeeps ==
  ASSUME IInv, UNCHANGED <<used, key, born, steadfast>>,
         \E w \in list : PendingJudge(w) \/ SupersessionYes(w) \/ SupersessionNo(w)
  PROVE  WorkFits'
<1> USE ConsApart, SameFacts
<1>0. DOMAIN pc = Procs /\ DOMAIN frag = Procs /\ DOMAIN cands = Procs /\ DOMAIN task = Procs
  BY DEF IInv, RowsFit
<1>1. PICK e \in list : PendingJudge(e) \/ SupersessionYes(e) \/ SupersessionNo(e)
  OBVIOUS
<1>2. CASE PendingJudge(e)
  <2>1. CASE /\ CanLink(e[1], e[2]) /\ key[e[1]] = key[e[2]]
             /\ ResolveStart(e[1], e[2], "resolved")
    <3>1. /\ Stage' = "resolved" /\ task'[Cons].why = "contradiction" /\ task'[Cons].then = "resolved"
          /\ \/ task'[Cons].old = e[1] /\ task'[Cons].by = e[2] /\ ~(born[e[1]] > born[e[2]])
             \/ task'[Cons].old = e[2] /\ task'[Cons].by = e[1] /\ born[e[1]] > born[e[2]]
      BY <1>0, <2>1 DEF ResolveStart, Goto, Stage
    <3>2. /\ OneKey(e[1], e[2]) /\ OneKey(e[2], e[1])
          /\ born[e[1]] \in Nat /\ born[e[2]] \in Nat
      BY <2>1 DEF CanLink, OneKey, IInv, RowsFit
    <3>3. InOrder(task'[Cons].old, task'[Cons].by)
      BY <3>1, <3>2 DEF InOrder
    <3> QED BY <3>1, <3>3 DEF IInv, WorkFits, MergesFit, PairsFit, Returns
  <2>2. CASE Goto(Cons, "resolved") /\ UNCHANGED <<link, task>>
    <3>1. Stage' = "resolved" /\ task' = task
      BY <1>0, <2>2 DEF Goto, Stage
    <3> QED BY <3>1 DEF IInv, WorkFits, MergesFit, PairsFit, Returns
  <2> QED BY <1>2, <2>1, <2>2 DEF PendingJudge
<1>3. CASE SupersessionYes(e)
  <2>1. Stage = "super" /\ list' \subseteq list /\ InOrder(e[1], e[2])
    BY <1>0, <1>3 DEF SupersessionYes, Stage, IInv, WorkFits, PairsFit
  <2>2. /\ Stage' = "super" /\ task'[Cons].old = e[1] /\ task'[Cons].by = e[2]
        /\ task'[Cons].why = "supersession" /\ task'[Cons].then = "super"
    BY <1>0, <1>3 DEF SupersessionYes, Plan, Goto, Stage
  <2> QED BY <2>1, <2>2 DEF IInv, WorkFits, MergesFit, PairsFit, Returns
<1>4. CASE SupersessionNo(e)
  <2>1. Stage = "super" /\ Stage' = "super" /\ list' \subseteq list /\ task' = task
    BY <1>0, <1>4 DEF SupersessionNo, Stage, process
  <2> QED BY <2>1 DEF IInv, WorkFits, MergesFit, PairsFit, Returns
<1> QED BY <1>1, <1>2, <1>3, <1>4

\* A stage ends, fails, or is cut short by a restart of the server.
LEMMA EndKeeps ==
  ASSUME IInv, StageEnds \/ StageFails \/ Restart
  PROVE  IInv'
<1> USE ConsApart
<1>1. /\ UNCHANGED <<rows, link, steadfast>> /\ pc'[Cons] = "idle"
      /\ DOMAIN pc' = Procs /\ DOMAIN frag' = Procs /\ DOMAIN cands' = Procs /\ DOMAIN task' = Procs
      /\ task' = task \/ task'[Cons] = NoTask
  BY DEF StageEnds, StageFails, Restart, Goto, IInv, RowsFit
<1>2. RowsFit'
  BY <1>1 DEF rows, IInv, RowsFit
<1>3. Stage' = "idle"
  BY <1>1 DEF Stage
<1>4. WorkFits'
  BY <1>1, <1>3, SameFacts DEF rows, NoTask, IInv, WorkFits, MergesFit, PairsFit, Returns
<1> QED BY <1>2, <1>4 DEF IInv

\* A row is expired and the process returns to where it was.
LEMMA ExpireKeeps ==
  ASSUME IInv, NEW p \in Procs, Expire(p)
  PROVE  IInv'
<1> USE ConsApart
<1>1. /\ UNCHANGED <<live, used, key, born, link, emb, anchor, frag, cands, list, steadfast>> /\ valid' \subseteq valid
      /\ DOMAIN pc' = Procs /\ DOMAIN task' = Procs
  BY DEF Expire, Goto, cycle, IInv, RowsFit
<1>2. RowsFit'
  BY <1>1 DEF IInv, RowsFit
<1>3. CASE p # Cons
  <2>1. pc'[Cons] = pc[Cons] /\ task'[Cons] = task[Cons]
    BY <1>3 DEF Expire, Goto, IInv, RowsFit
  <2> QED BY <1>1, <1>2, <2>1, OthersKeepWork DEF IInv
<1>4. CASE p = Cons
  <2>1. pc'[Cons] = task[Cons].then /\ task'[Cons] = NoTask /\ pc[Cons] = "expire"
    BY <1>4 DEF Expire, Goto, IInv, RowsFit
  <2>2. Stage' = Stage
    BY <2>1 DEF Stage, IInv, WorkFits, Returns
  <2>3. WorkFits'
    BY <1>1, <2>1, <2>2, SameFacts DEF NoTask, IInv, WorkFits, MergesFit, PairsFit, Returns
  <2> QED BY <1>2, <2>3 DEF IInv
<1> QED BY <1>3, <1>4

---------------------------------------------------------------------------
\* Nothing is stored and nobody works at the start.
LEMMA InitIInv == Init => IInv
<1> SUFFICES ASSUME Init PROVE IInv
  OBVIOUS
<1>1. RowsFit
  BY DEF Init, RowsFit
<1>2. pc[Cons] = "idle" /\ task[Cons] = NoTask
  BY ConsApart DEF Init
<1>3. Stage = "idle"
  BY <1>2 DEF Stage
<1>4. WorkFits
  BY <1>2, <1>3 DEF WorkFits, MergesFit, PairsFit, Returns, NoTask
<1> QED BY <1>1, <1>4 DEF IInv

\* The invariant is inductive.
LEMMA NextIInv == IInv /\ [Next]_vars => IInv'
<1> SUFFICES ASSUME IInv, [Next]_vars PROVE IInv'
  OBVIOUS
<1>1. CASE ClientNext
  BY <1>1, ClientKeeps
<1>2. CASE \E p \in Linkers \cup {Cons} : LinkerNext(p)
  BY <1>2, LinkerKeeps
<1>3. CASE ConsNext
  <2>1. UNCHANGED <<used, key, born, steadfast>> /\ RowsFit'
    BY <1>3, ConsRows
  <2>2. CASE \E S \in SUBSET live : PromoteAnchors(S)
    <3>1. UNCHANGED <<pc, frag, cands, task, list>>
      BY <2>2 DEF PromoteAnchors, process, cycle
    <3> QED BY <2>1, <3>1, OthersKeepWork DEF IInv
  <2>3. CASE StageEnds \/ StageFails
    BY <2>3, EndKeeps
  <2>4. CASE ~(\E S \in SUBSET live : PromoteAnchors(S)) /\ ~StageEnds /\ ~StageFails
    <3>1. WorkFits'
      BY <1>3, <2>1, <2>4, StartKeeps, MergeKeeps, JudgeKeeps, PairKeeps DEF ConsNext
    <3> QED BY <2>1, <3>1 DEF IInv
  <2> QED BY <2>2, <2>3, <2>4
<1>4. CASE \E p \in Procs : Expire(p)
  BY <1>4, ExpireKeeps
<1>5. CASE Restart
  BY <1>5, EndKeeps
<1>6. CASE UNCHANGED vars
  <2>1. UNCHANGED <<rows, link, pc, frag, cands, task, list, steadfast>>
    BY <1>6 DEF vars, process, cycle
  <2>2. RowsFit'
    BY <2>1 DEF rows, IInv, RowsFit
  <2>3. WorkFits'
    BY <2>1, OthersKeepWork DEF rows, IInv
  <2> QED BY <2>2, <2>3 DEF IInv
<1> QED BY <1>1, <1>2, <1>3, <1>4, <1>5, <1>6 DEF Next

\* IInv holds in every reachable state.
LEMMA SpecIInv == Spec => []IInv
BY InitIInv, NextIInv, PTL DEF Spec

\* A pair is resolved only after it was judged a contradiction.
LEMMA ResolvingKeeps == IInv /\ Resolving /\ [Next]_vars => Resolving'
<1> SUFFICES ASSUME IInv, Resolving, [Next]_vars, pc'[Cons] = "resolve"
             PROVE  task'[Cons].why = "contradiction"
  BY DEF Resolving
<1> USE ConsApart
<1>0. DOMAIN pc = Procs /\ DOMAIN task = Procs
  BY DEF IInv, RowsFit
<1>1. CASE pc'[Cons] = pc[Cons] /\ task'[Cons] = task[Cons]
  BY <1>1 DEF Resolving
<1>2. CASE ClientNext
  <2>1. CASE \E r \in Clients, k \in Owners, c \in Contents, a \in BOOLEAN, old \in live \cup {NoId}, i \in Ids :
               Remember(r, k, c, a, old, i) \/ RememberAgain(r, k, c, a, old, i)
    BY <1>0, <1>1, <2>1 DEF Remember, RememberAgain, Relate, Goto
  <2>2. CASE \E r \in Clients : Supersede(r)
    BY <1>0, <1>1, <2>2 DEF Supersede, Plan, Goto
  <2>3. CASE \E i \in live : Forget(i) \/ Embed(i) \/ \E c \in Contents, a \in BOOLEAN : Amend(i, c, a)
    BY <1>1, <2>3 DEF Forget, Embed, Amend, process
  <2>4. live \subseteq Ids
    BY DEF IInv, RowsFit
  <2>5. \A k, c : Row(k, c) \subseteq live
    BY DEF Row
  <2> QED BY <1>2, <2>1, <2>2, <2>3, <2>4, <2>5 DEF ClientNext
<1>3. ASSUME NEW p \in Linkers \cup {Cons}, LinkerNext(p)
      PROVE  task'[Cons].why = "contradiction"
  <2>1. CASE p # Cons
    BY <1>0, <1>1, <1>3, <2>1 DEF LinkerNext, OnEmbeddingReady, Gate, ReadCandidates, LinkCandidate,
       LinkingEnds, Plan, Goto
  <2>2. CASE p = Cons
    <3>1. pc[Cons] # "resolve" /\ ~(\E i \in Ids : OnEmbeddingReady(p, i))
      BY <1>3, <2>2 DEF LinkerNext, OnEmbeddingReady, Gate, ReadCandidates, LinkCandidate, LinkingEnds
    <3> QED BY <1>0, <1>3, <2>2, <3>1 DEF LinkerNext, Gate, ReadCandidates, LinkCandidate, LinkingEnds,
               Plan, Goto, After
  <2> QED BY <2>1, <2>2
<1>4. CASE ConsNext
  <2>1. CASE \/ RetroLink \/ SemanticDedup \/ DetectContradictions \/ DetectSupersessions
             \/ \E S \in SUBSET live : \E i \in S : CompressOldFragments(S, i)
             \/ \E e \in pending : PendingPop(e)
    BY <1>0, <2>1 DEF RetroLink, SemanticDedup, DetectContradictions, DetectSupersessions, StartStage,
       CompressOldFragments, PendingPop, Goto
  <2>2. CASE \E S \in SUBSET live : PromoteAnchors(S)
    BY <1>1, <2>2 DEF PromoteAnchors, process
  <2>3. CASE \E w \in list : RetroNext(w) \/ ContraNext(w) \/ DedupNext(w) \/ CompressOne(w)
    BY <1>0, <2>3 DEF RetroNext, ContraNext, DedupNext, CompressOne, Plan, Goto
  <2>4. CASE \E w \in list : PendingJudge(w) \/ SupersessionYes(w) \/ SupersessionNo(w)
    BY <1>0, <2>4 DEF PendingJudge, SupersessionYes, SupersessionNo, ResolveStart, Plan, Goto, process
  <2>5. CASE \E s \in cands[Cons] : DedupMerge(s) \/ JudgeYes(s) \/ JudgeNo(s) \/ JudgeLater(s)
    BY <1>0, <2>5 DEF DedupMerge, JudgeYes, JudgeNo, JudgeLater, ResolveStart, Plan, Goto
  <2>6. CASE DedupFragmentEnds \/ JudgeEnds \/ ContraEnds \/ ResolveLink \/ StageEnds \/ StageFails
    BY <1>0, <2>6 DEF DedupFragmentEnds, JudgeEnds, ContraEnds, ResolveLink, StageEnds, StageFails, Goto
  <2> QED BY <1>4, <2>1, <2>2, <2>3, <2>4, <2>5, <2>6 DEF ConsNext
<1>5. ASSUME NEW p \in Procs, Expire(p)
      PROVE  task'[Cons].why = "contradiction"
  <2>1. CASE p # Cons
    BY <1>0, <1>1, <1>5, <2>1 DEF Expire, Goto
  <2>2. CASE p = Cons
    BY <1>0, <1>5, <2>2 DEF Expire, Goto, IInv, WorkFits, Returns
  <2> QED BY <2>1, <2>2
<1>6. CASE Restart
  BY <1>6 DEF Restart
<1>7. CASE UNCHANGED vars
  BY <1>1, <1>7 DEF vars, process
<1> QED BY <1>2, <1>3, <1>4, <1>5, <1>6, <1>7 DEF Next

\* Resolving holds in every reachable state.
LEMMA SpecResolving == Spec => [](IInv /\ Resolving)
<1>1. Init => Resolving
  BY ConsApart DEF Init, Resolving
<1> QED BY <1>1, InitIInv, NextIInv, ResolvingKeeps, PTL DEF Spec

\* Creation times are numbers.
LEMMA Younger == \A m, n \in Nat : n > m => m <= n
OBVIOUS

\* Who writes a superseded_by link, and for which pair.
LEMMA LinkStep ==
  ASSUME IInv, Resolving, [Next]_vars, NEW i \in Ids, NEW j \in Ids,
         link'[i, j] = "superseded_by", link[i, j] # "superseded_by",
         \A r \in Clients : pc[r] = "supersede" => pc'[r] = "supersede"
  PROVE  born[i] <= born[j]
<1> USE ConsApart
<1>0. /\ DOMAIN pc = Procs /\ DOMAIN link = Ids \X Ids /\ <<i, j>> \in Ids \X Ids
      /\ live \subseteq Ids /\ born \in [Ids -> Nat]
  BY DEF IInv, RowsFit
<1>1. CASE ClientNext
  <2>1. ASSUME NEW r, NEW k, NEW x, NEW old, Relate(r, k, x, old)
        PROVE  FALSE
    <3>1. PICK T : link' = [e \in Ids \X Ids |-> IF e[1] = x /\ e[2] \in T THEN "related" ELSE link[e]]
      BY <2>1 DEF Relate
    <3>2. link'[<<i, j>>] \in {"related", link[<<i, j>>]}
      BY <1>0, <3>1
    <3> QED BY <3>2
  <2>2. CASE \E r \in Clients : Supersede(r)
    BY <1>0, <2>2 DEF Supersede, Plan, Goto
  <2>3. CASE \E x \in live : Forget(x) \/ Embed(x) \/ \E c \in Contents, a \in BOOLEAN : Amend(x, c, a)
    BY <1>0, <2>3 DEF Forget, Embed, Amend
  <2>4. ASSUME NEW r, NEW k, NEW c, NEW a, NEW old, NEW x,
               Remember(r, k, c, a, old, x) \/ RememberAgain(r, k, c, a, old, x)
        PROVE  FALSE
    BY <2>1, <2>4 DEF Remember, RememberAgain
  <2> QED BY <1>1, <2>2, <2>3, <2>4 DEF ClientNext
<1>2. ASSUME NEW p \in Linkers \cup {Cons}, LinkerNext(p)
      PROVE  born[i] <= born[j]
  <2>1. link' # link
    OBVIOUS
  <2>2. PICK s \in cands[p] : LinkCandidate(p, s)
    BY <1>2, <2>1 DEF LinkerNext, OnEmbeddingReady, Gate, ReadCandidates, LinkingEnds
  <2>3. CanLink(s[1], frag[p]) /\ Newer(frag[p], s[1], s[2]) /\ CreateLink(s[1], frag[p], "superseded_by")
    BY <1>0, <2>1, <2>2 DEF LinkCandidate, CreateLink
  <2>4. i = s[1] /\ j = frag[p]
    BY <1>0, <2>3 DEF CreateLink
  <2>5. born[j] > born[i]
    BY <2>3, <2>4 DEF Newer
  <2>6. born[i] \in Nat /\ born[j] \in Nat
    BY <1>0
  <2> QED BY <2>5, <2>6, Younger
<1>3. CASE ConsNext
  <2>1. link' # link
    OBVIOUS
  <2>2. CASE \E s \in cands[Cons] : DedupMerge(s) \/ JudgeYes(s)
    BY <1>0, <2>1, <2>2 DEF DedupMerge, JudgeYes, ResolveStart, CreateLink
  <2>3. CASE \E e \in list : PendingJudge(e)
    BY <1>0, <2>1, <2>3 DEF PendingJudge, ResolveStart, CreateLink
  <2>4. CASE \E e \in list : SupersessionYes(e)
    <3>1. PICK e \in list : SupersessionYes(e)
      BY <2>4
    <3>2. i = e[1] /\ j = e[2]
      BY <1>0, <3>1 DEF SupersessionYes, CreateLink
    <3>3. InOrder(e[1], e[2])
      BY <3>1 DEF SupersessionYes, Stage, IInv, WorkFits, PairsFit
    <3> QED BY <3>2, <3>3 DEF InOrder
  <2>5. CASE ResolveLink
    <3>1. pc[Cons] = "resolve" /\ CreateLink(task[Cons].old, task[Cons].by, "superseded_by")
      BY <2>1, <2>5 DEF ResolveLink
    <3>2. i = task[Cons].old /\ j = task[Cons].by
      BY <1>0, <3>1 DEF CreateLink
    <3>3. InOrder(task[Cons].old, task[Cons].by)
      BY <3>1 DEF Resolving, IInv, WorkFits, PairsFit
    <3> QED BY <3>2, <3>3 DEF InOrder
  <2>6. CASE \/ RetroLink \/ SemanticDedup \/ DetectContradictions \/ DetectSupersessions
             \/ \E S \in SUBSET live : PromoteAnchors(S) \/ \E x \in S : CompressOldFragments(S, x)
             \/ \E e \in pending : PendingPop(e)
    BY <2>1, <2>6 DEF RetroLink, SemanticDedup, DetectContradictions, DetectSupersessions, StartStage,
       PromoteAnchors, CompressOldFragments, PendingPop
  <2>7. CASE \/ \E w \in list : RetroNext(w) \/ ContraNext(w) \/ DedupNext(w) \/ CompressOne(w) \/ SupersessionNo(w)
             \/ \E s \in cands[Cons] : JudgeNo(s) \/ JudgeLater(s)
    BY <2>1, <2>7 DEF RetroNext, ContraNext, DedupNext, CompressOne, SupersessionNo, JudgeNo, JudgeLater
  <2>8. CASE DedupFragmentEnds \/ JudgeEnds \/ ContraEnds \/ StageEnds \/ StageFails
    BY <2>1, <2>8 DEF DedupFragmentEnds, JudgeEnds, ContraEnds, StageEnds, StageFails
  <2> QED BY <1>3, <2>2, <2>3, <2>4, <2>5, <2>6, <2>7, <2>8 DEF ConsNext
<1>4. CASE (\E p \in Procs : Expire(p)) \/ Restart \/ UNCHANGED vars
  BY <1>4 DEF Expire, Restart, vars
<1> QED BY <1>1, <1>2, <1>3, <1>4 DEF Next

\* History is read along superseded_by links: unless a client asks for the link,
\* it never leads to an older fragment (SupersededByYounger), whichever stage or
\* linker creates it: the linker and resolveContradiction compare created_at,
\* detect_supersessions orders the pair, and created_at never changes.
THEOREM SupersessionOrder == Spec => SupersededByYounger
<1> DEFINE Step == \A i, j \in Ids :
          link'[i, j] = "superseded_by" /\ link[i, j] # "superseded_by"
          /\ (\A r \in Clients : pc[r] = "supersede" => pc'[r] = "supersede")
          => born[i] <= born[j]
<1>1. IInv /\ Resolving /\ [Next]_vars => [Step]_vars
  BY LinkStep
<1> QED BY <1>1, SpecResolving, PTL DEF Spec, SupersededByYounger

\* The contradiction and supersession stages expire a fragment only in favour of
\* one of the same key (DetectorKeepsTenants), for any number of rows, keys and
\* concurrent requests: the SELECTs of ContradictionDetector compare the keys
\* before the model is asked, and a row's key never changes afterwards.
THEOREM SupersessionTenants == Spec => DetectorKeepsTenants
<1> DEFINE Step == \A old \in Ids :
          Expires(Cons, old, {"contradiction", "supersession"}) => key[old] = key[task[Cons].by]
<1>1. IInv /\ [Next]_vars => [Step]_vars
  BY DEF IInv, WorkFits, PairsFit, OneKey, InOrder, Expires
<1> QED BY <1>1, SpecIInv, PTL DEF Spec, DetectorKeepsTenants

\* A fragment that has been an anchor since it was stored is never merged away
\* by semantic_dedup or compress_old_fragments (AnchorsExempt), though both
\* expire rows from lists they read before other requests went on.
THEOREM SupersessionAnchors == Spec => AnchorsExempt
<1> DEFINE Step == \A old \in Ids : Expires(Cons, old, {"dedup", "compress"}) => old \notin steadfast
<1>1. IInv /\ [Next]_vars => [Step]_vars
  BY DEF IInv, WorkFits, MergesFit, Plain, Expires
<1> QED BY <1>1, SpecIInv, PTL DEF Spec, AnchorsExempt
=============================================================================
