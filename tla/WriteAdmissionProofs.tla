------------------------ MODULE WriteAdmissionProofs ------------------------
(***************************************************************************)
(* For any clients, contents, limits, margins and requests: the lock on a  *)
(* key's row comes free and nobody waits for it in a circle, batches and   *)
(* atomic writes keep the quota, and the plain path exceeds it by fewer    *)
(* rows than there are requests.  The inductive invariant IInv says who    *)
(* holds the lock at which label, and that a transaction that counted      *)
(* still has room for what it has written and has left to write: nobody    *)
(* else can add a row while it holds the key.                              *)
(***************************************************************************)
EXTENDS WriteAdmission, FiniteSetTheorems, TLAPS

\* Between SELECT ... FOR UPDATE and the end of that transaction
Locking == {"checking", "countA", "countB", "countAtomic"}

\* On the way to the INSERT of a remember, after the exact check
Passed == {"gate", "insert", "share"}

Requested ==
  [pc : Labels, op : Ops \cup {"none"}, items : Seq(Items), wrote : SUBSET Items,
   seen : 0 .. Cardinality(Contents)]

Types ==
  /\ keyed \in BOOLEAN /\ atomic \in BOOLEAN /\ limit \in Limits /\ margin \in Margins
  /\ frag \in [Contents -> Rows]
  /\ keyLock \in Clients \cup {None}
  /\ usage = None \/ usage \in 0 .. Cardinality(Contents)
  /\ cl \in [Clients -> Requested]

\* Labels that only requests for an API key reach, and those no atomic one does
KeyLabels == Locking \cup {"check", "counted", "precise", "lockA", "lockB", "lockAtomic"}

Fits(c) ==
  /\ cl[c].pc \in KeyLabels => keyed
  /\ cl[c].pc \in {"check", "counted", "precise", "checking", "insert", "share"} =>
       ~(keyed /\ atomic /\ cl[c].op # "usage")
  /\ cl[c].pc \in Locking \/ (cl[c].pc = "rows" /\ keyed) => keyLock = c
  /\ cl[c].pc \notin {"share", "rows"} => cl[c].wrote = {}
  /\ cl[c].pc = "share" => cl[c].wrote = {Item(c)}
  /\ cl[c].pc \in {"check", "counted"} => cl[c].op = "usage" \/ Len(cl[c].items) = 1
  /\ cl[c].pc \in Passed \cup {"precise", "checking", "lockAtomic", "countAtomic"} =>
       cl[c].op # "usage" /\ Len(cl[c].items) = 1

LabelsFit == \A c \in Clients : Fits(c)

\* Rows that client c's transaction has made and not committed
Made(c) == {x \in Contents : HoldsRow(c, x) /\ frag[x].st = "none"}

RoomKept ==
  \A c \in Clients : keyed /\ cl[c].pc = "rows" =>
    Cardinality(Current \cup Made(c)) + Len(cl[c].items) <= limit

\* Requests that will insert without asking again
Bold == {c \in Clients : cl[c].pc \in Passed}

CountBounded ==
  keyed /\ margin >= limit =>
    IF atomic THEN Count <= limit ELSE Count + Cardinality(Bold) < limit + Cardinality(Clients)

Local == Types /\ LabelsFit /\ LocksReleased
IInv == Local /\ RoomKept /\ CountBounded

---------------------------------------------------------------------------
\* Rows of the owner are finitely many: a row more or less changes the number
\* by one (Count of _getUsage and of the exact checks).
LEMMA RowCount ==
  ASSUME NEW S \in SUBSET Contents, NEW x \in Contents
  PROVE  /\ IsFiniteSet(S) /\ Cardinality(S) \in 0 .. Cardinality(Contents) /\ Cardinality(S) \in Nat
         /\ x \notin S => Cardinality(S \cup {x}) = Cardinality(S) + 1
         /\ x \in S => Cardinality(S \ {x}) = Cardinality(S) - 1
<1>1. IsFiniteSet(S) /\ Cardinality(S) <= Cardinality(Contents)
  BY FiniteAssumption, FS_Subset
<1>2. Cardinality(S) \in Nat /\ Cardinality(Contents) \in Nat
  BY <1>1, FiniteAssumption, FS_CardinalityType
<1>3. x \notin S => Cardinality(S \cup {x}) = Cardinality(S) + 1
  BY <1>1, FS_AddElement
<1>4. x \in S => Cardinality(S \ {x}) = Cardinality(S) - 1
  BY <1>1, FS_RemoveElement
<1> QED BY <1>1, <1>2, <1>3, <1>4

\* The number of current rows fits the type of the cache.
LEMMA CountType == Count \in 0 .. Cardinality(Contents) /\ Count \in Nat
<1>1. CASE Contents = {}
  <2>1. Current = {}
    BY <1>1 DEF Current
  <2> QED BY <1>1, <2>1, FS_EmptySet DEF Count
<1>2. CASE Contents # {}
  <2>1. PICK x \in Contents : TRUE
    BY <1>2
  <2>2. Current \in SUBSET Contents
    BY DEF Current
  <2> QED BY <2>1, <2>2, RowCount, FS_CardinalityType, FiniteAssumption DEF Count
<1> QED BY <1>1, <1>2

\* What a step of client c has to see to: the other clients' labels are as they
\* were, and a lock one of them holds is not touched.
LEMMA OthersFit ==
  ASSUME Local, NEW c \in Clients, keyed' = keyed, atomic' = atomic, Fits(c)',
         \A d \in Clients : d # c => cl'[d] = cl[d] /\ (keyLock = d => keyLock' = d)
  PROVE  LabelsFit'
<1> SUFFICES ASSUME NEW d \in Clients, d # c PROVE Fits(d)'
  BY DEF LabelsFit
<1> QED BY DEF Local, LabelsFit, Fits, Item

\* A client that has been answered.
LEMMA IdleType == Idle \in Requested
<1>1. Cardinality(Contents) \in Nat
  BY FiniteAssumption, FS_CardinalityType
<1> QED BY <1>1 DEF Idle, Requested, Labels

\* Nothing is asked, held or cached at the start.
LEMMA InitLocal == Init => Local
<1> SUFFICES ASSUME Init PROVE Local
  OBVIOUS
<1>2. Types
  BY IdleType DEF Init, Types, NoRow, Rows
<1>3. LabelsFit /\ LocksReleased
  BY DEF Init, LabelsFit, Fits, LocksReleased, Idle, KeyLabels, Locking, Passed
<1> QED BY <1>2, <1>3 DEF Local

\* The next item of a request is one of the items the model allows.
LEMMA ItemType ==
  ASSUME Local, NEW c \in Clients, cl[c].items # <<>>
  PROVE  /\ Item(c) \in Items /\ Item(c).x \in Contents
         /\ Tail(cl[c].items) \in Seq(Items) /\ Len(Tail(cl[c].items)) = Len(cl[c].items) - 1
<1>1. cl[c].items \in Seq(Items)
  BY DEF Local, Types, Requested
<1>2. Item(c) \in Items
  BY <1>1 DEF Item
<1>3. Item(c).x \in Contents
  BY <1>2 DEF Items
<1> QED BY <1>1, <1>2, <1>3

\* A batch is cut to the room that is left.
LEMMA TrimType ==
  ASSUME Local, NEW c \in Clients, Room(c) > 0
  PROVE  /\ Trim(cl[c].items, Room(c)) \in Seq(Items)
         /\ Len(Trim(cl[c].items, Room(c))) <= Room(c)
<1>1. cl[c].items \in Seq(Items)
  BY DEF Local, Types, Requested
<1>2. Room(c) \in Nat
  BY CountType, LimitAssumption DEF Room, Local, Types
<1> QED BY <1>1, <1>2 DEF Trim

\* What follows from a count of the usage.
LEMMA DecideType ==
  ASSUME Local, NEW c \in Clients, NEW n, Decide(c, n)
  PROVE  \E q \in Requested : cl' = [cl EXCEPT ![c] = q]
<1>1. cl[c] \in Requested /\ Idle \in Requested /\ Cardinality(Contents) \in Nat
  BY IdleType, FiniteAssumption, FS_CardinalityType DEF Local, Types
<1> QED BY <1>1 DEF Decide, Answer, Requested, Labels

\* A commit leaves rows of the right type, and touches none that was there.
LEMMA CommittedType ==
  ASSUME Local, NEW c \in Clients
  PROVE  Committed(c) \in [Contents -> Rows]
<1> SUFFICES ASSUME NEW x \in Contents, frag[x].st = "none" /\ HoldsRow(c, x)
             PROVE  LET w == CHOOSE v \in cl[c].wrote : v.x = x
                    IN  [st |-> "live", ik |-> IF Stores(c) THEN w.ik ELSE None, by |-> w.ik] \in Rows
  BY DEF Committed, Local, Types
<1> DEFINE w == CHOOSE v \in cl[c].wrote : v.x = x
<1>1. w \in cl[c].wrote
  BY DEF HoldsRow
<1>2. w \in Items
  BY <1>1 DEF Local, Types, Requested
<1> QED BY <1>2 DEF Items, Rows

\* A request that goes on: only its label changes.
LEMMA GoStep ==
  ASSUME Local, NEW c \in Clients, NEW label, Go(c, label)
  PROVE  /\ cl'[c].pc = label /\ cl'[c].op = cl[c].op /\ cl'[c].items = cl[c].items
         /\ cl'[c].wrote = cl[c].wrote /\ Item(c)' = Item(c)
<1>1. cl \in [Clients -> Requested] /\ cl[c] \in Requested
  BY DEF Local, Types
<1>2. /\ cl'[c].pc = label /\ cl'[c].op = cl[c].op /\ cl'[c].items = cl[c].items
      /\ cl'[c].wrote = cl[c].wrote
  BY <1>1 DEF Go, Requested
<1> QED BY <1>2 DEF Item

\* A request of the clients has the types the model gives it.
LEMMA StartKeeps ==
  ASSUME Local, NEW c \in Clients, NEW r \in Requests, Usage(c, r) \/ Remember(c, r) \/ Batch(c, r)
  PROVE  Local'
<1>1. r \in [op : Ops, items : Seq(Items)] /\ (r.op = "remember" => Len(r.items) = 1)
  BY RequestAssumption
<1>2. Cardinality(Contents) \in Nat
  BY FiniteAssumption, FS_CardinalityType
<1>3. PICK label \in Labels :
         cl' = [cl EXCEPT ![c] = [pc |-> label, op |-> r.op, items |-> r.items, wrote |-> {}, seen |-> 0]]
  BY DEF Usage, Remember, Batch, Start, Labels
<1>4. [pc |-> label, op |-> r.op, items |-> r.items, wrote |-> {}, seen |-> 0] \in Requested
  BY <1>1, <1>2 DEF Requested
<1>5. Types'
  BY <1>3, <1>4 DEF Local, Types, Usage, Remember, Batch
<1>6. LabelsFit'
  <2>1. CASE Usage(c, r)
    <3>1. Fits(c)'
      BY <2>1 DEF Local, Types, Usage, Start, Fits, KeyLabels, Locking, Passed
    <3> QED BY <2>1, <3>1, OthersFit DEF Local, Types, Usage, Start
  <2>2. CASE Remember(c, r)
    <3>1. Fits(c)'
      BY <1>1, <2>2 DEF Local, Types, Remember, Start, Fits, KeyLabels, Locking, Passed
    <3> QED BY <2>2, <3>1, OthersFit DEF Local, Types, Remember, Start
  <2>3. CASE Batch(c, r)
    <3>1. Fits(c)'
      BY <2>3 DEF Local, Types, Batch, Start, Fits, KeyLabels, Locking, Passed
    <3> QED BY <2>3, <3>1, OthersFit DEF Local, Types, Batch, Start
  <2> QED BY <2>1, <2>2, <2>3
<1>7. LocksReleased'
  BY NamesAssumption DEF Local, Types, Requested, LocksReleased, Usage, Remember, Batch, Start
<1> QED BY <1>5, <1>6, <1>7 DEF Local

\* The quota check (_getUsage, _checkPrecise) takes the lock of its key and gives it back.
LEMMA CheckKeeps ==
  ASSUME Local, NEW c \in Clients,
         GetUsageCached(c) \/ GetUsage(c) \/ CacheUsage(c) \/ CheckLock(c) \/ CheckCount(c)
  PROVE  Local'
<1>0. cl[c] \in Requested /\ Idle \in Requested
  BY IdleType DEF Local, Types
<1>1. CASE GetUsageCached(c)
  <2>0. \E q \in Requested : cl' = [cl EXCEPT ![c] = q]
    BY <1>0, <1>1, DecideType DEF GetUsageCached, Local, Types
  <2>1. Types'
    BY <1>0, <1>1, <2>0 DEF Local, Types, Requested, GetUsageCached
  <2>2. Fits(c)'
    <3>1. CASE cl[c].op = "usage"
      BY <1>1, <3>1 DEF Local, Types, Fits, KeyLabels, Locking, Passed, Idle, GetUsageCached, Decide, Answer
    <3>2. CASE cl[c].op # "usage"
      <4>1. cl[c].pc \in {"check", "counted"} /\ keyed /\ ~atomic /\ Len(cl[c].items) = 1 /\ cl[c].wrote = {}
        BY <1>1, <3>2 DEF Local, LabelsFit, Fits, KeyLabels, Types, GetUsageCached
      <4>2. /\ cl'[c].pc \in {"gate", "precise"} /\ cl'[c].op = cl[c].op
            /\ cl'[c].items = cl[c].items /\ cl'[c].wrote = cl[c].wrote /\ keyed' = keyed /\ atomic' = atomic
        BY <1>0, <1>1, <3>2 DEF Local, Types, Requested, GetUsageCached, Decide
      <4> QED BY <3>2, <4>1, <4>2 DEF Fits, KeyLabels, Locking, Passed
    <3> QED BY <3>1, <3>2
  <2>3. LabelsFit'
    BY <1>1, <2>2, OthersFit, NamesAssumption DEF Local, Types, LabelsFit, Fits, Locking, GetUsageCached, Decide, Answer
  <2>4. LocksReleased'
    BY <1>1, NamesAssumption DEF Local, Types, Requested, LabelsFit, Fits, LocksReleased, KeyLabels, Locking, Idle, GetUsageCached, Decide, Answer
  <2> QED BY <2>1, <2>3, <2>4 DEF Local
<1>2. CASE GetUsage(c)
  <2>1. Types'
    BY <1>0, <1>2, CountType DEF Local, Types, Requested, Labels, GetUsage
  <2>2. Fits(c)'
    <3>1. /\ cl[c].pc = "check" /\ Fits(c) /\ keyed' = keyed /\ atomic' = atomic
          /\ cl'[c].pc = "counted" /\ cl'[c].op = cl[c].op /\ cl'[c].items = cl[c].items
          /\ cl'[c].wrote = cl[c].wrote
      BY <1>0, <1>2 DEF Local, Types, Requested, LabelsFit, GetUsage
    <3> QED BY <3>1 DEF Fits, KeyLabels, Locking, Passed
  <2>3. LabelsFit'
    BY <1>2, <2>2, OthersFit, NamesAssumption DEF Local, Types, LabelsFit, Fits, Locking, GetUsage
  <2>4. LocksReleased'
    BY <1>2, NamesAssumption DEF Local, Types, Requested, LabelsFit, Fits, LocksReleased, KeyLabels, Locking, Idle, GetUsage
  <2> QED BY <2>1, <2>3, <2>4 DEF Local
<1>3. CASE CacheUsage(c)
  <2>0. \E q \in Requested : cl' = [cl EXCEPT ![c] = q]
    BY <1>0, <1>3, DecideType DEF CacheUsage, Local, Types
  <2>1. Types'
    BY <1>0, <1>3, <2>0 DEF Local, Types, Requested, CacheUsage
  <2>2. Fits(c)'
    <3>1. CASE cl[c].op = "usage"
      BY <1>3, <3>1 DEF Local, Types, Fits, KeyLabels, Locking, Passed, Idle, CacheUsage, Decide, Answer
    <3>2. CASE cl[c].op # "usage"
      <4>1. cl[c].pc \in {"check", "counted"} /\ keyed /\ ~atomic /\ Len(cl[c].items) = 1 /\ cl[c].wrote = {}
        BY <1>3, <3>2 DEF Local, LabelsFit, Fits, KeyLabels, Types, CacheUsage
      <4>2. /\ cl'[c].pc \in {"gate", "precise"} /\ cl'[c].op = cl[c].op
            /\ cl'[c].items = cl[c].items /\ cl'[c].wrote = cl[c].wrote /\ keyed' = keyed /\ atomic' = atomic
        BY <1>0, <1>3, <3>2 DEF Local, Types, Requested, CacheUsage, Decide
      <4> QED BY <3>2, <4>1, <4>2 DEF Fits, KeyLabels, Locking, Passed
    <3> QED BY <3>1, <3>2
  <2>3. LabelsFit'
    BY <1>3, <2>2, OthersFit, NamesAssumption DEF Local, Types, LabelsFit, Fits, Locking, CacheUsage, Decide, Answer
  <2>4. LocksReleased'
    BY <1>3, NamesAssumption DEF Local, Types, Requested, LabelsFit, Fits, LocksReleased, KeyLabels, Locking, Idle, CacheUsage, Decide, Answer
  <2> QED BY <2>1, <2>3, <2>4 DEF Local
<1>4. CASE CheckLock(c)
  <2>1. Types'
    BY <1>0, <1>4 DEF Local, Types, Requested, Labels, CheckLock, TakeKey, Go
  <2>2. Fits(c)'
    <3>1. /\ cl[c].pc = "precise" /\ Fits(c) /\ keyed' = keyed /\ atomic' = atomic
          /\ keyLock' = c /\ Go(c, "checking")
      BY <1>4 DEF Local, LabelsFit, CheckLock, TakeKey
    <3> QED BY <3>1, GoStep DEF Fits, KeyLabels, Locking, Passed
  <2>3. LabelsFit'
    BY <1>4, <2>2, OthersFit, NamesAssumption DEF Local, Types, LabelsFit, Fits, Locking, CheckLock, TakeKey, Go
  <2>4. LocksReleased'
    BY <1>4, NamesAssumption DEF Local, Types, Requested, LabelsFit, Fits, LocksReleased, KeyLabels, Locking, Idle, CheckLock, TakeKey, Go
  <2> QED BY <2>1, <2>3, <2>4 DEF Local
<1>5. CASE CheckCount(c)
  <2>0. \E q \in Requested : cl' = [cl EXCEPT ![c] = q]
    BY <1>0, <1>5 DEF Requested, Labels, CheckCount, Answer, Go
  <2>1. Types'
    BY <1>0, <1>5, <2>0 DEF Local, Types, CheckCount, Released
  <2>2. Fits(c)'
    <3>1. cl[c].pc = "checking" /\ Fits(c) /\ keyed' = keyed /\ atomic' = atomic
      BY <1>5 DEF Local, LabelsFit, CheckCount
    <3>2. CASE Go(c, "gate")
      BY <3>1, <3>2, GoStep DEF Fits, KeyLabels, Locking, Passed
    <3>3. CASE Answer(c)
      BY <3>1, <3>3 DEF Local, Types, Answer, Idle, Fits, KeyLabels, Locking, Passed
    <3> QED BY <1>5, <3>2, <3>3 DEF CheckCount
  <2>3. LabelsFit'
    BY <1>5, <2>2, OthersFit, NamesAssumption DEF Local, Types, LabelsFit, Fits, Locking, CheckCount, Answer, Go, Released
  <2>4. LocksReleased'
    BY <1>5, NamesAssumption DEF Local, Types, Requested, LabelsFit, Fits, LocksReleased, KeyLabels, Locking, Idle, CheckCount, Answer, Go, Released
  <2> QED BY <2>1, <2>3, <2>4 DEF Local
<1> QED BY <1>1, <1>2, <1>3, <1>4, <1>5

\* The way of a remember from the policy rules to its row.
LEMMA RememberKeeps ==
  ASSUME Local, NEW c \in Clients,
         PolicyPass(c) \/ PolicyViolation(c) \/ InsertKnown(c) \/ InsertNew(c) \/ InsertCommit(c) \/ AtomicLock(c) \/ AtomicCount(c)
  PROVE  Local'
<1>0. cl[c] \in Requested /\ Idle \in Requested
  BY IdleType DEF Local, Types
<1>1. CASE PolicyPass(c)
  <2>1. Types'
    BY <1>0, <1>1 DEF Local, Types, Requested, Labels, PolicyPass, Go
  <2>2. Fits(c)'
    <3>1. /\ cl[c].pc = "gate" /\ Fits(c) /\ keyed' = keyed /\ atomic' = atomic
          /\ Go(c, IF keyed /\ atomic THEN "lockAtomic" ELSE "insert")
      BY <1>1 DEF Local, LabelsFit, PolicyPass
    <3> QED BY <3>1, GoStep DEF Fits, KeyLabels, Locking, Passed
  <2>3. LabelsFit'
    BY <1>1, <2>2, OthersFit, NamesAssumption DEF Local, Types, LabelsFit, Fits, Locking, PolicyPass, Go
  <2>4. LocksReleased'
    BY <1>1, NamesAssumption DEF Local, Types, Requested, LabelsFit, Fits, LocksReleased, KeyLabels, Locking, Idle, PolicyPass, Go
  <2> QED BY <2>1, <2>3, <2>4 DEF Local
<1>2. CASE PolicyViolation(c)
  <2>1. Types'
    BY <1>0, <1>2 DEF Local, Types, Requested, Labels, PolicyViolation, Answer
  <2>2. Fits(c)'
    BY <1>2 DEF Local, Types, Requested, LabelsFit, Fits, KeyLabels, Locking, Passed, Idle, PolicyViolation, Answer
  <2>3. LabelsFit'
    BY <1>2, <2>2, OthersFit, NamesAssumption DEF Local, Types, LabelsFit, Fits, Locking, PolicyViolation, Answer
  <2>4. LocksReleased'
    BY <1>2, NamesAssumption DEF Local, Types, Requested, LabelsFit, Fits, LocksReleased, KeyLabels, Locking, Idle, PolicyViolation, Answer
  <2> QED BY <2>1, <2>3, <2>4 DEF Local
<1>3. CASE InsertKnown(c)
  <2>1. Types'
    BY <1>0, <1>3 DEF Local, Types, Requested, Labels, InsertKnown, Answer
  <2>2. Fits(c)'
    BY <1>3 DEF Local, Types, Requested, LabelsFit, Fits, KeyLabels, Locking, Passed, Idle, InsertKnown, Answer
  <2>3. LabelsFit'
    BY <1>3, <2>2, OthersFit, NamesAssumption DEF Local, Types, LabelsFit, Fits, Locking, InsertKnown, Answer
  <2>4. LocksReleased'
    BY <1>3, NamesAssumption DEF Local, Types, Requested, LabelsFit, Fits, LocksReleased, KeyLabels, Locking, Idle, InsertKnown, Answer
  <2> QED BY <2>1, <2>3, <2>4 DEF Local
<1>4. CASE InsertNew(c)
  <2>f. ~(keyed /\ atomic) /\ cl[c].op # "usage" /\ Len(cl[c].items) = 1
    BY <1>4 DEF Local, LabelsFit, Fits, Passed, InsertNew
  <2>0. cl[c].items # <<>>
    BY <2>f
  <2>1. Types'
    <3>1. {Item(c)} \in SUBSET Items
      BY <2>0, ItemType
    <3>2. cl' = [cl EXCEPT ![c].pc = "share", ![c].wrote = {Item(c)}]
      BY <1>4 DEF InsertNew
    <3>3. cl' \in [Clients -> Requested]
      BY <1>0, <3>1, <3>2 DEF Local, Types, Requested, Labels
    <3> QED BY <1>4, <3>3 DEF Local, Types, InsertNew
  <2>2. Fits(c)'
    <3>1. /\ keyed' = keyed /\ atomic' = atomic /\ cl'[c].pc = "share" /\ cl'[c].op = cl[c].op
          /\ cl'[c].items = cl[c].items /\ cl'[c].wrote = {Item(c)}
      BY <1>0, <1>4 DEF Local, Types, Requested, InsertNew
    <3>2. Item(c)' = Item(c)
      BY <3>1 DEF Item
    <3> QED BY <2>f, <3>1, <3>2 DEF Fits, KeyLabels, Locking, Passed
  <2>3. LabelsFit'
    BY <1>4, <2>2, OthersFit, NamesAssumption DEF Local, Types, LabelsFit, Fits, Locking, InsertNew, Item
  <2>4. LocksReleased'
    BY <1>4, NamesAssumption DEF Local, Types, Requested, LabelsFit, Fits, LocksReleased, KeyLabels, Locking, Idle, InsertNew, Item
  <2> QED BY <2>1, <2>3, <2>4 DEF Local
<1>5. CASE InsertCommit(c)
  <2>1. Types'
    BY <1>0, <1>5, CommittedType DEF Local, Types, Requested, Labels, InsertCommit, Answer
  <2>2. Fits(c)'
    BY <1>5 DEF Local, Types, Requested, LabelsFit, Fits, KeyLabels, Locking, Passed, Idle, InsertCommit, Answer
  <2>3. LabelsFit'
    BY <1>5, <2>2, OthersFit, NamesAssumption DEF Local, Types, LabelsFit, Fits, Locking, InsertCommit, Answer
  <2>4. LocksReleased'
    BY <1>5, NamesAssumption DEF Local, Types, Requested, LabelsFit, Fits, LocksReleased, KeyLabels, Locking, Idle, InsertCommit, Answer
  <2> QED BY <2>1, <2>3, <2>4 DEF Local
<1>6. CASE AtomicLock(c)
  <2>1. Types'
    BY <1>0, <1>6 DEF Local, Types, Requested, Labels, AtomicLock, TakeKey, Go
  <2>2. Fits(c)'
    BY <1>6 DEF Local, Types, Requested, LabelsFit, Fits, KeyLabels, Locking, Passed, Idle, AtomicLock, TakeKey, Go
  <2>3. LabelsFit'
    BY <1>6, <2>2, OthersFit, NamesAssumption DEF Local, Types, LabelsFit, Fits, Locking, AtomicLock, TakeKey, Go
  <2>4. LocksReleased'
    BY <1>6, NamesAssumption DEF Local, Types, Requested, LabelsFit, Fits, LocksReleased, KeyLabels, Locking, Idle, AtomicLock, TakeKey, Go
  <2> QED BY <2>1, <2>3, <2>4 DEF Local
<1>7. CASE AtomicCount(c)
  <2>0. \E q \in Requested : cl' = [cl EXCEPT ![c] = q]
    BY <1>0, <1>7 DEF Requested, Labels, AtomicCount, Answer, Go
  <2>1. Types'
    BY <1>0, <1>7, <2>0 DEF Local, Types, AtomicCount, Released
  <2>2. Fits(c)'
    BY <1>7 DEF Local, Types, Requested, LabelsFit, Fits, KeyLabels, Locking, Passed, Idle, AtomicCount, Answer, Go, Released
  <2>3. LabelsFit'
    BY <1>7, <2>2, OthersFit, NamesAssumption DEF Local, Types, LabelsFit, Fits, Locking, AtomicCount, Answer, Go, Released
  <2>4. LocksReleased'
    BY <1>7, NamesAssumption DEF Local, Types, Requested, LabelsFit, Fits, LocksReleased, KeyLabels, Locking, Idle, AtomicCount, Answer, Go, Released
  <2> QED BY <2>1, <2>3, <2>4 DEF Local
<1> QED BY <1>1, <1>2, <1>3, <1>4, <1>5, <1>6, <1>7

\* The two checks of a batch and its transaction, which ends in a commit or a rollback.
LEMMA BatchKeeps ==
  ASSUME Local, NEW c \in Clients,
         PhaseALock(c) \/ PhaseACount(c) \/ PhaseBLock(c) \/ PhaseBCount(c) \/ InsertRow(c) \/ Rollback(c) \/ Commit(c)
  PROVE  Local'
<1>0. cl[c] \in Requested /\ Idle \in Requested
  BY IdleType DEF Local, Types
<1>1. CASE PhaseALock(c)
  <2>1. Types'
    BY <1>0, <1>1 DEF Local, Types, Requested, Labels, PhaseALock, TakeKey, Go
  <2>2. Fits(c)'
    BY <1>1 DEF Local, Types, Requested, LabelsFit, Fits, KeyLabels, Locking, Passed, Idle, PhaseALock, TakeKey, Go
  <2>3. LabelsFit'
    BY <1>1, <2>2, OthersFit, NamesAssumption DEF Local, Types, LabelsFit, Fits, Locking, PhaseALock, TakeKey, Go
  <2>4. LocksReleased'
    BY <1>1, NamesAssumption DEF Local, Types, Requested, LabelsFit, Fits, LocksReleased, KeyLabels, Locking, Idle, PhaseALock, TakeKey, Go
  <2> QED BY <2>1, <2>3, <2>4 DEF Local
<1>2. CASE PhaseACount(c)
  <2>0. \E q \in Requested : cl' = [cl EXCEPT ![c] = q]
    <3>1. CASE Room(c) <= 0
      BY <1>0, <1>2, <3>1 DEF PhaseACount, Answer
    <3>2. CASE ~(Room(c) <= 0)
      <4>1. Room(c) > 0
        BY <3>2, CountType, LimitAssumption DEF Room, Local, Types
      <4> DEFINE q == [cl[c] EXCEPT !.pc = "lockB", !.items = Trim(cl[c].items, Room(c))]
      <4>2. cl' = [cl EXCEPT ![c] = q]
        BY <1>2, <3>2 DEF PhaseACount
      <4>3. Trim(cl[c].items, Room(c)) \in Seq(Items)
        BY <4>1, TrimType
      <4>4. q \in Requested
        BY <1>0, <4>3 DEF Requested, Labels
      <4> QED BY <4>2, <4>4
    <3> QED BY <3>1, <3>2
  <2>1. Types'
    BY <1>0, <1>2, <2>0 DEF Local, Types, PhaseACount, Released
  <2>2. Fits(c)'
    <3>1. keyed /\ cl[c].wrote = {}
      BY <1>2 DEF Local, LabelsFit, Fits, KeyLabels, Locking, PhaseACount
    <3>2. /\ cl'[c].pc = "idle" \/ cl'[c].pc = "lockB"
          /\ cl'[c].wrote = {} /\ keyed' = keyed
      BY <1>0, <1>2, <3>1 DEF Local, Types, Requested, Idle, PhaseACount, Answer
    <3> QED BY <3>1, <3>2 DEF Fits, KeyLabels, Locking, Passed
  <2>3. LabelsFit'
    BY <1>2, <2>2, OthersFit, NamesAssumption DEF Local, Types, LabelsFit, Fits, Locking, PhaseACount, Answer, Released, Trim, Room
  <2>4. LocksReleased'
    BY <1>2, NamesAssumption DEF Local, Types, Requested, LabelsFit, Fits, LocksReleased, KeyLabels, Locking, Idle, PhaseACount, Answer, Released, Trim, Room
  <2> QED BY <2>1, <2>3, <2>4 DEF Local
<1>3. CASE PhaseBLock(c)
  <2>1. Types'
    BY <1>0, <1>3 DEF Local, Types, Requested, Labels, PhaseBLock, TakeKey, Go
  <2>2. Fits(c)'
    BY <1>3 DEF Local, Types, Requested, LabelsFit, Fits, KeyLabels, Locking, Passed, Idle, PhaseBLock, TakeKey, Go
  <2>3. LabelsFit'
    BY <1>3, <2>2, OthersFit, NamesAssumption DEF Local, Types, LabelsFit, Fits, Locking, PhaseBLock, TakeKey, Go
  <2>4. LocksReleased'
    BY <1>3, NamesAssumption DEF Local, Types, Requested, LabelsFit, Fits, LocksReleased, KeyLabels, Locking, Idle, PhaseBLock, TakeKey, Go
  <2> QED BY <2>1, <2>3, <2>4 DEF Local
<1>4. CASE PhaseBCount(c)
  <2>0. \E q \in Requested : cl' = [cl EXCEPT ![c] = q]
    <3>1. CASE Room(c) <= 0
      BY <1>0, <1>4, <3>1 DEF PhaseBCount, Answer
    <3>2. CASE ~(Room(c) <= 0)
      <4>1. Room(c) > 0
        BY <3>2, CountType, LimitAssumption DEF Room, Local, Types
      <4> DEFINE q == [cl[c] EXCEPT !.pc = "rows", !.items = Trim(cl[c].items, Room(c))]
      <4>2. cl' = [cl EXCEPT ![c] = q]
        BY <1>4, <3>2 DEF PhaseBCount
      <4>3. Trim(cl[c].items, Room(c)) \in Seq(Items)
        BY <4>1, TrimType
      <4>4. q \in Requested
        BY <1>0, <4>3 DEF Requested, Labels
      <4> QED BY <4>2, <4>4
    <3> QED BY <3>1, <3>2
  <2>1. Types'
    BY <1>0, <1>4, <2>0 DEF Local, Types, PhaseBCount, Released
  <2>2. Fits(c)'
    BY <1>4 DEF Local, Types, Requested, LabelsFit, Fits, KeyLabels, Locking, Passed, Idle, PhaseBCount, Answer, Released, Trim, Room
  <2>3. LabelsFit'
    BY <1>4, <2>2, OthersFit, NamesAssumption DEF Local, Types, LabelsFit, Fits, Locking, PhaseBCount, Answer, Released, Trim, Room
  <2>4. LocksReleased'
    BY <1>4, NamesAssumption DEF Local, Types, Requested, LabelsFit, Fits, LocksReleased, KeyLabels, Locking, Idle, PhaseBCount, Answer, Released, Trim, Room
  <2> QED BY <2>1, <2>3, <2>4 DEF Local
<1>5. CASE InsertRow(c)
  <2>1. Types'
    <3> DEFINE w == IF HoldsRow(c, Item(c).x) THEN cl[c].wrote ELSE cl[c].wrote \cup {Item(c)}
    <3>1. cl' = [cl EXCEPT ![c].items = Tail(cl[c].items), ![c].wrote = w]
      BY <1>5 DEF InsertRow
    <3>2. cl[c].items # <<>>
      BY <1>5 DEF InsertRow
    <3>3. Tail(cl[c].items) \in Seq(Items) /\ Item(c) \in Items
      BY <3>2, ItemType
    <3>4. w \in SUBSET Items
      BY <1>0, <3>3 DEF Requested
    <3> HIDE DEF w
    <3>5. cl' \in [Clients -> Requested]
      BY <1>0, <3>1, <3>3, <3>4 DEF Local, Types, Requested
    <3> QED BY <1>5, <3>5 DEF Local, Types, InsertRow
  <2>2. Fits(c)'
    BY <1>5 DEF Local, Types, Requested, LabelsFit, Fits, KeyLabels, Locking, Passed, Idle, InsertRow, Item
  <2>3. LabelsFit'
    BY <1>5, <2>2, OthersFit, NamesAssumption DEF Local, Types, LabelsFit, Fits, Locking, InsertRow, Item
  <2>4. LocksReleased'
    BY <1>5, NamesAssumption DEF Local, Types, Requested, LabelsFit, Fits, LocksReleased, KeyLabels, Locking, Idle, InsertRow, Item
  <2> QED BY <2>1, <2>3, <2>4 DEF Local
<1>6. CASE Rollback(c)
  <2>1. Types'
    BY <1>0, <1>6 DEF Local, Types, Requested, Labels, Rollback, Answer, Released
  <2>2. Fits(c)'
    BY <1>6 DEF Local, Types, Requested, LabelsFit, Fits, KeyLabels, Locking, Passed, Idle, Rollback, Answer, Released
  <2>3. LabelsFit'
    BY <1>6, <2>2, OthersFit, NamesAssumption DEF Local, Types, LabelsFit, Fits, Locking, Rollback, Answer, Released
  <2>4. LocksReleased'
    BY <1>6, NamesAssumption DEF Local, Types, Requested, LabelsFit, Fits, LocksReleased, KeyLabels, Locking, Idle, Rollback, Answer, Released
  <2> QED BY <2>1, <2>3, <2>4 DEF Local
<1>7. CASE Commit(c)
  <2>1. Types'
    BY <1>0, <1>7, CommittedType DEF Local, Types, Requested, Labels, Commit, Answer, Released
  <2>2. Fits(c)'
    BY <1>7 DEF Local, Types, Requested, LabelsFit, Fits, KeyLabels, Locking, Passed, Idle, Commit, Answer, Released
  <2>3. LabelsFit'
    BY <1>7, <2>2, OthersFit, NamesAssumption DEF Local, Types, LabelsFit, Fits, Locking, Commit, Answer, Released
  <2>4. LocksReleased'
    BY <1>7, NamesAssumption DEF Local, Types, Requested, LabelsFit, Fits, LocksReleased, KeyLabels, Locking, Idle, Commit, Answer, Released
  <2> QED BY <2>1, <2>3, <2>4 DEF Local
<1> QED BY <1>1, <1>2, <1>3, <1>4, <1>5, <1>6, <1>7


\* What happens to rows leaves the requests alone.
LEMMA RowsKeep ==
  ASSUME Local,
         \/ CacheGone \/ \E x \in Contents : Forget(x) \/ Supersede(x)
         \/ \E x, y \in Contents : Amend(x, y)
  PROVE  Local'
<1>1. /\ cl' = cl /\ UNCHANGED <<keyed, atomic, limit, margin, keyLock>>
      /\ usage' = None \/ usage' = usage
  BY DEF CacheGone, Forget, Supersede, Amend
<1>2. frag' \in [Contents -> Rows]
  BY DEF Local, Types, CacheGone, Forget, Supersede, Amend, Rows, NoRow
<1>3. Types'
  BY <1>1, <1>2 DEF Local, Types
<1>4. LabelsFit' /\ LocksReleased'
  BY <1>1 DEF Local, LabelsFit, Fits, Item, LocksReleased
<1> QED BY <1>3, <1>4 DEF Local

---------------------------------------------------------------------------
\* Fewer rows have a smaller number.
LEMMA FewerRows ==
  ASSUME NEW S \in SUBSET Contents, NEW T \in SUBSET S
  PROVE  Cardinality(T) <= Cardinality(S) /\ Cardinality(S) \in Nat /\ Cardinality(T) \in Nat
<1>1. IsFiniteSet(S)
  BY FiniteAssumption, FS_Subset
<1> QED BY <1>1, FS_Subset, FS_CardinalityType

\* A step of client c that changes no rows has to keep the room of c only.
LEMMA OthersRoom ==
  ASSUME RoomKept, NEW c \in Clients, UNCHANGED <<keyed, limit, frag>>,
         \A d \in Clients : d # c => cl'[d] = cl[d],
         (keyed /\ cl[c].pc = "rows" => Cardinality(Current \cup Made(c)) + Len(cl[c].items) <= limit)'
  PROVE  RoomKept'
<1> SUFFICES ASSUME NEW d \in Clients, d # c, keyed, cl[d].pc = "rows"
             PROVE  (Cardinality(Current \cup Made(d)) + Len(cl[d].items) <= limit)'
  BY DEF RoomKept
<1>1. Current' = Current /\ Made(d)' = Made(d)
  BY DEF Current, Made, HoldsRow
<1> QED BY <1>1 DEF RoomKept

\* The exact counts of AtomicCount and of a batch's second check leave room for
\* what the transaction will write.
LEMMA CountGivesRoom ==
  ASSUME IInv, NEW c \in Clients, AtomicCount(c) \/ PhaseBCount(c)
  PROVE  RoomKept'
<1>1. cl[c] \in Requested /\ cl \in [Clients -> Requested] /\ limit \in Nat /\ Count \in Nat
  BY LimitAssumption, CountType DEF IInv, Local, Types
<1>2. cl[c].wrote = {}
  BY DEF IInv, Local, LabelsFit, Fits, AtomicCount, PhaseBCount
<1>3. cl'[c].pc = "rows" => cl'[c].wrote = {} /\ Count + Len(cl'[c].items) <= limit
  <2>1. CASE AtomicCount(c)
    <3>1. Len(cl[c].items) = 1
      BY <2>1 DEF IInv, Local, LabelsFit, Fits, AtomicCount
    <3>2. CASE Count >= limit
      BY <1>1, <2>1, <3>2 DEF AtomicCount, Answer, Idle
    <3>3. CASE ~(Count >= limit)
      <4>1. cl'[c].wrote = {} /\ cl'[c].items = cl[c].items
        BY <1>1, <1>2, <2>1, <3>3 DEF AtomicCount, Go, Requested
      <4>2. Len(cl'[c].items) = 1
        BY <3>1, <4>1
      <4>3. Count + 1 <= limit
        BY <1>1, <3>3
      <4> QED BY <4>1, <4>2, <4>3
    <3> QED BY <3>2, <3>3
  <2>2. CASE PhaseBCount(c)
    <3>1. CASE Room(c) > 0
      <4>1. Len(Trim(cl[c].items, Room(c))) <= Room(c) /\ Trim(cl[c].items, Room(c)) \in Seq(Items)
        BY <3>1, TrimType DEF IInv
      <4>2. ~(Room(c) <= 0)
        BY <1>1, <3>1 DEF Room
      <4>3. cl' = [cl EXCEPT ![c].pc = "rows", ![c].items = Trim(cl[c].items, Room(c))]
        BY <2>2, <4>2 DEF PhaseBCount
      <4>4. cl'[c].wrote = {} /\ cl'[c].items = Trim(cl[c].items, Room(c))
        BY <1>1, <1>2, <4>3 DEF Requested
      <4>5. Len(Trim(cl[c].items, Room(c))) \in Nat
        BY <4>1
      <4> QED BY <1>1, <4>1, <4>4, <4>5 DEF Room
    <3>2. CASE ~(Room(c) > 0)
      <4>1. Room(c) <= 0
        BY <1>1, <3>2 DEF Room
      <4> QED BY <1>1, <2>2, <4>1 DEF PhaseBCount, Answer, Idle
    <3> QED BY <3>1, <3>2
  <2> QED BY <2>1, <2>2
<1>4. UNCHANGED <<keyed, limit, frag>> /\ \A d \in Clients : d # c => cl'[d] = cl[d]
  BY <1>1 DEF AtomicCount, PhaseBCount, Answer, Go
<1>5. (keyed /\ cl[c].pc = "rows" => Cardinality(Current \cup Made(c)) + Len(cl[c].items) <= limit)'
  <2> SUFFICES ASSUME cl'[c].pc = "rows"
               PROVE  Cardinality(Current' \cup Made(c)') + Len(cl'[c].items) <= limit'
    OBVIOUS
  <2>1. Made(c)' = {} /\ Current' = Current
    BY <1>3, <1>4 DEF Made, HoldsRow, Current
  <2>2. Current' \cup Made(c)' = Current
    BY <2>1
  <2>3. Count + Len(cl'[c].items) <= limit /\ limit' = limit
    BY <1>3, <1>4
  <2> QED BY <2>2, <2>3 DEF Count
<1> QED BY <1>4, <1>5, OthersRoom DEF IInv

\* Writing a row uses up one place: the rows of the transaction grow by the item
\* at most, and one item fewer is left.
LEMMA InsertRowKeepsRoom ==
  ASSUME IInv, NEW c \in Clients, InsertRow(c)
  PROVE  RoomKept'
<1>1. cl[c] \in Requested /\ cl \in [Clients -> Requested] /\ limit \in Nat
  BY LimitAssumption DEF IInv, Local, Types
<1>2. /\ Item(c).x \in Contents /\ Len(cl[c].items) \in Nat
      /\ Len(Tail(cl[c].items)) = Len(cl[c].items) - 1
  BY <1>1, ItemType DEF IInv, InsertRow, Requested
<1>3. /\ UNCHANGED <<keyed, limit, frag>> /\ \A d \in Clients : d # c => cl'[d] = cl[d]
      /\ cl'[c].items = Tail(cl[c].items) /\ cl[c].pc = "rows"
      /\ \A v \in cl'[c].wrote : v \in cl[c].wrote \/ v = Item(c)
  BY <1>1 DEF InsertRow, Requested
<1>4. Current' = Current /\ Made(c)' \subseteq Made(c) \cup {Item(c).x}
  BY <1>3 DEF Current, Made, HoldsRow
<1> DEFINE S == Current \cup Made(c)
<1>5. S \in SUBSET Contents /\ S \cup {Item(c).x} \in SUBSET Contents
  BY <1>2 DEF Current, Made
<1>6. Cardinality(S \cup {Item(c).x}) <= Cardinality(S) + 1 /\ Cardinality(S) \in Nat
  <2>0. Cardinality(S) \in Nat
    BY <1>2, <1>5, RowCount
  <2>1. CASE Item(c).x \in S
    <3>1. Cardinality(S \cup {Item(c).x}) = Cardinality(S)
      BY <2>1
    <3> HIDE DEF S
    <3> QED BY <2>0, <3>1
  <2>2. CASE Item(c).x \notin S
    <3>1. Cardinality(S \cup {Item(c).x}) = Cardinality(S) + 1
      BY <2>2, <1>5, <1>2, RowCount
    <3> HIDE DEF S
    <3> QED BY <2>0, <3>1
  <2> QED BY <2>1, <2>2
<1>7. (Current \cup Made(c))' \subseteq S \cup {Item(c).x}
  BY <1>4
<1>8. Cardinality((Current \cup Made(c))') <= Cardinality(S \cup {Item(c).x})
      /\ Cardinality((Current \cup Made(c))') \in Nat /\ Cardinality(S \cup {Item(c).x}) \in Nat
  BY <1>5, <1>7, FewerRows
<1>9. (keyed /\ cl[c].pc = "rows" => Cardinality(Current \cup Made(c)) + Len(cl[c].items) <= limit)'
  <2> SUFFICES ASSUME keyed'
               PROVE  Cardinality((Current \cup Made(c))') + Len(cl'[c].items) <= limit'
    OBVIOUS
  <2>1. Cardinality(S) + Len(cl[c].items) <= limit
    BY <1>3 DEF IInv, RoomKept
  <2> DEFINE T == (Current \cup Made(c))'
             U == S \cup {Item(c).x}
  <2>2. /\ Cardinality(T) <= Cardinality(U) /\ Cardinality(U) <= Cardinality(S) + 1
        /\ Cardinality(T) \in Nat /\ Cardinality(U) \in Nat /\ Cardinality(S) \in Nat
    BY <1>6, <1>8
  <2>3. Len(cl'[c].items) = Len(cl[c].items) - 1 /\ Len(cl[c].items) \in Nat /\ limit' = limit
    BY <1>2, <1>3
  <2> HIDE DEF S, T, U
  <2>4. Cardinality(T) + Len(cl'[c].items) <= limit'
    BY <1>1, <2>1, <2>2, <2>3
  <2> QED BY <2>4 DEF T
<1> QED BY <1>3, <1>9, OthersRoom DEF IInv

\* With the quota kept under one lock, one transaction of a key writes rows at a time.
LEMMA OneWriter ==
  ASSUME IInv, keyed, NEW c \in Clients, NEW d \in Clients, cl[d].pc = "rows",
         cl[c].pc = "rows" \/ keyLock = None
  PROVE  d = c
<1>1. keyLock = d
  BY DEF IInv, Local, LabelsFit, Fits
<1>2. cl[c].pc = "rows" => keyLock = c
  BY DEF IInv, Local, LabelsFit, Fits
<1> QED BY <1>1, <1>2, NamesAssumption

\* What a commit makes current are the rows its transaction made.
LEMMA CommittedRows ==
  ASSUME IInv, NEW c \in Clients, frag' = Committed(c)
  PROVE  Current' = Current \cup Made(c)
<1> SUFFICES ASSUME NEW x \in Contents
             PROVE  frag'[x].st = "live" <=> frag[x].st = "live" \/ x \in Made(c)
  BY DEF Current, Made
<1>1. CASE frag[x].st = "none" /\ HoldsRow(c, x)
  BY <1>1 DEF Committed, Made
<1>2. CASE ~(frag[x].st = "none" /\ HoldsRow(c, x))
  BY <1>2 DEF Committed, Made
<1> QED BY <1>1, <1>2

\* A commit leaves no transaction of the key that has counted.
LEMMA CommitKeepsRoom ==
  ASSUME IInv, NEW c \in Clients, InsertCommit(c) \/ Commit(c)
  PROVE  RoomKept'
<1>1. cl \in [Clients -> Requested]
  BY DEF IInv, Local, Types
<1>2. keyed' = keyed /\ cl' = [cl EXCEPT ![c] = Idle]
  BY DEF InsertCommit, Commit, Answer
<1>3. keyed => cl[c].pc = "rows" \/ keyLock = None
  BY DEF InsertCommit, Commit
<1> SUFFICES ASSUME NEW d \in Clients, keyed, cl'[d].pc = "rows"
             PROVE  FALSE
  BY <1>2 DEF RoomKept
<1>4. d # c /\ cl'[d] = cl[d]
  BY <1>1, <1>2 DEF Idle
<1> QED BY <1>3, <1>4, OneWriter

\* Swapping one row for another does not change their number.
LEMMA SwapRow ==
  ASSUME NEW S \in SUBSET Contents, NEW x \in S, NEW y \in Contents, y \notin S
  PROVE  Cardinality((S \ {x}) \cup {y}) = Cardinality(S)
<1>1. S \ {x} \in SUBSET Contents /\ y \notin S \ {x} /\ x \in Contents
  OBVIOUS
<1>2. Cardinality(S \ {x}) = Cardinality(S) - 1 /\ Cardinality(S) \in Nat
  BY <1>1, RowCount
<1>3. Cardinality((S \ {x}) \cup {y}) = Cardinality(S \ {x}) + 1
  BY <1>1, RowCount
<1> QED BY <1>2, <1>3

\* forget, supersession and amend touch rows nobody holds and add none to any
\* set that contains the current rows and rows being made.
LEMMA RowsGrowNot ==
  ASSUME IInv, NEW D \in SUBSET Clients,
         \/ \E x \in Contents : Forget(x) \/ Supersede(x)
         \/ \E x, y \in Contents : Amend(x, y)
  PROVE  /\ Cardinality(Current' \cup UNION {Made(d)' : d \in D})
              <= Cardinality(Current \cup UNION {Made(d) : d \in D})
         /\ Cardinality(Current \cup UNION {Made(d) : d \in D}) \in Nat
         /\ Cardinality(Current' \cup UNION {Made(d)' : d \in D}) \in Nat
<1> DEFINE M == UNION {Made(d) : d \in D}
           S == Current \cup M
           T == Current' \cup UNION {Made(d)' : d \in D}
<1>0. frag \in [Contents -> Rows] /\ S \in SUBSET Contents /\ T \in SUBSET Contents
  BY DEF IInv, Local, Types, Current, Made
<1>1. CASE \E x \in Contents : Forget(x) \/ Supersede(x)
  <2>1. PICK x \in Contents : Forget(x) \/ Supersede(x)
    BY <1>1
  <2>2. /\ cl' = cl /\ Free(x) /\ frag'[x].st # "live"
        /\ \A z \in Contents : z # x => frag'[z] = frag[z]
    BY <1>0, <2>1 DEF Forget, Supersede, NoRow, Rows
  <2>3. Current' \subseteq Current
    BY <2>2 DEF Current
  <2>4. \A d \in D : Made(d)' \subseteq Made(d)
    BY <2>2 DEF Made, HoldsRow, Free
  <2>5. T \subseteq S
    BY <2>3, <2>4
  <2> QED BY <1>0, <2>5, FewerRows
<1>2. CASE \E x, y \in Contents : Amend(x, y)
  <2>1. PICK x \in Contents, y \in Contents : Amend(x, y)
    BY <1>2
  <2>2. /\ cl' = cl /\ Free(x) /\ Free(y) /\ frag[x].st = "live" /\ frag[y].st = "none"
        /\ frag'[x].st = "none" /\ \A z \in Contents : z # x /\ z # y => frag'[z] = frag[z]
    BY <1>0, <2>1 DEF Amend, NoRow
  <2>3. Current' \subseteq (Current \ {x}) \cup {y} /\ x \in Current /\ y \notin Current
    BY <2>2 DEF Current
  <2>4. \A d \in D : Made(d)' \subseteq Made(d) /\ x \notin Made(d) /\ y \notin Made(d)
    BY <2>2 DEF Made, HoldsRow, Free
  <2>5. T \subseteq (S \ {x}) \cup {y} /\ x \in S /\ y \notin S
    BY <2>3, <2>4
  <2>6. Cardinality((S \ {x}) \cup {y}) = Cardinality(S)
    BY <1>0, <2>5, SwapRow
  <2>7. (S \ {x}) \cup {y} \in SUBSET Contents
    BY <1>0
  <2>8. Cardinality(T) <= Cardinality((S \ {x}) \cup {y}) /\ Cardinality(T) \in Nat
    BY <2>5, <2>7, FewerRows
  <2>9. Cardinality(S) \in Nat
    BY <1>0, <2>1, RowCount
  <2> QED BY <2>6, <2>8, <2>9
<1> QED BY <1>1, <1>2

\* They leave every transaction its room, and no more rows than there were.
LEMMA RowsKeepRoom ==
  ASSUME IInv,
         \/ CacheGone \/ \E x \in Contents : Forget(x) \/ Supersede(x)
         \/ \E x, y \in Contents : Amend(x, y)
  PROVE  RoomKept' /\ Count' <= Count
<1>0. cl' = cl /\ UNCHANGED <<keyed, limit>>
  BY DEF CacheGone, Forget, Supersede, Amend
<1>1. CASE CacheGone
  <2>1. frag' = frag
    BY <1>1 DEF CacheGone
  <2>2. Current' = Current /\ \A d \in Clients : Made(d)' = Made(d)
    BY <1>0, <2>1 DEF Current, Made, HoldsRow
  <2> QED BY <1>0, <2>2, CountType DEF RoomKept, IInv, Count
<1>2. CASE ~CacheGone
  <2>1. ASSUME NEW d \in Clients, keyed, cl[d].pc = "rows"
        PROVE  Cardinality(Current' \cup Made(d)') + Len(cl[d].items) <= limit
    <3>1. UNION {Made(e) : e \in {d}} = Made(d) /\ UNION {Made(e)' : e \in {d}} = Made(d)'
      OBVIOUS
    <3>2. /\ Cardinality(Current' \cup Made(d)') <= Cardinality(Current \cup Made(d))
          /\ Cardinality(Current \cup Made(d)) \in Nat /\ Cardinality(Current' \cup Made(d)') \in Nat
      BY <1>2, <3>1, RowsGrowNot, {d} \in SUBSET Clients
    <3>3. Cardinality(Current \cup Made(d)) + Len(cl[d].items) <= limit
      BY <2>1 DEF IInv, RoomKept
    <3>4. Len(cl[d].items) \in Nat /\ limit \in Nat
      BY LimitAssumption DEF IInv, Local, Types, Requested
    <3> QED BY <3>2, <3>3, <3>4
  <2>2. RoomKept'
    BY <1>0, <2>1 DEF RoomKept
  <2>3. UNION {Made(d) : d \in {}} = {} /\ UNION {Made(d)' : d \in {}} = {}
    OBVIOUS
  <2>4. Count' <= Count
    BY <1>2, <2>3, RowsGrowNot, {} \in SUBSET Clients DEF Count
  <2> QED BY <2>2, <2>4
<1> QED BY <1>1, <1>2

\* The label a request of client c gets.
LEMMA LabelStep ==
  ASSUME IInv, NEW c \in Clients
  PROVE  /\ \A label : Go(c, label) \/ TakeKey(c, label) => cl'[c].pc = label
         /\ Answer(c) => cl'[c].pc = "idle"
         /\ \A r : \A label : Start(c, r, label) => cl'[c].pc = label
         /\ \A n : Decide(c, n) => cl'[c].pc \in {"idle", "gate", "precise"}
         /\ \A n : Decide(c, n) /\ ~(limit - n > margin) => cl'[c].pc \in {"idle", "precise"}
<1>1. cl \in [Clients -> Requested] /\ cl[c] \in Requested
  BY DEF IInv, Local, Types
<1>2. \A label : Go(c, label) \/ TakeKey(c, label) => cl'[c].pc = label
  BY <1>1 DEF Go, TakeKey, Requested
<1>3. Answer(c) => cl'[c].pc = "idle"
  BY <1>1 DEF Answer, Idle
<1>4. \A r : \A label : Start(c, r, label) => cl'[c].pc = label
  BY <1>1 DEF Start
<1>5. ASSUME NEW n, Decide(c, n)
      PROVE  /\ cl'[c].pc \in {"idle", "gate", "precise"}
             /\ ~(limit - n > margin) => cl'[c].pc \in {"idle", "precise"}
  <2>1. CASE cl[c].op = "usage"
    BY <1>3, <1>5, <2>1 DEF Decide
  <2>2. CASE cl[c].op # "usage" /\ limit - n > margin
    <3>1. cl' = [cl EXCEPT ![c].pc = "gate", ![c].seen = 0]
      BY <1>5, <2>2 DEF Decide
    <3> QED BY <1>1, <2>2, <3>1 DEF Requested
  <2>3. CASE cl[c].op # "usage" /\ ~(limit - n > margin)
    <3>1. cl' = [cl EXCEPT ![c].pc = "precise", ![c].seen = 0]
      BY <1>5, <2>3 DEF Decide
    <3> QED BY <1>1, <3>1 DEF Requested
  <2> QED BY <2>1, <2>2, <2>3
<1> QED BY <1>2, <1>3, <1>4, <1>5

\* A request that has not counted in its transaction has no room to keep: it
\* writes rows without counting for the master only.
LEMMA NotWritingKeepsRoom ==
  ASSUME IInv, NEW c \in Clients,
         \/ \E r \in Requests : Usage(c, r) \/ Remember(c, r) \/ Batch(c, r)
         \/ GetUsageCached(c) \/ GetUsage(c) \/ CacheUsage(c) \/ CheckLock(c) \/ CheckCount(c)
         \/ PolicyPass(c) \/ PolicyViolation(c) \/ InsertKnown(c) \/ InsertNew(c) \/ AtomicLock(c)
         \/ PhaseALock(c) \/ PhaseACount(c) \/ PhaseBLock(c) \/ Rollback(c)
  PROVE  RoomKept'
<1>1. cl \in [Clients -> Requested] /\ cl[c] \in Requested
  BY DEF IInv, Local, Types
<1>2. UNCHANGED <<keyed, limit, frag>> /\ \A d \in Clients : d # c => cl'[d] = cl[d]
  BY <1>1 DEF Usage, Remember, Batch, Start, GetUsageCached, GetUsage, CacheUsage, Decide, CheckLock,
     CheckCount, TakeKey, Go, Answer, PolicyPass, PolicyViolation, InsertKnown, InsertNew, AtomicLock,
     PhaseALock, PhaseACount, PhaseBLock, Rollback
<1>3. keyed => cl'[c].pc # "rows"
  <2>1. CASE \E r \in Requests : Usage(c, r) \/ Remember(c, r) \/ Batch(c, r)
    BY <2>1, LabelStep DEF Usage, Remember, Batch
  <2>2. CASE GetUsageCached(c) \/ CacheUsage(c)
    BY <2>2, LabelStep DEF GetUsageCached, CacheUsage
  <2>3. CASE GetUsage(c)
    BY <1>1, <2>3 DEF GetUsage, Requested
  <2>4. CASE CheckLock(c) \/ AtomicLock(c) \/ PhaseALock(c) \/ PhaseBLock(c)
    BY <2>4, LabelStep DEF CheckLock, AtomicLock, PhaseALock, PhaseBLock
  <2>5. CASE CheckCount(c) \/ PolicyPass(c) \/ PolicyViolation(c) \/ InsertKnown(c) \/ Rollback(c)
    BY <2>5, LabelStep DEF CheckCount, PolicyPass, PolicyViolation, InsertKnown, Rollback
  <2>6. CASE InsertNew(c)
    BY <1>1, <2>6 DEF InsertNew, Requested
  <2>7. CASE PhaseACount(c)
    <3>1. CASE Room(c) <= 0
      BY <2>7, <3>1, LabelStep DEF PhaseACount
    <3>2. CASE ~(Room(c) <= 0)
      BY <1>1, <2>7, <3>2 DEF PhaseACount, Requested
    <3> QED BY <3>1, <3>2
  <2> QED BY <2>1, <2>2, <2>3, <2>4, <2>5, <2>6, <2>7
<1>4. (keyed /\ cl[c].pc = "rows" => Cardinality(Current \cup Made(c)) + Len(cl[c].items) <= limit)'
  BY <1>2, <1>3
<1> QED BY <1>2, <1>4, OthersRoom DEF IInv

---------------------------------------------------------------------------
\* There are no more bold requests than requests.
LEMMA BoldSize ==
  ASSUME NEW B \in SUBSET Clients, NEW A \in SUBSET B
  PROVE  /\ Cardinality(A) \in Nat /\ Cardinality(B) \in Nat /\ Cardinality(Clients) \in Nat
         /\ Cardinality(A) <= Cardinality(B) /\ Cardinality(B) <= Cardinality(Clients)
         /\ \A c \in B : c \notin A => Cardinality(A) < Cardinality(B)
<1>1. IsFiniteSet(Clients) /\ IsFiniteSet(B) /\ IsFiniteSet(A)
  BY FiniteAssumption, FS_Subset
<1>2. /\ Cardinality(A) \in Nat /\ Cardinality(B) \in Nat /\ Cardinality(Clients) \in Nat
      /\ Cardinality(A) <= Cardinality(B) /\ Cardinality(B) <= Cardinality(Clients)
  BY <1>1, FS_Subset, FS_CardinalityType
<1>3. ASSUME NEW c \in B, c \notin A
      PROVE  Cardinality(A) < Cardinality(B)
  <2>1. A \subseteq B \ {c} /\ IsFiniteSet(B \ {c})
    BY <1>1, <1>3, FS_RemoveElement
  <2>2. Cardinality(A) <= Cardinality(B \ {c}) /\ Cardinality(B \ {c}) = Cardinality(B) - 1
    BY <1>1, <2>1, FS_Subset, FS_RemoveElement
  <2> QED BY <1>2, <2>2
<1> QED BY <1>2, <1>3

\* The bound survives a step that adds no row and lets no request pass unchecked.
LEMMA CountFrame ==
  ASSUME IInv, UNCHANGED <<keyed, atomic, limit, margin>>, Count' \in Nat, Count' <= Count,
         keyed /\ ~atomic /\ margin >= limit => Bold' \subseteq Bold
  PROVE  CountBounded'
<1>1. limit \in Nat /\ Count \in Nat
  BY LimitAssumption, CountType DEF IInv, Local, Types
<1> SUFFICES ASSUME keyed, margin >= limit
             PROVE  (IF atomic THEN Count <= limit ELSE Count + Cardinality(Bold) < limit + Cardinality(Clients))'
  BY DEF CountBounded
<1>2. CASE atomic
  BY <1>1, <1>2 DEF IInv, CountBounded
<1>3. CASE ~atomic
  <2>1. Bold \in SUBSET Clients /\ Bold' \in SUBSET Bold
    BY <1>3 DEF Bold
  <2>2. Cardinality(Bold') <= Cardinality(Bold) /\ Cardinality(Bold') \in Nat /\ Cardinality(Bold) \in Nat
        /\ Cardinality(Clients) \in Nat
    BY <2>1, BoldSize
  <2>3. Count + Cardinality(Bold) < limit + Cardinality(Clients)
    BY <1>3 DEF IInv, CountBounded
  <2> QED BY <1>1, <1>3, <2>2, <2>3
<1> QED BY <1>2, <1>3

\* Number of rows after a step that leaves them alone
LEMMA SameRows ==
  ASSUME frag' = frag
  PROVE  Count' = Count /\ Count \in Nat
BY CountType DEF Count, Current

\* Within the margin nobody gets to the gate without the exact check, unless the
\* key is checked in the transaction of the INSERT.
LEMMA NobodyBold ==
  ASSUME IInv, NEW c \in Clients,
         \/ \E r \in Requests : Usage(c, r) \/ Remember(c, r) \/ Batch(c, r)
         \/ GetUsageCached(c) \/ GetUsage(c) \/ CacheUsage(c) \/ CheckLock(c)
         \/ PolicyPass(c) \/ PolicyViolation(c) \/ InsertKnown(c) \/ InsertNew(c)
         \/ AtomicLock(c) \/ AtomicCount(c)
         \/ PhaseALock(c) \/ PhaseACount(c) \/ PhaseBLock(c) \/ PhaseBCount(c)
         \/ InsertRow(c) \/ Rollback(c)
  PROVE  CountBounded'
<1>1. cl \in [Clients -> Requested] /\ cl[c] \in Requested /\ limit \in Nat /\ margin \in Nat
  BY LimitAssumption DEF IInv, Local, Types
<1>2. UNCHANGED <<keyed, atomic, limit, margin, frag>> /\ \A d \in Clients : d # c => cl'[d] = cl[d]
  BY <1>1 DEF Usage, Remember, Batch, Start, GetUsageCached, GetUsage, CacheUsage, Decide, CheckLock,
     TakeKey, Go, Answer, PolicyPass, PolicyViolation, InsertKnown, InsertNew, AtomicLock, AtomicCount,
     PhaseALock, PhaseACount, PhaseBLock, PhaseBCount, InsertRow, Rollback
<1>3. keyed /\ ~atomic /\ margin >= limit /\ cl'[c].pc \in Passed => cl[c].pc \in Passed
  <2> SUFFICES ASSUME keyed, ~atomic, margin >= limit, cl'[c].pc \in Passed
               PROVE  cl[c].pc \in Passed
    OBVIOUS
  <2>1. CASE \E r \in Requests : Usage(c, r) \/ Remember(c, r) \/ Batch(c, r)
    BY <2>1, LabelStep DEF Usage, Remember, Batch, Passed
  <2>2. CASE GetUsageCached(c)
    <3>1. usage \in Nat
      BY <2>2, FiniteAssumption, FS_CardinalityType DEF GetUsageCached, IInv, Local, Types
    <3>2. ~(limit - usage > margin)
      BY <1>1, <3>1
    <3> QED BY <2>2, <3>2, LabelStep DEF GetUsageCached, Passed
  <2>3. CASE CacheUsage(c)
    <3>1. cl[c].seen \in Nat
      BY <1>1, FiniteAssumption, FS_CardinalityType DEF Requested
    <3>2. ~(limit - cl[c].seen > margin)
      BY <1>1, <3>1
    <3> QED BY <2>3, <3>2, LabelStep DEF CacheUsage, Passed
  <2>4. CASE GetUsage(c)
    BY <1>1, <2>4 DEF GetUsage, Requested, Passed
  <2>5. CASE CheckLock(c) \/ AtomicLock(c) \/ PhaseALock(c) \/ PhaseBLock(c)
    BY <2>5, LabelStep DEF CheckLock, AtomicLock, PhaseALock, PhaseBLock, Passed
  <2>6. CASE AtomicCount(c) \/ InsertKnown(c) \/ PolicyViolation(c) \/ Rollback(c)
    BY <2>6, LabelStep DEF AtomicCount, InsertKnown, PolicyViolation, Rollback, Passed
  <2>7. CASE PolicyPass(c) \/ InsertNew(c)
    BY <2>7 DEF PolicyPass, InsertNew, Passed
  <2>8. CASE PhaseACount(c) \/ PhaseBCount(c)
    <3>1. CASE Room(c) <= 0
      BY <2>8, <3>1, LabelStep DEF PhaseACount, PhaseBCount, Passed
    <3>2. CASE ~(Room(c) <= 0)
      <4>1. PICK label \in {"lockB", "rows"} :
               cl' = [cl EXCEPT ![c].pc = label, ![c].items = Trim(cl[c].items, Room(c))]
        BY <2>8, <3>2 DEF PhaseACount, PhaseBCount
      <4> QED BY <1>1, <4>1 DEF Passed, Requested
    <3> QED BY <3>1, <3>2
  <2>9. CASE InsertRow(c)
    BY <1>1, <2>9 DEF InsertRow, Requested, Passed
  <2> QED BY <2>1, <2>2, <2>3, <2>4, <2>5, <2>6, <2>7, <2>8, <2>9
<1>4. keyed /\ ~atomic /\ margin >= limit => Bold' \subseteq Bold
  BY <1>2, <1>3 DEF Bold
<1>5. Count' = Count /\ Count \in Nat
  BY <1>2, SameRows
<1> QED BY <1>2, <1>4, <1>5, CountFrame

\* A request that passes the exact check (_checkPrecise) found a place free.
LEMMA CheckedIsBounded ==
  ASSUME IInv, NEW c \in Clients, CheckCount(c)
  PROVE  CountBounded'
<1>1. limit \in Nat /\ margin \in Nat
  BY LimitAssumption DEF IInv, Local, Types
<1>2. UNCHANGED <<keyed, atomic, limit, margin>> /\ Count' = Count /\ Count \in Nat
  BY SameRows DEF CheckCount
<1>3. CASE Count >= limit
  <2>1. cl' = [cl EXCEPT ![c] = Idle] /\ cl \in [Clients -> Requested]
    BY <1>3 DEF CheckCount, Answer, IInv, Local, Types
  <2>2. Bold' \subseteq Bold
    BY <2>1 DEF Bold, Passed, Idle
  <2> QED BY <1>2, <2>2, CountFrame
<1>4. CASE ~(Count >= limit)
  <2>1. Bold' \in SUBSET Clients /\ Bold' \in SUBSET Bold'
    BY DEF Bold
  <2>2. /\ Cardinality(Bold') <= Cardinality(Clients)
        /\ Cardinality(Bold') \in Nat /\ Cardinality(Clients) \in Nat
    BY <2>1, BoldSize
  <2> QED BY <1>1, <1>2, <1>4, <2>2 DEF CountBounded
<1> QED BY <1>3, <1>4

\* A request of a remember adds one row and is over.
LEMMA InsertIsBounded ==
  ASSUME IInv, NEW c \in Clients, InsertCommit(c)
  PROVE  CountBounded' /\ (keyed => ~atomic)
<1>1. cl \in [Clients -> Requested] /\ limit \in Nat /\ margin \in Nat /\ Count \in Nat
  BY LimitAssumption, CountType DEF IInv, Local, Types
<1>2. cl[c].wrote = {Item(c)} /\ (keyed => ~atomic) /\ cl[c].items # <<>>
  BY DEF IInv, Local, LabelsFit, Fits, Passed, InsertCommit
<1>3. Item(c).x \in Contents
  BY <1>2, ItemType DEF IInv
<1>4. UNCHANGED <<keyed, atomic, limit, margin>> /\ cl' = [cl EXCEPT ![c] = Idle] /\ cl[c].pc = "share"
  BY DEF InsertCommit, Answer
<1>5. Current' = Current \cup Made(c)
  BY CommittedRows DEF InsertCommit
<1>6. Current' \subseteq Current \cup {Item(c).x}
  BY <1>2, <1>5 DEF Made, HoldsRow
<1>7. Count' <= Count + 1 /\ Count' \in Nat
  <2>1. Current \in SUBSET Contents /\ Current \cup {Item(c).x} \in SUBSET Contents
    BY <1>3 DEF Current
  <2>2. /\ Cardinality(Current') <= Cardinality(Current \cup {Item(c).x})
        /\ Cardinality(Current') \in Nat /\ Cardinality(Current \cup {Item(c).x}) \in Nat
    BY <1>6, <2>1, FewerRows
  <2>3. CASE Item(c).x \in Current
    <3>1. Current \cup {Item(c).x} = Current
      BY <2>3
    <3>2. Cardinality(Current') <= Cardinality(Current) /\ Cardinality(Current) \in Nat
      BY <2>1, <2>2, <3>1, <1>3, RowCount
    <3> QED BY <2>2, <3>2 DEF Count
  <2>4. CASE Item(c).x \notin Current
    <3>1. Cardinality(Current \cup {Item(c).x}) = Cardinality(Current) + 1 /\ Cardinality(Current) \in Nat
      BY <1>3, <2>1, <2>4, RowCount
    <3> QED BY <2>2, <3>1 DEF Count
  <2> QED BY <2>3, <2>4
<1>8. Bold \in SUBSET Clients /\ Bold' \in SUBSET Bold /\ c \in Bold /\ c \notin Bold'
  BY <1>1, <1>4 DEF Bold, Passed, Idle
<1>9. /\ Cardinality(Bold') < Cardinality(Bold) /\ Cardinality(Bold') \in Nat
      /\ Cardinality(Bold) \in Nat /\ Cardinality(Clients) \in Nat
  BY <1>8, BoldSize
<1>10. keyed /\ margin >= limit => Count + Cardinality(Bold) < limit + Cardinality(Clients)
  BY <1>2 DEF IInv, CountBounded
<1> QED BY <1>1, <1>2, <1>4, <1>7, <1>9, <1>10 DEF CountBounded

\* A transaction that counted under the lock stays within the quota.
LEMMA CommitIsBounded ==
  ASSUME IInv, NEW c \in Clients, Commit(c)
  PROVE  CountBounded' /\ (keyed => Count' <= limit)
<1>1. cl \in [Clients -> Requested] /\ limit \in Nat /\ margin \in Nat
  BY LimitAssumption DEF IInv, Local, Types
<1>2. UNCHANGED <<keyed, atomic, limit, margin>> /\ cl' = [cl EXCEPT ![c] = Idle]
      /\ cl[c].pc = "rows" /\ cl[c].items = <<>>
  BY DEF Commit, Answer
<1>3. Current' = Current \cup Made(c)
  BY CommittedRows DEF Commit
<1>4. Current' \in SUBSET Contents /\ Current' \in SUBSET Current'
  BY DEF Current
<1>5. Count' \in Nat
  BY <1>4, FewerRows DEF Count
<1>6. keyed => Count' <= limit
  <2> SUFFICES ASSUME keyed PROVE Count' <= limit
    OBVIOUS
  <2>1. Cardinality(Current \cup Made(c)) + Len(cl[c].items) <= limit
    BY <1>2 DEF IInv, RoomKept
  <2>2. Len(cl[c].items) = 0
    BY <1>2
  <2>3. Cardinality(Current \cup Made(c)) = Count'
    BY <1>3 DEF Count
  <2> DEFINE n == Cardinality(Current \cup Made(c))
  <2>4. n + 0 <= limit /\ n \in Nat /\ limit \in Nat
    BY <1>1, <1>5, <2>1, <2>2, <2>3
  <2> HIDE DEF n
  <2>5. n <= limit
    BY <2>4
  <2> QED BY <2>3, <2>5 DEF n
<1>7. Clients \in SUBSET Clients /\ Bold' \in SUBSET Clients /\ c \notin Bold'
  BY <1>1, <1>2 DEF Bold, Passed, Idle
<1>8. Cardinality(Bold') < Cardinality(Clients) /\ Cardinality(Bold') \in Nat /\ Cardinality(Clients) \in Nat
  BY <1>7, BoldSize
<1> QED BY <1>1, <1>2, <1>5, <1>6, <1>8 DEF CountBounded

---------------------------------------------------------------------------
\* Nothing is stored at the start.
LEMMA InitIInv == Init => IInv
<1> SUFFICES ASSUME Init PROVE IInv
  OBVIOUS
<1>1. Local
  BY InitLocal
<1>2. RoomKept
  BY DEF Init, RoomKept, Idle
<1>3. Current = {} /\ Bold = {}
  BY DEF Init, Current, Bold, NoRow, Idle, Passed
<1>4. Count = 0 /\ Cardinality(Bold) = 0
  BY <1>3, FS_EmptySet DEF Count
<1>5. Cardinality(Clients) \in Nat /\ Cardinality(Clients) # 0 /\ limit \in Nat
  BY FiniteAssumption, FS_CardinalityType, FS_EmptySet, LimitAssumption DEF Init
<1>6. CountBounded
  BY <1>4, <1>5 DEF CountBounded
<1> QED BY <1>1, <1>2, <1>6 DEF IInv

\* The invariant is inductive.
LEMMA NextIInv == IInv /\ [Next]_vars => IInv'
<1> SUFFICES ASSUME IInv, [Next]_vars PROVE IInv'
  OBVIOUS
<1>1. ASSUME NEW c \in Clients, NEW r \in Requests, Usage(c, r) \/ Remember(c, r) \/ Batch(c, r)
      PROVE  IInv'
  <2>1. Local'
    BY <1>1, StartKeeps DEF IInv
  <2>2. RoomKept'
    BY <1>1, NotWritingKeepsRoom
  <2>3. CountBounded'
    BY <1>1, NobodyBold
  <2> QED BY <2>1, <2>2, <2>3 DEF IInv
<1>2. ASSUME NEW c \in Clients,
             GetUsageCached(c) \/ GetUsage(c) \/ CacheUsage(c) \/ CheckLock(c) \/ CheckCount(c)
      PROVE  IInv'
  <2>1. Local'
    BY <1>2, CheckKeeps DEF IInv
  <2>2. RoomKept'
    BY <1>2, NotWritingKeepsRoom
  <2>3. CountBounded'
    BY <1>2, NobodyBold, CheckedIsBounded
  <2> QED BY <2>1, <2>2, <2>3 DEF IInv
<1>3. ASSUME NEW c \in Clients,
             \/ PolicyPass(c) \/ PolicyViolation(c) \/ InsertKnown(c) \/ InsertNew(c)
             \/ InsertCommit(c) \/ AtomicLock(c) \/ AtomicCount(c)
      PROVE  IInv'
  <2>1. Local'
    BY <1>3, RememberKeeps DEF IInv
  <2>2. RoomKept'
    BY <1>3, NotWritingKeepsRoom, CommitKeepsRoom, CountGivesRoom
  <2>3. CountBounded'
    BY <1>3, NobodyBold, InsertIsBounded
  <2> QED BY <2>1, <2>2, <2>3 DEF IInv
<1>4. ASSUME NEW c \in Clients,
             \/ PhaseALock(c) \/ PhaseACount(c) \/ PhaseBLock(c) \/ PhaseBCount(c)
             \/ InsertRow(c) \/ Rollback(c) \/ Commit(c)
      PROVE  IInv'
  <2>1. Local'
    BY <1>4, BatchKeeps DEF IInv
  <2>2. RoomKept'
    BY <1>4, NotWritingKeepsRoom, CommitKeepsRoom, CountGivesRoom, InsertRowKeepsRoom
  <2>3. CountBounded'
    BY <1>4, NobodyBold, CommitIsBounded
  <2> QED BY <2>1, <2>2, <2>3 DEF IInv
<1>5. ASSUME \/ CacheGone \/ \E x \in Contents : Forget(x) \/ Supersede(x)
             \/ \E x, y \in Contents : Amend(x, y)
      PROVE  IInv'
  <2>1. Local' /\ RoomKept' /\ Count' <= Count
    BY <1>5, RowsKeep, RowsKeepRoom DEF IInv
  <2>2. UNCHANGED <<keyed, atomic, limit, margin>> /\ cl' = cl
    BY <1>5 DEF CacheGone, Forget, Supersede, Amend
  <2>3. Current' \in SUBSET Contents /\ Current' \in SUBSET Current' /\ Bold' = Bold
    BY <2>2 DEF Current, Bold
  <2>4. Count' \in Nat
    BY <2>3, FewerRows DEF Count
  <2>5. CountBounded'
    BY <2>1, <2>2, <2>3, <2>4, CountFrame
  <2> QED BY <2>1, <2>5 DEF IInv
<1>6. CASE UNCHANGED vars
  BY <1>6 DEF vars, IInv, Local, Types, LabelsFit, Fits, Item, LocksReleased, RoomKept, Current, Made,
     HoldsRow, CountBounded, Count, Bold
<1> QED BY <1>1, <1>2, <1>3, <1>4, <1>5, <1>6 DEF Next

\* IInv holds in every reachable state.
LEMMA SpecIInv == Spec => []IInv
BY InitIInv, NextIInv, PTL DEF Spec

\* The lock on a key's row always comes free (KeyLocksEnd): every way out of a
\* transaction of QuotaChecker, _rememberAtomic and process ends it, and with
\* REMEMBER_ATOMIC the only client a request can wait for is the one that holds
\* the key, which waits for nobody.
THEOREM WriteAdmissionKeyLocks == Spec => []KeyLocksEnd
<1>1. ASSUME IInv PROVE TypeOK
  BY <1>1 DEF IInv, Local, Types, Requested, TypeOK
<1>2. ASSUME IInv, keyed, atomic, NEW c \in Clients, NEW d \in Clients, Waits(c, d)
      PROVE  d = keyLock
  <2>1. ASSUME NEW e \in Clients
        PROVE  /\ cl[e].pc \notin {"insert", "share"}
               /\ cl[e].wrote # {} => keyLock = e
               /\ cl[e].pc = "rows" => keyLock = e
    BY <1>2 DEF IInv, Local, LabelsFit, Fits, Passed
  <2>2. CASE keyLock = d
    BY <2>2
  <2>3. CASE cl[c].pc \in {"insert", "rows"} /\ (HoldsRow(d, Item(c).x) \/ HoldsIdem(d, Item(c).ik))
    <3>1. cl[d].wrote # {} /\ cl[c].pc = "rows"
      BY <2>1, <2>3 DEF HoldsRow, HoldsIdem
    <3> QED BY <2>1, <3>1
  <2> QED BY <1>2, <2>2, <2>3 DEF Waits
<1>3. ASSUME IInv PROVE NoKeyDeadlock
  <2> SUFFICES ASSUME keyed, atomic, NEW c \in Clients, Deadlocked(c) PROVE FALSE
    BY DEF NoKeyDeadlock
  <2>1. PICK S \in SUBSET Clients : c \in S /\ Stuck(S)
    BY DEF Deadlocked, Circle
  <2>2. PICK d \in S : Waits(c, d)
    BY <2>1 DEF Stuck
  <2>3. PICK e \in S : Waits(d, e)
    BY <2>1 DEF Stuck
  <2>4. d = keyLock /\ e = keyLock
    BY <1>2, <1>3, <2>1, <2>2, <2>3
  <2> QED BY <2>3, <2>4 DEF Waits
<1>4. IInv => KeyLocksEnd
  BY <1>1, <1>3 DEF KeyLocksEnd, IInv, Local
<1> QED BY <1>4, SpecIInv, PTL

\* Without REMEMBER_ATOMIC, where the margin covers the whole quota, a key has
\* fewer current fragments than its limit and the requests together (OvershootBounded):
\* only a request that passed _checkPrecise while there was room adds a row later.
THEOREM WriteAdmissionOvershoot == Spec => []OvershootBounded
<1>1. ASSUME IInv PROVE OvershootBounded
  <2>1. limit \in Nat /\ Count \in Nat /\ Cardinality(Clients) \in Nat /\ Cardinality(Clients) # 0
    BY <1>1, LimitAssumption, CountType, FiniteAssumption, FS_CardinalityType, FS_EmptySet DEF IInv, Local, Types
  <2>2. Bold \in SUBSET Clients
    BY DEF Bold
  <2>3. Cardinality(Bold) \in Nat
    BY <2>2, BoldSize
  <2> QED BY <1>1, <2>1, <2>3 DEF IInv, CountBounded, OvershootBounded
<1> QED BY <1>1, SpecIInv, PTL

\* Only the INSERT of a plain remember takes a key past its quota (QuotaKept): a
\* transaction that counts under the key's lock keeps the room for its rows
\* until its commit, and nothing else makes a row current.
THEOREM WriteAdmissionQuota == Spec => QuotaKept
<1> DEFINE Step == keyed /\ Count' > Count /\ Count' > limit
                   => ~atomic /\ \E c \in Clients : cl[c].pc = "share" /\ cl'[c].pc = "idle"
<1>1. ASSUME IInv, [Next]_vars PROVE [Step]_vars
  <2> SUFFICES ASSUME Next, keyed, Count' > Count, Count' > limit
               PROVE  ~atomic /\ \E c \in Clients : cl[c].pc = "share" /\ cl'[c].pc = "idle"
    BY <1>1
  <2>1. Current' \in SUBSET Contents /\ Current' \in SUBSET Current' /\ limit \in Nat /\ Count \in Nat
    BY <1>1, LimitAssumption, CountType DEF Current, IInv, Local, Types
  <2>2. Count' \in Nat
    BY <2>1, FewerRows DEF Count
  <2>3. frag' # frag
    <3>1. frag' = frag => Count' = Count
      BY DEF Count, Current
    <3> QED BY <2>1, <2>2, <3>1
  <2>4. ~(\/ \E x \in Contents : Forget(x) \/ Supersede(x)
          \/ \E x, y \in Contents : Amend(x, y))
    <3>1. ASSUME \/ \E x \in Contents : Forget(x) \/ Supersede(x)
                 \/ \E x, y \in Contents : Amend(x, y)
          PROVE  Count' <= Count
      BY <1>1, <3>1, RowsKeepRoom
    <3> QED BY <2>1, <2>2, <3>1
  <2>5. PICK c \in Clients : InsertCommit(c) \/ Commit(c)
    BY <2>3, <2>4 DEF Next, Usage, Remember, Batch, GetUsageCached, GetUsage, CacheUsage, CheckLock,
       CheckCount, TakeKey, PolicyPass, PolicyViolation, InsertKnown, InsertNew, AtomicLock, AtomicCount,
       PhaseALock, PhaseACount, PhaseBLock, PhaseBCount, InsertRow, Rollback, CacheGone
  <2>6. ~Commit(c)
    <3>1. Commit(c) => Count' <= limit
      BY <1>1, CommitIsBounded
    <3> QED BY <2>1, <2>2, <3>1
  <2>7. InsertCommit(c) /\ cl[c].pc = "share" /\ cl'[c].pc = "idle"
    BY <1>1, <2>5, <2>6, LabelStep DEF InsertCommit
  <2> QED BY <1>1, <2>7, InsertIsBounded
<1>2. IInv /\ [Next]_vars => [Step]_vars
  BY <1>1
<1> QED BY <1>2, SpecIInv, PTL DEF Spec, QuotaKept
=============================================================================
