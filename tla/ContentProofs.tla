---------------------------- MODULE ContentProofs ----------------------------
(***************************************************************************)
(* What the rows of fragments hold (FragmentContent), and what is answered *)
(* from them (Answers).                                                    *)
(*                                                                         *)
(* For any ids, contents, keys, groups, clients and workers: an owner has  *)
(* one row per content, a stored vector belongs to the present content, no *)
(* overwritten content is missing from the archive, and only the owner or  *)
(* the master writes.  The inductive invariant IInv adds what the row lock *)
(* of an amendment guarantees: a client inside its transaction still sees  *)
(* the row it read.                                                        *)
(*                                                                         *)
(* For any candidates and budgets, entries and limits, rows, links and     *)
(* questions: the cuts keep their budgets and shares, the working memory   *)
(* its limit, and a history is exact.  Their loops are recursive           *)
(* functions; Loop gives one its states and Upto proves what holds in each *)
(* of them.                                                                *)
(***************************************************************************)
EXTENDS FragmentContent, Answers, FiniteSetTheorems, SequenceTheorems, WellFoundedInduction, TLAPS

\* Every initial state has the inductive invariant.
LEMMA InitIInv == Init => IInv
<1> SUFFICES ASSUME Init PROVE IInv
  OBVIOUS
<1>1. TypeOK
  BY ContentAssumption DEF Init, TypeOK, Owners, Stages
<1>2. TxHoldsRow /\ LockHasOwner /\ OwnedStays /\ TargetUsed
  BY DEF Init, TxHoldsRow, LockHasOwner, OwnedStays, TargetUsed, InTx
<1>3. OneRowPerContent /\ VectorMatchesContent /\ HistoryComplete
  BY DEF Init, OneRowPerContent, VectorMatchesContent, HistoryComplete
<1> QED BY <1>1, <1>2, <1>3 DEF IInv

\* Insert keeps the inductive invariant: a new id is in no request and holds no lock; its content is not taken.
LEMMA InsertKeeps ==
  ASSUME IInv, NEW k \in Owners, NEW c \in Contents, NEW i \in Ids, Insert(k, c, i)
  PROVE  IInv'
<1> USE DEF table, request, worker
<1>1. TypeOK'
  BY ContentAssumption DEF IInv, TypeOK, Insert, Taken, Owners, Stages
<1>2. TxHoldsRow' /\ LockHasOwner'
  BY ContentAssumption DEF IInv, TypeOK, TxHoldsRow, LockHasOwner, InTx, Insert, Taken
<1>3. OwnedStays' /\ TargetUsed'
  BY ContentAssumption DEF IInv, TypeOK, OwnedStays, TargetUsed, TxHoldsRow, InTx, Insert, Taken
<1>4. OneRowPerContent'
  BY ContentAssumption DEF IInv, TypeOK, OneRowPerContent, Insert, Taken
<1>5. VectorMatchesContent'
  BY ContentAssumption DEF IInv, TypeOK, VectorMatchesContent, Insert, Taken
<1>6. HistoryComplete'
  BY ContentAssumption DEF IInv, TypeOK, HistoryComplete, Insert, Taken
<1> QED BY <1>1, <1>2, <1>3, <1>4, <1>5, <1>6 DEF IInv

\* AmendFind keeps the inductive invariant: the request names a row that exists; nothing is written.
LEMMA AmendFindKeeps ==
  ASSUME IInv, NEW r \in Clients, NEW k \in Owners, NEW i \in Ids, NEW c \in Contents, AmendFind(r, k, i, c)
  PROVE  IInv'
<1> USE DEF table, request, worker
<1>1. TypeOK'
  BY ContentAssumption DEF IInv, TypeOK, AmendFind, Owners, Stages
<1>2. TxHoldsRow' /\ LockHasOwner'
  BY ContentAssumption DEF IInv, TypeOK, TxHoldsRow, LockHasOwner, InTx, AmendFind
<1>3. OwnedStays' /\ TargetUsed'
  BY ContentAssumption DEF IInv, TypeOK, OwnedStays, TargetUsed, TxHoldsRow, InTx, AmendFind
<1>4. OneRowPerContent' /\ VectorMatchesContent' /\ HistoryComplete'
  BY DEF IInv, OneRowPerContent, VectorMatchesContent, HistoryComplete, AmendFind
<1> QED BY <1>1, <1>2, <1>3, <1>4 DEF IInv

\* AmendLock keeps the inductive invariant: the lock was free, so no other transaction loses its row.
LEMMA AmendLockKeeps ==
  ASSUME IInv, NEW r \in Clients, AmendLock(r)
  PROVE  IInv'
<1> USE DEF table, request, worker
<1>1. TypeOK'
  BY ContentAssumption DEF IInv, TypeOK, AmendLock, Owned, Owners, Stages
<1>2. TxHoldsRow' /\ LockHasOwner'
  BY ContentAssumption DEF IInv, TypeOK, TxHoldsRow, LockHasOwner, InTx, AmendLock, Owned
<1>3. OwnedStays' /\ TargetUsed'
  BY ContentAssumption DEF IInv, TypeOK, OwnedStays, TargetUsed, TxHoldsRow, InTx, AmendLock, Owned
<1>4. OneRowPerContent' /\ VectorMatchesContent' /\ HistoryComplete'
  BY DEF IInv, OneRowPerContent, VectorMatchesContent, HistoryComplete, AmendLock, Owned
<1> QED BY <1>1, <1>2, <1>3, <1>4 DEF IInv

\* AmendDup keeps the inductive invariant: the row is unchanged; a merged request gives its lock back.
LEMMA AmendDupKeeps ==
  ASSUME IInv, NEW r \in Clients, AmendDup(r)
  PROVE  IInv'
<1> USE DEF table, request, worker
<1>1. TypeOK'
  BY ContentAssumption DEF IInv, TypeOK, AmendDup, EndTx, Owners, Stages
<1>2. TxHoldsRow' /\ LockHasOwner'
  BY ContentAssumption DEF IInv, TypeOK, TxHoldsRow, LockHasOwner, InTx, AmendDup, EndTx
<1>3. OwnedStays' /\ TargetUsed'
  BY ContentAssumption DEF IInv, TypeOK, OwnedStays, TargetUsed, TxHoldsRow, InTx, AmendDup, EndTx
<1>4. OneRowPerContent' /\ VectorMatchesContent' /\ HistoryComplete'
  BY DEF IInv, OneRowPerContent, VectorMatchesContent, HistoryComplete, AmendDup, EndTx
<1> QED BY <1>1, <1>2, <1>3, <1>4 DEF IInv

\* AmendWrite keeps the inductive invariant: the lock holder archives what it overwrites and clears the vector.
LEMMA AmendWriteKeeps ==
  ASSUME IInv, NEW r \in Clients, AmendWrite(r)
  PROVE  IInv'
<1> USE DEF table, request, worker
<1>1. TypeOK'
  BY ContentAssumption DEF IInv, TypeOK, AmendWrite, EndTx, Taken, Owners, Stages
<1>2. TxHoldsRow' /\ LockHasOwner'
  BY ContentAssumption DEF IInv, TypeOK, TxHoldsRow, LockHasOwner, InTx, AmendWrite, EndTx, Taken
<1>3. OwnedStays' /\ TargetUsed'
  BY ContentAssumption DEF IInv, TypeOK, OwnedStays, TargetUsed, TxHoldsRow, InTx, AmendWrite, EndTx, Taken
<1>4. OneRowPerContent'
  BY ContentAssumption DEF IInv, TypeOK, OneRowPerContent, TxHoldsRow, InTx, AmendWrite, EndTx, Taken
<1>5. VectorMatchesContent'
  BY ContentAssumption DEF IInv, TypeOK, VectorMatchesContent, TxHoldsRow, InTx, AmendWrite, EndTx, Taken
<1>6. HistoryComplete'
  BY ContentAssumption DEF IInv, TypeOK, HistoryComplete, TxHoldsRow, InTx, AmendWrite, EndTx, Taken
<1> QED BY <1>1, <1>2, <1>3, <1>4, <1>5, <1>6 DEF IInv

\* AmendAbort keeps the inductive invariant: nothing of the transaction stays.
LEMMA AmendAbortKeeps ==
  ASSUME IInv, NEW r \in Clients, AmendAbort(r)
  PROVE  IInv'
<1> USE DEF table, request, worker
<1>1. TypeOK'
  BY ContentAssumption DEF IInv, TypeOK, AmendAbort, EndTx, Owners, Stages
<1>2. TxHoldsRow' /\ LockHasOwner'
  BY ContentAssumption DEF IInv, TypeOK, TxHoldsRow, LockHasOwner, InTx, AmendAbort, EndTx
<1>3. OwnedStays' /\ TargetUsed'
  BY ContentAssumption DEF IInv, TypeOK, OwnedStays, TargetUsed, TxHoldsRow, InTx, AmendAbort, EndTx
<1>4. OneRowPerContent' /\ VectorMatchesContent' /\ HistoryComplete'
  BY DEF IInv, OneRowPerContent, VectorMatchesContent, HistoryComplete, AmendAbort, EndTx
<1> QED BY <1>1, <1>2, <1>3, <1>4 DEF IInv

\* ForgetFind keeps the inductive invariant: the request names a row that exists.
LEMMA ForgetFindKeeps ==
  ASSUME IInv, NEW r \in Clients, NEW k \in Owners, NEW i \in Ids, ForgetFind(r, k, i)
  PROVE  IInv'
<1> USE DEF table, request, worker
<1>1. TypeOK'
  BY ContentAssumption DEF IInv, TypeOK, ForgetFind, Owners, Stages
<1>2. TxHoldsRow' /\ LockHasOwner'
  BY ContentAssumption DEF IInv, TypeOK, TxHoldsRow, LockHasOwner, InTx, ForgetFind
<1>3. OwnedStays' /\ TargetUsed'
  BY ContentAssumption DEF IInv, TypeOK, OwnedStays, TargetUsed, TxHoldsRow, InTx, ForgetFind
<1>4. OneRowPerContent' /\ VectorMatchesContent' /\ HistoryComplete'
  BY DEF IInv, OneRowPerContent, VectorMatchesContent, HistoryComplete, ForgetFind
<1> QED BY <1>1, <1>2, <1>3, <1>4 DEF IInv

\* ForgetOwn keeps the inductive invariant: the ownership check is what OwnedStays records.
LEMMA ForgetOwnKeeps ==
  ASSUME IInv, NEW r \in Clients, ForgetOwn(r)
  PROVE  IInv'
<1> USE DEF table, request, worker
<1>1. TypeOK'
  BY ContentAssumption DEF IInv, TypeOK, ForgetOwn, Owned, Owners, Stages
<1>2. TxHoldsRow' /\ LockHasOwner'
  BY ContentAssumption DEF IInv, TypeOK, TxHoldsRow, LockHasOwner, InTx, ForgetOwn, Owned
<1>3. OwnedStays' /\ TargetUsed'
  BY ContentAssumption DEF IInv, TypeOK, OwnedStays, TargetUsed, TxHoldsRow, InTx, ForgetOwn, Owned
<1>4. OneRowPerContent' /\ VectorMatchesContent' /\ HistoryComplete'
  BY DEF IInv, OneRowPerContent, VectorMatchesContent, HistoryComplete, ForgetOwn, Owned
<1> QED BY <1>1, <1>2, <1>3, <1>4 DEF IInv

\* ForgetDelete keeps the inductive invariant: no transaction holds the row, and its archive goes with it.
LEMMA ForgetDeleteKeeps ==
  ASSUME IInv, NEW r \in Clients, ForgetDelete(r)
  PROVE  IInv'
<1> USE DEF table, request, worker
<1>1. TypeOK'
  BY ContentAssumption DEF IInv, TypeOK, ForgetDelete, Remove, Unlocked, Owners, Stages
<1>2. TxHoldsRow' /\ LockHasOwner'
  BY ContentAssumption DEF IInv, TypeOK, TxHoldsRow, LockHasOwner, InTx, ForgetDelete, Remove, Unlocked
<1>3. OwnedStays' /\ TargetUsed'
  BY ContentAssumption DEF IInv, TypeOK, OwnedStays, TargetUsed, TxHoldsRow, InTx, ForgetDelete, Remove, Unlocked
<1>4. OneRowPerContent'
  BY ContentAssumption DEF IInv, TypeOK, OneRowPerContent, ForgetDelete, Remove, Unlocked
<1>5. VectorMatchesContent'
  BY ContentAssumption DEF IInv, TypeOK, VectorMatchesContent, ForgetDelete, Remove, Unlocked
<1>6. HistoryComplete'
  BY ContentAssumption DEF IInv, TypeOK, HistoryComplete, ForgetDelete, Remove, Unlocked
<1> QED BY <1>1, <1>2, <1>3, <1>4, <1>5, <1>6 DEF IInv

\* Quit keeps the inductive invariant: nothing is written.
LEMMA QuitKeeps ==
  ASSUME IInv, NEW r \in Clients, Quit(r)
  PROVE  IInv'
<1> USE DEF table, request, worker
<1>1. TypeOK'
  BY ContentAssumption DEF IInv, TypeOK, Quit, Owners, Stages
<1>2. TxHoldsRow' /\ LockHasOwner'
  BY ContentAssumption DEF IInv, TypeOK, TxHoldsRow, LockHasOwner, InTx, Quit
<1>3. OwnedStays' /\ TargetUsed'
  BY ContentAssumption DEF IInv, TypeOK, OwnedStays, TargetUsed, TxHoldsRow, InTx, Quit
<1>4. OneRowPerContent' /\ VectorMatchesContent' /\ HistoryComplete'
  BY DEF IInv, OneRowPerContent, VectorMatchesContent, HistoryComplete, Quit
<1> QED BY <1>1, <1>2, <1>3, <1>4 DEF IInv

\* DeleteOwned keeps the inductive invariant: no transaction holds the rows, and their archive goes with them.
LEMMA DeleteOwnedKeeps ==
  ASSUME IInv, NEW k \in Owners, NEW S \in SUBSET live, DeleteOwned(k, S)
  PROVE  IInv'
<1> USE DEF table, request, worker
<1>1. TypeOK'
  BY ContentAssumption DEF IInv, TypeOK, DeleteOwned, Remove, Unlocked, Owners, Stages
<1>2. TxHoldsRow' /\ LockHasOwner'
  BY ContentAssumption DEF IInv, TypeOK, TxHoldsRow, LockHasOwner, InTx, DeleteOwned, Remove, Unlocked
<1>3. OwnedStays' /\ TargetUsed'
  BY ContentAssumption DEF IInv, TypeOK, OwnedStays, TargetUsed, TxHoldsRow, InTx, DeleteOwned, Remove, Unlocked
<1>4. OneRowPerContent'
  BY ContentAssumption DEF IInv, TypeOK, OneRowPerContent, DeleteOwned, Remove, Unlocked
<1>5. VectorMatchesContent'
  BY ContentAssumption DEF IInv, TypeOK, VectorMatchesContent, DeleteOwned, Remove, Unlocked
<1>6. HistoryComplete'
  BY ContentAssumption DEF IInv, TypeOK, HistoryComplete, DeleteOwned, Remove, Unlocked
<1> QED BY <1>1, <1>2, <1>3, <1>4, <1>5, <1>6 DEF IInv

\* DeleteExpired keeps the inductive invariant: no transaction holds the rows, and their archive goes with them.
LEMMA DeleteExpiredKeeps ==
  ASSUME IInv, NEW S \in SUBSET live, DeleteExpired(S)
  PROVE  IInv'
<1> USE DEF table, request, worker
<1>1. TypeOK'
  BY ContentAssumption DEF IInv, TypeOK, DeleteExpired, Remove, Unlocked, Owners, Stages
<1>2. TxHoldsRow' /\ LockHasOwner'
  BY ContentAssumption DEF IInv, TypeOK, TxHoldsRow, LockHasOwner, InTx, DeleteExpired, Remove, Unlocked
<1>3. OwnedStays' /\ TargetUsed'
  BY ContentAssumption DEF IInv, TypeOK, OwnedStays, TargetUsed, TxHoldsRow, InTx, DeleteExpired, Remove, Unlocked
<1>4. OneRowPerContent'
  BY ContentAssumption DEF IInv, TypeOK, OneRowPerContent, DeleteExpired, Remove, Unlocked
<1>5. VectorMatchesContent'
  BY ContentAssumption DEF IInv, TypeOK, VectorMatchesContent, DeleteExpired, Remove, Unlocked
<1>6. HistoryComplete'
  BY ContentAssumption DEF IInv, TypeOK, HistoryComplete, DeleteExpired, Remove, Unlocked
<1> QED BY <1>1, <1>2, <1>3, <1>4, <1>5, <1>6 DEF IInv

\* Select keeps the inductive invariant: only the worker changes.
LEMMA SelectKeeps ==
  ASSUME IInv, NEW w \in Workers, NEW i \in Ids, Select(w, i)
  PROVE  IInv'
<1> USE DEF table, request, worker
<1>1. TypeOK'
  BY ContentAssumption DEF IInv, TypeOK, Select, Owners, Stages
<1>2. TxHoldsRow' /\ LockHasOwner'
  BY ContentAssumption DEF IInv, TypeOK, TxHoldsRow, LockHasOwner, InTx, Select
<1>3. OwnedStays' /\ TargetUsed'
  BY ContentAssumption DEF IInv, TypeOK, OwnedStays, TargetUsed, TxHoldsRow, InTx, Select
<1>4. OneRowPerContent' /\ VectorMatchesContent' /\ HistoryComplete'
  BY DEF IInv, OneRowPerContent, VectorMatchesContent, HistoryComplete, Select
<1> QED BY <1>1, <1>2, <1>3, <1>4 DEF IInv

\* Store keeps the inductive invariant: the vector is stored only beside the content it was computed from.
LEMMA StoreKeeps ==
  ASSUME IInv, NEW w \in Workers, Store(w)
  PROVE  IInv'
<1> USE DEF table, request, worker
<1>1. TypeOK'
  BY ContentAssumption DEF IInv, TypeOK, Store, Owners, Stages
<1>2. TxHoldsRow' /\ LockHasOwner'
  BY ContentAssumption DEF IInv, TypeOK, TxHoldsRow, LockHasOwner, InTx, Store
<1>3. OwnedStays' /\ TargetUsed'
  BY ContentAssumption DEF IInv, TypeOK, OwnedStays, TargetUsed, TxHoldsRow, InTx, Store
<1>4. OneRowPerContent'
  BY ContentAssumption DEF IInv, TypeOK, OneRowPerContent, Store
<1>5. VectorMatchesContent'
  BY ContentAssumption DEF IInv, TypeOK, VectorMatchesContent, Store
<1>6. HistoryComplete'
  BY ContentAssumption DEF IInv, TypeOK, HistoryComplete, Store
<1> QED BY <1>1, <1>2, <1>3, <1>4, <1>5, <1>6 DEF IInv

\* Lose keeps the inductive invariant: only the worker changes.
LEMMA LoseKeeps ==
  ASSUME IInv, NEW w \in Workers, Lose(w)
  PROVE  IInv'
<1> USE DEF table, request, worker
<1>1. TypeOK'
  BY ContentAssumption DEF IInv, TypeOK, Lose, Owners, Stages
<1>2. TxHoldsRow' /\ LockHasOwner'
  BY ContentAssumption DEF IInv, TypeOK, TxHoldsRow, LockHasOwner, InTx, Lose
<1>3. OwnedStays' /\ TargetUsed'
  BY ContentAssumption DEF IInv, TypeOK, OwnedStays, TargetUsed, TxHoldsRow, InTx, Lose
<1>4. OneRowPerContent' /\ VectorMatchesContent' /\ HistoryComplete'
  BY DEF IInv, OneRowPerContent, VectorMatchesContent, HistoryComplete, Lose
<1> QED BY <1>1, <1>2, <1>3, <1>4 DEF IInv

\* Every step keeps the inductive invariant.
THEOREM NextIInv == IInv /\ [Next]_vars => IInv'
<1> SUFFICES ASSUME IInv, [Next]_vars PROVE IInv'
  OBVIOUS
<1>1. CASE UNCHANGED vars
  BY <1>1 DEF vars, table, request, worker, IInv, TypeOK, TxHoldsRow, LockHasOwner,
     OwnedStays, TargetUsed, OneRowPerContent, VectorMatchesContent, HistoryComplete, InTx
<1>2. ASSUME NEW r \in Clients, ClientStep(r) PROVE IInv'
  BY <1>2, AmendLockKeeps, AmendDupKeeps, AmendWriteKeeps, AmendAbortKeeps,
     ForgetOwnKeeps, ForgetDeleteKeeps, QuitKeeps DEF ClientStep
<1>3. ASSUME NEW w \in Workers, WorkerStep(w) \/ Lose(w) PROVE IInv'
  BY <1>3, SelectKeeps, StoreKeeps, LoseKeeps DEF WorkerStep
<1> QED
  BY <1>1, <1>2, <1>3, InsertKeeps, AmendFindKeeps, ForgetFindKeeps,
     DeleteOwnedKeeps, DeleteExpiredKeeps DEF Next

\* One row per owner and content, vectors of the present content, a complete
\* archive: in every behaviour of insert, update, delete and the embedding
\* worker, for any number of ids, keys, clients and workers.
THEOREM FragmentContentSafe ==
  Spec => [](TypeOK /\ ContentSafe)
<1>1. IInv => TypeOK /\ ContentSafe
  BY DEF IInv, ContentSafe
<1> QED BY InitIInv, NextIInv, <1>1, PTL DEF Spec

\* A step that ends a request's write was made for the row's owner or the
\* master.
LEMMA StepWritesByOwner ==
  ASSUME IInv, [Next]_vars, NEW r \in Clients,
         pc[r] \in {"clear", "owned"}
  PROVE  caller[r] \in {Master, key[target[r]]}
BY DEF IInv, TxHoldsRow, OwnedStays, InTx

\* Only the owner or the master changes or deletes a row (WritesByOwner).
THEOREM FragmentContentOwner == Spec => WritesByOwner
<1>1. IInv /\ [Next]_vars =>
        [\A r \in Clients :
           LET i == target[r]
           IN  pc[r] \in {"clear", "owned"} /\ pc'[r] = "idle" /\ i \in live
               /\ (i \notin live' \/ content'[i] # content[i])
               => caller[r] \in {Master, key[i]}]_vars
  BY StepWritesByOwner
<1> QED BY InitIInv, NextIInv, <1>1, PTL DEF Spec, WritesByOwner

---------------------------------------------------------------------------
(* Induction over the numbers, and what it says of recursive functions.    *)

\* A set of numbers has a least one.
LEMMA LeastNumber ==
  ASSUME NEW T \in SUBSET Nat, T # {}
  PROVE  \E x \in T : \A y \in T : x <= y
  <1> DEFINE R == {ss \in Nat \X Nat : ss[1] < ss[2]}
  <1>1. IsWellFoundedOn(R, Nat)
    BY NatLessThanWellFounded DEF OpToRel
  <1>2. \A x, y \in Nat : <<y, x>> \in R <=> y < x
    OBVIOUS
  <1> HIDE DEF R
  <1>3. PICK x \in T : \A y \in T : ~(<<y, x>> \in R)
    BY <1>1, WFMin
  <1>4. x \in Nat /\ \A y \in T : y \in Nat /\ ~(y < x)
    BY <1>2, <1>3
  <1> QED  BY <1>4

\* Induction up to N, for a set.
LEMMA Upto ==
  ASSUME NEW N \in Nat, NEW T, 0 \in T, \A n \in 1..N : n - 1 \in T => n \in T
  PROVE  \A n \in 0..N : n \in T
  <1> DEFINE D == (0..N) \ T
  <1> SUFFICES ASSUME D # {}  PROVE FALSE
    OBVIOUS
  <1>1. D \in SUBSET Nat
    OBVIOUS
  <1> HIDE DEF D
  <1>2. PICK m \in D : \A y \in D : m <= y
    BY <1>1, LeastNumber
  <1>3. m # 0 /\ m \in 1..N /\ m - 1 \in 0..N /\ m \notin T
    BY <1>2 DEF D
  <1>4. m - 1 \in T
    BY <1>2, <1>3 DEF D
  <1> QED  BY <1>3, <1>4

\* f starts with b and goes on as G says for n steps
Follows(f, b, G, S, n) ==
  /\ f \in [0..n -> S] /\ f[0] = b
  /\ \A i \in 1..n : f[i] = G[i][f[i - 1]]

\* A loop of N rounds has its states.
LEMMA Loop ==
  ASSUME NEW N \in Nat, NEW S, NEW b \in S, NEW G \in [1..N -> [S -> S]]
  PROVE  \E f : Follows(f, b, G, S, N)
  <1> DEFINE T == {n \in 0..N : \E f : Follows(f, b, G, S, n)}
  <1>1. 0 \in T
    <2>1. Follows([i \in 0..0 |-> b], b, G, S, 0)
      BY DEF Follows
    <2> QED  BY <2>1
  <1>2. ASSUME NEW m \in 1..N, m - 1 \in T  PROVE m \in T
    <2> DEFINE n == m - 1
    <2>0. n \in Nat /\ m = n + 1 /\ n + 1 \in 1..N
      OBVIOUS
    <2>1. PICK f : Follows(f, b, G, S, n)
      BY <1>2
    <2> HIDE DEF n
    <2> DEFINE g == [i \in 0..(n + 1) |-> IF i <= n THEN f[i] ELSE G[n + 1][f[n]]]
    <2>2. f \in [0..n -> S] /\ f[0] = b /\ (\A i \in 1..n : f[i] = G[i][f[i - 1]])
      BY <2>1 DEF Follows
    <2>3. n \in 0..n /\ f[n] \in S /\ G[n + 1][f[n]] \in S
      BY <2>0, <2>2
    <2>4. \A i \in 0..(n + 1) : g[i] = IF i <= n THEN f[i] ELSE G[n + 1][f[n]]
      OBVIOUS
    <2>5. g \in [0..(n + 1) -> S]
      BY <2>0, <2>2, <2>3
    <2> HIDE DEF g
    <2>6. \A i \in 1..(n + 1) : g[i] = G[i][g[i - 1]]
      <3> TAKE i \in 1..(n + 1)
      <3>1. CASE i <= n
        BY <2>0, <2>2, <2>4, <3>1
      <3>2. CASE i = n + 1
        BY <2>0, <2>3, <2>4, <3>2
      <3> QED  BY <2>0, <3>1, <3>2
    <2>7. g[0] = b
      BY <2>0, <2>2, <2>4
    <2>8. Follows(g, b, G, S, n + 1)
      BY <2>5, <2>6, <2>7 DEF Follows
    <2> QED  BY <2>0, <2>8
  <1>3. N \in T
    <2> HIDE DEF T
    <2>1. \A n \in 0..N : n \in T
      BY <1>1, <1>2, Upto
    <2> QED  BY <2>1
  <1> QED  BY <1>3

---------------------------------------------------------------------------
(* The cuts of a ranked list.                                              *)

Candidate == [cost : Nat, tag : STRING]

\* g[n] is the cost of the first n places as far as they are in K
Sums(g, s, K) ==
  /\ g \in [0..Len(s) -> Nat] /\ g[0] = 0
  /\ \A i \in 1..Len(s) : g[i] = g[i - 1] + (IF i \in K THEN s[i].cost ELSE 0)

\* The recursive function in Cost has such values.
LEMMA CostSums ==
  ASSUME NEW s \in Seq(Candidate), NEW K
  PROVE  \E g : Sums(g, s, K) /\ Ranking!Cost(s, K) = g[Len(s)]
  <1> DEFINE add(i) == IF i \in K THEN s[i].cost ELSE 0
             G == [i \in 1..Len(s) |-> [x \in Nat |-> x + add(i)]]
             body(f) == [n \in 0..Len(s) |-> IF n = 0 THEN 0 ELSE f[n - 1] + add(n)]
             sum == CHOOSE f : f = body(f)
  <1>0. Len(s) \in Nat /\ \A i \in 1..Len(s) : add(i) \in Nat
    <2>1. \A i \in 1..Len(s) : s[i] \in Candidate
      OBVIOUS
    <2>2. \A x \in Candidate : x.cost \in Nat
      BY DEF Candidate
    <2> QED  BY <2>1, <2>2
  <1>s. sum = CHOOSE f : f = body(f)
    OBVIOUS
  <1>c. Ranking!Cost(s, K) = sum[Len(s)]
    BY DEF Ranking!Cost
  <1>d. \A i \in 1..Len(s) : add(i) = IF i \in K THEN s[i].cost ELSE 0
    OBVIOUS
  <1> HIDE DEF add
  <1>1. G \in [1..Len(s) -> [Nat -> Nat]] /\ \A i \in 1..Len(s) : \A x \in Nat : G[i][x] = x + add(i)
    BY <1>0
  <1> HIDE DEF G
  <1>2. PICK g : Follows(g, 0, G, Nat, Len(s))
    BY <1>0, <1>1, Loop
  <1>3. g \in [0..Len(s) -> Nat] /\ g[0] = 0 /\ \A i \in 1..Len(s) : g[i] = g[i - 1] + add(i)
    <2>1. g \in [0..Len(s) -> Nat] /\ g[0] = 0 /\ \A i \in 1..Len(s) : g[i] = G[i][g[i - 1]]
      BY <1>2 DEF Follows
    <2>2. \A i \in 1..Len(s) : i - 1 \in 0..Len(s)
      BY <1>0
    <2>3. \A i \in 1..Len(s) : g[i - 1] \in Nat
      BY <2>1, <2>2
    <2> QED  BY <1>1, <2>1, <2>3
  <1>4. g = body(g)
    BY <1>0, <1>3
  <1>5. sum = body(sum)
    <2> HIDE DEF body, sum
    <2> QED  BY <1>s, <1>4
  <1>6. \A n \in 0..Len(s) : sum[n] = IF n = 0 THEN 0 ELSE sum[n - 1] + add(n)
    <2> HIDE DEF sum
    <2> QED  BY <1>5
  <1> HIDE DEF sum, body
  <1>7. \A n \in 0..Len(s) : n \in {i \in 0..Len(s) : sum[i] = g[i]}
    <2> DEFINE T == {i \in 0..Len(s) : sum[i] = g[i]}
    <2>1. 0 \in T
      BY <1>0, <1>3, <1>6
    <2>2. ASSUME NEW n \in 1..Len(s), n - 1 \in T  PROVE n \in T
      BY <1>0, <1>3, <1>6, <2>2
    <2> HIDE DEF T
    <2>3. \A n \in 0..Len(s) : n \in T
      BY <1>0, <2>1, <2>2, Upto
    <2> QED  BY <2>3 DEF T
  <1>8. sum[Len(s)] = g[Len(s)]
    BY <1>0, <1>7
  <1> QED  BY <1>c, <1>d, <1>3, <1>8 DEF Sums

\* A candidate costs what it costs.
LEMMA CostOfOne ==
  ASSUME NEW s \in Seq(Candidate), NEW n \in 1..Len(s)
  PROVE  Ranking!Cost(s, {n}) = s[n].cost
  <1>0. Len(s) \in Nat /\ s[n].cost \in Nat
    <2>1. s[n] \in Candidate
      OBVIOUS
    <2> QED  BY <2>1 DEF Candidate
  <1> DEFINE N == Len(s)
             c == s[n].cost
  <1>2. PICK h : Sums(h, s, {n}) /\ Ranking!Cost(s, {n}) = h[N]
    BY CostSums
  <1>4. h \in [0..N -> Nat] /\ h[0] = 0 /\ \A i \in 1..N : h[i] = h[i - 1] + (IF i = n THEN c ELSE 0)
    BY <1>2 DEF Sums
  <1>5. N \in Nat /\ c \in Nat /\ n \in 1..N
    BY <1>0
  <1> HIDE DEF N, c
  <1> DEFINE T == {i \in 0..N : h[i] = IF i >= n THEN c ELSE 0}
  <1>6. 0 \in T
    BY <1>4, <1>5
  <1>7. ASSUME NEW i \in 1..N, i - 1 \in T  PROVE i \in T
    <2>1. h[i - 1] = (IF i - 1 >= n THEN c ELSE 0) /\ i \in 0..N
      BY <1>5, <1>7
    <2>3. h[i] = IF i >= n THEN c ELSE 0
      BY <1>4, <1>5, <2>1
    <2> QED  BY <2>1, <2>3
  <1>8. \A i \in 0..N : i \in T
    <2> HIDE DEF T
    <2> QED  BY <1>5, <1>6, <1>7, Upto
  <1>9. h[N] = c
    BY <1>5, <1>8
  <1> QED  BY <1>2, <1>9 DEF N, c

\* Costs are numbers, those of more places no smaller, and those of two sets add up.
LEMMA CostOfTwo ==
  ASSUME NEW s \in Seq(Candidate), NEW K, NEW L, K \cap L = {}
  PROVE  /\ Ranking!Cost(s, K) \in Nat /\ Ranking!Cost(s, L) \in Nat
         /\ Ranking!Cost(s, K \cup L) = Ranking!Cost(s, K) + Ranking!Cost(s, L)
  <1> DEFINE N == Len(s)
  <1>0. \A i \in 1..N : s[i].cost \in Nat
    <2>1. \A i \in 1..Len(s) : s[i] \in Candidate
      OBVIOUS
    <2>2. \A x \in Candidate : x.cost \in Nat
      BY DEF Candidate
    <2> QED  BY <2>1, <2>2
  <1>1. PICK g : Sums(g, s, K) /\ Ranking!Cost(s, K) = g[N]
    BY CostSums
  <1>2. PICK h : Sums(h, s, L) /\ Ranking!Cost(s, L) = h[N]
    BY CostSums
  <1>3. PICK f : Sums(f, s, K \cup L) /\ Ranking!Cost(s, K \cup L) = f[N]
    BY CostSums
  <1>4. /\ g \in [0..N -> Nat] /\ g[0] = 0
        /\ \A i \in 1..N : g[i] = g[i - 1] + (IF i \in K THEN s[i].cost ELSE 0)
    BY <1>1 DEF Sums
  <1>5. /\ h \in [0..N -> Nat] /\ h[0] = 0
        /\ \A i \in 1..N : h[i] = h[i - 1] + (IF i \in L THEN s[i].cost ELSE 0)
    BY <1>2 DEF Sums
  <1>6. /\ f \in [0..N -> Nat] /\ f[0] = 0
        /\ \A i \in 1..N : f[i] = f[i - 1] + (IF i \in K \cup L THEN s[i].cost ELSE 0)
    BY <1>3 DEF Sums
  <1>7. N \in Nat
    OBVIOUS
  <1> HIDE DEF N
  <1> DEFINE T == {i \in 0..N : f[i] = g[i] + h[i]}
  <1>8. 0 \in T
    BY <1>4, <1>5, <1>6, <1>7
  <1>9. ASSUME NEW i \in 1..N, i - 1 \in T  PROVE i \in T
    <2> DEFINE c == s[i].cost
    <2>1. i \in 0..N /\ i - 1 \in 0..N /\ c \in Nat /\ f[i - 1] = g[i - 1] + h[i - 1]
      BY <1>0, <1>7, <1>9
    <2>2. g[i - 1] \in Nat /\ h[i - 1] \in Nat
      BY <1>4, <1>5, <2>1
    <2>3. /\ g[i] = g[i - 1] + (IF i \in K THEN c ELSE 0)
          /\ h[i] = h[i - 1] + (IF i \in L THEN c ELSE 0)
          /\ f[i] = f[i - 1] + (IF i \in K \cup L THEN c ELSE 0)
      BY <1>4, <1>5, <1>6
    <2> HIDE DEF c
    <2>4. f[i] = g[i] + h[i]
      BY <2>1, <2>2, <2>3
    <2> QED  BY <2>1, <2>4
  <1>10. \A i \in 0..N : i \in T
    <2> HIDE DEF T
    <2> QED  BY <1>7, <1>8, <1>9, Upto
  <1>11. f[N] = g[N] + h[N] /\ g[N] \in Nat /\ h[N] \in Nat
    BY <1>4, <1>5, <1>7, <1>10
  <1> QED  BY <1>1, <1>2, <1>3, <1>11

\* No places cost nothing.
LEMMA CostOfNone == ASSUME NEW s \in Seq(Candidate)  PROVE Ranking!Cost(s, {}) = 0
  <1>1. {} \cap {} = {} /\ {} \cup {} = {}
    OBVIOUS
  <1>2. /\ Ranking!Cost(s, {}) \in Nat
        /\ Ranking!Cost(s, {} \cup {}) = Ranking!Cost(s, {}) + Ranking!Cost(s, {})
    BY <1>1, CostOfTwo
  <1> QED  BY <1>1, <1>2

\* More places cost no less.
LEMMA CostOfMore ==
  ASSUME NEW s \in Seq(Candidate), NEW K, NEW L, K \subseteq L
  PROVE  Ranking!Cost(s, K) <= Ranking!Cost(s, L)
  <1> DEFINE R == L \ K
  <1>1. K \cap R = {} /\ L = K \cup R
    OBVIOUS
  <1> HIDE DEF R
  <1>2. /\ Ranking!Cost(s, K) \in Nat /\ Ranking!Cost(s, R) \in Nat
        /\ Ranking!Cost(s, L) = Ranking!Cost(s, K) + Ranking!Cost(s, R)
    BY <1>1, CostOfTwo
  <1> QED  BY <1>2

\* Fit adds to the first ones only what the budget has room for.
LEMMA FitKeeps ==
  ASSUME NEW s \in Seq(Candidate), NEW first \in SUBSET (1..Len(s)), NEW b \in Nat
  PROVE  LET fit == Ranking!Fit(s, first, b)
         IN  first \subseteq fit /\ (Ranking!Cost(s, fit) <= b \/ fit = first)
  <1> DEFINE S == SUBSET (1..Len(s))
             step(p, n) == IF n \notin p /\ Ranking!Cost(s, p) + s[n].cost <= b THEN p \cup {n} ELSE p
             G == [n \in 1..Len(s) |-> [p \in S |-> step(p, n)]]
             body(f) == [n \in 0..Len(s) |-> IF n = 0 THEN first ELSE step(f[n - 1], n)]
             chosen == CHOOSE f : f = body(f)
  <1>0. Len(s) \in Nat /\ first \in S /\ \A n \in 1..Len(s) : n - 1 \in 0..Len(s)
    OBVIOUS
  <1>p. chosen = CHOOSE f : f = body(f)
    OBVIOUS
  <1>f. Ranking!Fit(s, first, b) = chosen[Len(s)]
    BY DEF Ranking!Fit
  <1>1. \A n \in 1..Len(s) : \A p \in S : step(p, n) \in S
    OBVIOUS
  <1>d. \A n, p : step(p, n) = IF n \notin p /\ Ranking!Cost(s, p) + s[n].cost <= b THEN p \cup {n} ELSE p
    OBVIOUS
  <1> HIDE DEF step, S
  <1>2. G \in [1..Len(s) -> [S -> S]] /\ \A n \in 1..Len(s) : \A p \in S : G[n][p] = step(p, n)
    BY <1>1
  <1> HIDE DEF G
  <1>3. PICK g : Follows(g, first, G, S, Len(s))
    BY <1>0, <1>2, Loop
  <1>4. g \in [0..Len(s) -> S] /\ g[0] = first /\ \A n \in 1..Len(s) : g[n] = step(g[n - 1], n)
    <2>1. g \in [0..Len(s) -> S] /\ g[0] = first /\ \A n \in 1..Len(s) : g[n] = G[n][g[n - 1]]
      BY <1>3 DEF Follows
    <2>2. \A n \in 1..Len(s) : g[n - 1] \in S
      BY <1>0, <2>1
    <2> QED  BY <1>2, <2>1, <2>2
  <1>5. g = body(g)
    BY <1>0, <1>4
  <1>6. chosen = body(chosen)
    <2> HIDE DEF body, chosen
    <2> QED  BY <1>p, <1>5
  <1>7. \A n \in 0..Len(s) : chosen[n] = IF n = 0 THEN first ELSE step(chosen[n - 1], n)
    <2> HIDE DEF chosen
    <2> QED  BY <1>6
  <1> HIDE DEF chosen, body
  <1> DEFINE T == {n \in 0..Len(s) : first \subseteq chosen[n]
                                     /\ (Ranking!Cost(s, chosen[n]) <= b \/ chosen[n] = first)}
  <1>8. 0 \in T
    BY <1>0, <1>7
  <1>9. ASSUME NEW n \in 1..Len(s), n - 1 \in T  PROVE n \in T
    <2> DEFINE p == chosen[n - 1]
    <2>1. n \in 0..Len(s) /\ first \subseteq p /\ (Ranking!Cost(s, p) <= b \/ p = first)
      BY <1>0, <1>9
    <2>2. chosen[n] = IF n \notin p /\ Ranking!Cost(s, p) + s[n].cost <= b THEN p \cup {n} ELSE p
      <3>1. n # 0 /\ chosen[n] = step(p, n)
        BY <1>0, <1>7, <2>1
      <3> QED  BY <1>d, <3>1
    <2> HIDE DEF p
    <2>3. CASE n \notin p /\ Ranking!Cost(s, p) + s[n].cost <= b
      <3>1. Ranking!Cost(s, p \cup {n}) = Ranking!Cost(s, p) + s[n].cost
        <4>1. p \cap {n} = {}
          BY <2>3
        <4>2. Ranking!Cost(s, p \cup {n}) = Ranking!Cost(s, p) + Ranking!Cost(s, {n})
          BY <4>1, CostOfTwo
        <4> QED  BY <4>2, CostOfOne
      <3> QED  BY <2>1, <2>2, <2>3, <3>1
    <2>4. CASE ~(n \notin p /\ Ranking!Cost(s, p) + s[n].cost <= b)
      BY <2>1, <2>2, <2>4
    <2> QED  BY <2>3, <2>4
  <1>10. \A n \in 0..Len(s) : n \in T
    <2> HIDE DEF T
    <2> QED  BY <1>0, <1>8, <1>9, Upto
  <1> QED  BY <1>0, <1>f, <1>10

\* Take keeps within its limit.
LEMMA TakeKeeps ==
  ASSUME NEW s \in Seq(Candidate), NEW sought \in SUBSET (1..Len(s)), NEW limit \in Nat
  PROVE  Ranking!Cost(s, Ranking!Take(s, limit, sought)) <= limit
  <1> DEFINE N == Len(s)
             K == Ranking!Take(s, limit, sought)
             Up(n) == {m \in K : m <= n}
  <1>0. N \in Nat /\ N \in 0..N
    OBVIOUS
  <1>1. /\ K \subseteq 1..N
        /\ \A n \in 1..N : n \in K <=> n \in sought /\ Ranking!Cost(s, {m \in sought : m <= n}) <= limit
    BY DEF Ranking!Take
  <1> DEFINE T == {n \in 0..N : Ranking!Cost(s, Up(n)) <= limit}
  <1>2. 0 \in T
    <2>1. Up(0) = {}
      BY <1>1
    <2>2. Ranking!Cost(s, Up(0)) = Ranking!Cost(s, {})
      BY <2>1
    <2>3. Ranking!Cost(s, Up(0)) <= limit
      <3> HIDE DEF Up
      <3> QED  BY <2>2, CostOfNone
    <2> QED  BY <1>0, <2>3
  <1>3. ASSUME NEW n \in 1..N, n - 1 \in T  PROVE n \in T
    <2>0. n \in 0..N /\ n - 1 \in 0..N /\ Ranking!Cost(s, Up(n - 1)) <= limit
      BY <1>0, <1>3
    <2>1. CASE n \in K
      <3>1. Ranking!Cost(s, {m \in sought : m <= n}) <= limit
        BY <1>1, <2>1
      <3>2. Up(n) \subseteq {m \in sought : m <= n}
        BY <1>1
      <3>3. /\ Ranking!Cost(s, Up(n)) <= Ranking!Cost(s, {m \in sought : m <= n})
            /\ Ranking!Cost(s, Up(n)) \in Nat /\ Ranking!Cost(s, {m \in sought : m <= n}) \in Nat
        <4> HIDE DEF K, N
        <4>1. Up(n) \cap {} = {}
          OBVIOUS
        <4>2. {m \in sought : m <= n} \cap {} = {}
          OBVIOUS
        <4> QED  BY <3>2, <4>1, <4>2, CostOfMore, CostOfTwo
      <3> QED  BY <2>0, <3>1, <3>3
    <2>2. CASE n \notin K
      <3>1. Up(n) = Up(n - 1)
        BY <1>0, <1>1, <2>2
      <3> QED  BY <2>0, <3>1
    <2> QED  BY <2>1, <2>2
  <1>4. \A n \in 0..N : n \in T
    <2> HIDE DEF T, N
    <2> QED  BY <1>0, <1>2, <1>3, Upto
  <1>5. Up(N) = K
    BY <1>1
  <1> QED  BY <1>0, <1>4, <1>5

\* Take has the first place sought when that alone is within the limit.
LEMMA TakeHasFirst ==
  ASSUME NEW s \in Seq(Candidate), NEW sought \in SUBSET (1..Len(s)), NEW limit \in Nat,
         NEW n \in sought, \A m \in sought : n <= m, s[n].cost <= limit
  PROVE  n \in Ranking!Take(s, limit, sought)
  <1>1. {m \in sought : m <= n} = {n}
    <2>1. \A m \in sought : m \in Nat /\ n \in Nat /\ (m <= n => m = n)
      OBVIOUS
    <2> QED  BY <2>1
  <1>2. Ranking!Cost(s, {n}) = s[n].cost
    BY CostOfOne
  <1> QED  BY <1>1, <1>2 DEF Ranking!Take

\* Trim keeps the budget and has the best of each kind that fits its share.
LEMMA TrimFair ==
  ASSUME NEW s \in Seq(Candidate), NEW b \in Nat
  PROVE  /\ Ranking!Cost(s, Ranking!Trim(s, b)) <= b
         /\ \A n \in Ranking!Tagged(s, "exact") :
              (\A m \in Ranking!Tagged(s, "exact") : n <= m) /\ s[n].cost <= b \div 2
                => n \in Ranking!Trim(s, b)
         /\ \A n \in Ranking!Tagged(s, "supplement") :
              (\A m \in Ranking!Tagged(s, "supplement") : n <= m) /\ s[n].cost <= b \div 4
                => n \in Ranking!Trim(s, b)
  <1> DEFINE E == Ranking!Tagged(s, "exact")
             U == Ranking!Tagged(s, "supplement")
             exact == Ranking!Take(s, b \div 2, E)
             over == b - Ranking!Cost(s, exact)
             share == IF b \div 4 < over THEN b \div 4 ELSE over
             more == Ranking!Take(s, share, U)
  <1>1. /\ E \in SUBSET (1..Len(s)) /\ U \in SUBSET (1..Len(s)) /\ E \cap U = {}
        /\ exact \in SUBSET E /\ more \in SUBSET U
    BY DEF Ranking!Tagged, Ranking!Take
  <1>2. /\ b \div 2 \in Nat /\ b \div 4 \in Nat /\ (b \div 2) + (b \div 4) <= b
    OBVIOUS
  <1>3. Ranking!Trim(s, b) = IF E \cup U = {} THEN Ranking!Take(s, b, DOMAIN s)
                             ELSE Ranking!Fit(s, exact \cup more, b)
    BY DEF Ranking!Trim
  <1>s. share = IF b \div 4 < over THEN b \div 4 ELSE over
    OBVIOUS
  <1>o. over = b - Ranking!Cost(s, exact)
    OBVIOUS
  <1>x. exact = Ranking!Take(s, b \div 2, E) /\ more = Ranking!Take(s, share, U)
    OBVIOUS
  <1> HIDE DEF E, U, exact, over, share, more
  <1>4. Ranking!Cost(s, exact) <= b \div 2
    BY <1>1, <1>2, <1>x, TakeKeeps
  <1>5. /\ exact \cap more = {}
        /\ Ranking!Cost(s, exact) \in Nat /\ Ranking!Cost(s, more) \in Nat
        /\ Ranking!Cost(s, exact \cup more) = Ranking!Cost(s, exact) + Ranking!Cost(s, more)
    <2>1. exact \cap more = {}
      BY <1>1
    <2> QED  BY <2>1, CostOfTwo
  <1>6. over \in Nat /\ share \in Nat /\ share <= over /\ b \div 4 <= over /\ b \div 4 <= share
    BY <1>2, <1>4, <1>5, <1>o, <1>s
  <1>7. Ranking!Cost(s, more) <= share
    BY <1>1, <1>6, <1>x, TakeKeeps
  <1>8. Ranking!Cost(s, exact \cup more) <= b
    BY <1>5, <1>6, <1>7, <1>o
  <1>9. CASE E \cup U = {}
    <2>1. DOMAIN s \in SUBSET (1..Len(s))
      OBVIOUS
    <2>2. Ranking!Cost(s, Ranking!Take(s, b, DOMAIN s)) <= b
      BY <2>1, TakeKeeps
    <2> QED  BY <1>3, <1>9, <2>2 DEF E, U
  <1>10. CASE E \cup U # {}
    <2> DEFINE fit == Ranking!Fit(s, exact \cup more, b)
    <2>1. exact \cup more \subseteq fit /\ (Ranking!Cost(s, fit) <= b \/ fit = exact \cup more)
      BY <1>1, FitKeeps
    <2>2. Ranking!Trim(s, b) = fit
      BY <1>3, <1>10
    <2> HIDE DEF fit
    <2>3. Ranking!Cost(s, fit) <= b
      BY <1>8, <2>1
    <2>4. \A n \in E : (\A m \in E : n <= m) /\ s[n].cost <= b \div 2 => n \in fit
      BY <1>1, <1>2, <1>x, <2>1, TakeHasFirst
    <2>5. \A n \in U : (\A m \in U : n <= m) /\ s[n].cost <= b \div 4 => n \in fit
      <3> SUFFICES ASSUME NEW n \in U, \A m \in U : n <= m, s[n].cost <= b \div 4  PROVE n \in fit
        OBVIOUS
      <3>1. s[n].cost \in Nat /\ s[n].cost <= share
        <4>1. s[n] \in Candidate
          BY <1>1
        <4>2. s[n].cost \in Nat
          BY <4>1 DEF Candidate
        <4> QED  BY <1>2, <1>6, <4>2
      <3> QED  BY <1>1, <1>6, <1>x, <2>1, <3>1, TakeHasFirst
    <2> QED  BY <2>2, <2>3, <2>4, <2>5 DEF E, U
  <1> QED  BY <1>9, <1>10

\* What is kept is a cut of a list there may be.
CutsIInv ==
  /\ list \in Lists /\ budget \in Budgets
  /\ kept = <<>> \/ kept = [trim |-> Ranking!Trim(list, budget), final |-> Ranking!Final(list, budget),
                            context |-> Ranking!Select(list, budget)]

\* For any candidates and budgets: the cuts keep their budget and give the kinds their
\* share (_trimToTokenBudget, recall, selectRankedFragments).
THEOREM CutsAreFair == Ranking!Spec => []CutsFair
  <1>1. Ranking!Init => CutsIInv
    BY DEF Ranking!Init, CutsIInv
  <1>2. CutsIInv /\ [Ranking!Next]_(Ranking!vars) => CutsIInv'
    BY DEF CutsIInv, Ranking!Next, Ranking!Cut, Ranking!vars
  <1>3. CutsIInv => CutsFair
    <2> SUFFICES ASSUME CutsIInv, kept # <<>>  PROVE Ranking!BudgetKept /\ Ranking!SharesHonoured
      BY DEF CutsFair, Ranking!CutsFair
    <2>1. list \in Seq(Candidate) /\ budget \in Nat
      BY CutsAssumption DEF CutsIInv, Candidate
    <2>2. /\ kept.trim = Ranking!Trim(list, budget)
          /\ kept.final = Ranking!Fit(list, {}, budget)
          /\ kept.context = Ranking!Fit(list, Ranking!Tagged(list, "anchor"), budget)
      BY DEF CutsIInv, Ranking!Final, Ranking!Select
    <2>3. Ranking!Cost(list, kept.final) <= budget
      <3>1. \/ Ranking!Cost(list, Ranking!Fit(list, {}, budget)) <= budget
            \/ Ranking!Fit(list, {}, budget) = {}
        <4>1. {} \in SUBSET (1..Len(list))
          OBVIOUS
        <4> QED  BY <2>1, <4>1, FitKeeps
      <3> DEFINE final == Ranking!Fit(list, {}, budget)
      <3>2. Ranking!Cost(list, {}) = 0 /\ (Ranking!Cost(list, final) <= budget \/ final = {})
        BY <2>1, <3>1, CostOfNone
      <3>3. kept.final = final
        BY <2>2
      <3> HIDE DEF final
      <3> QED  BY <2>1, <3>2, <3>3
    <2>4. Ranking!Cost(list, kept.context) <= budget \/ kept.context = Ranking!Tagged(list, "anchor")
      <3>1. Ranking!Tagged(list, "anchor") \in SUBSET (1..Len(list))
        BY <2>1 DEF Ranking!Tagged
      <3> QED  BY <2>1, <2>2, <3>1, FitKeeps
    <2>5. Ranking!BudgetKept
      BY <2>1, <2>2, <2>3, <2>4, TrimFair DEF Ranking!BudgetKept
    <2>6. Ranking!SharesHonoured
      BY <2>1, <2>2, TrimFair DEF Ranking!SharesHonoured
    <2> QED  BY <2>5, <2>6
  <1> QED  BY <1>1, <1>2, <1>3, PTL DEF Ranking!Spec

---------------------------------------------------------------------------
(* The working memory.                                                     *)

\* g[n] is the number of tokens of the first n entries
Totals(g, s) ==
  /\ g \in [0..Len(s) -> Nat] /\ g[0] = 0
  /\ \A i \in 1..Len(s) : g[i] = g[i - 1] + WmTokens[s[i]]

\* The recursive function in Tokens has such values.
LEMMA TokensTotals ==
  ASSUME NEW s \in Seq(WmItems)
  PROVE  \E g : Totals(g, s) /\ Context!Tokens(s) = g[Len(s)]
  <1> DEFINE w(i) == WmTokens[s[i]]
             G == [i \in 1..Len(s) |-> [x \in Nat |-> x + w(i)]]
             body(f) == [n \in 0..Len(s) |-> IF n = 0 THEN 0 ELSE f[n - 1] + w(n)]
             sum == CHOOSE f : f = body(f)
  <1>0. Len(s) \in Nat /\ (\A i \in 1..Len(s) : w(i) \in Nat) /\ \A i \in 1..Len(s) : i - 1 \in 0..Len(s)
    <2>1. \A i \in 1..Len(s) : s[i] \in WmItems
      OBVIOUS
    <2> QED  BY <2>1, ContextAssumption
  <1>s. sum = CHOOSE f : f = body(f)
    OBVIOUS
  <1>c. Context!Tokens(s) = sum[Len(s)]
    BY DEF Context!Tokens
  <1>d. \A i \in 1..Len(s) : w(i) = WmTokens[s[i]]
    OBVIOUS
  <1> HIDE DEF w
  <1>1. G \in [1..Len(s) -> [Nat -> Nat]] /\ \A i \in 1..Len(s) : \A x \in Nat : G[i][x] = x + w(i)
    BY <1>0
  <1> HIDE DEF G
  <1>2. PICK g : Follows(g, 0, G, Nat, Len(s))
    BY <1>0, <1>1, Loop
  <1>3. g \in [0..Len(s) -> Nat] /\ g[0] = 0 /\ \A i \in 1..Len(s) : g[i] = g[i - 1] + w(i)
    <2>1. g \in [0..Len(s) -> Nat] /\ g[0] = 0 /\ \A i \in 1..Len(s) : g[i] = G[i][g[i - 1]]
      BY <1>2 DEF Follows
    <2>2. \A i \in 1..Len(s) : g[i - 1] \in Nat
      BY <1>0, <2>1
    <2> QED  BY <1>1, <2>1, <2>2
  <1>4. g = body(g)
    BY <1>0, <1>3
  <1>5. sum = body(sum)
    <2> HIDE DEF body, sum
    <2> QED  BY <1>s, <1>4
  <1>6. \A n \in 0..Len(s) : sum[n] = IF n = 0 THEN 0 ELSE sum[n - 1] + w(n)
    <2> HIDE DEF sum
    <2> QED  BY <1>5
  <1> HIDE DEF sum, body
  <1>7. \A n \in 0..Len(s) : sum[n] = g[n]
    <2> DEFINE T == {i \in 0..Len(s) : sum[i] = g[i]}
    <2>1. 0 \in T
      BY <1>0, <1>3, <1>6
    <2>2. ASSUME NEW n \in 1..Len(s), n - 1 \in T  PROVE n \in T
      BY <1>0, <1>3, <1>6, <2>2
    <2> HIDE DEF T
    <2>3. \A n \in 0..Len(s) : n \in T
      BY <1>0, <2>1, <2>2, Upto
    <2> QED  BY <2>3 DEF T
  <1>8. sum[Len(s)] = g[Len(s)]
    BY <1>0, <1>7
  <1> QED  BY <1>c, <1>d, <1>3, <1>8 DEF Totals

\* Equal beginnings have equal totals.
LEMMA SameBeginning ==
  ASSUME NEW s \in Seq(WmItems), NEW t \in Seq(WmItems), NEW n \in 0..Len(s), n <= Len(t),
         \A i \in 1..n : s[i] = t[i], NEW g, Totals(g, s), NEW h, Totals(h, t)
  PROVE  g[n] = h[n]
  <1>0. Len(s) \in Nat /\ Len(t) \in Nat /\ n \in Nat
    OBVIOUS
  <1>1. g[0] = 0 /\ \A i \in 1..n : g[i] = g[i - 1] + WmTokens[s[i]]
    BY <1>0 DEF Totals
  <1>2. h[0] = 0 /\ \A i \in 1..n : h[i] = h[i - 1] + WmTokens[s[i]]
    BY <1>0 DEF Totals
  <1> DEFINE T == {i \in 0..n : g[i] = h[i]}
  <1>3. 0 \in T
    BY <1>0, <1>1, <1>2
  <1>4. ASSUME NEW i \in 1..n, i - 1 \in T  PROVE i \in T
    BY <1>0, <1>1, <1>2, <1>4
  <1>5. \A i \in 0..n : i \in T
    <2> HIDE DEF T
    <2> QED  BY <1>0, <1>3, <1>4, Upto
  <1> QED  BY <1>0, <1>5

\* The tokens of a list with one entry more.
LEMMA TokensOfMore ==
  ASSUME NEW s \in Seq(WmItems), NEW e \in WmItems
  PROVE  /\ Context!Tokens(<<>>) = 0 /\ Context!Tokens(s) \in Nat
         /\ Context!Tokens(Append(s, e)) = Context!Tokens(s) + WmTokens[e]
  <1> DEFINE t == Append(s, e)
             N == Len(s)
  <1>1. /\ <<>> \in Seq(WmItems) /\ Len(<<>>) = 0
        /\ t \in Seq(WmItems) /\ Len(t) = N + 1 /\ t[N + 1] = e /\ \A i \in 1..N : s[i] = t[i]
    OBVIOUS
  <1>2. N \in Nat /\ N \in 0..N /\ N <= N + 1
    OBVIOUS
  <1>3. PICK z : Totals(z, <<>>) /\ Context!Tokens(<<>>) = z[Len(<<>>)]
    BY <1>1, TokensTotals
  <1>4. PICK g : Totals(g, s) /\ Context!Tokens(s) = g[N]
    BY TokensTotals
  <1> HIDE DEF t
  <1>5. PICK h : Totals(h, t) /\ Context!Tokens(t) = h[Len(t)]
    BY <1>1, TokensTotals
  <1>6. g[N] = h[N]
    BY <1>1, <1>2, <1>4, <1>5, SameBeginning
  <1>7. h[N + 1] = h[N] + WmTokens[e]
    <2>1. \A i \in 1..(N + 1) : h[i] = h[i - 1] + WmTokens[t[i]]
      BY <1>1, <1>5 DEF Totals
    <2>2. N + 1 \in 1..(N + 1) /\ (N + 1) - 1 = N
      BY <1>2
    <2> QED  BY <1>1, <2>1, <2>2
  <1>8. z[0] = 0 /\ g[N] \in Nat
    BY <1>2, <1>3, <1>4 DEF Totals
  <1> QED  BY <1>1, <1>3, <1>4, <1>5, <1>6, <1>7, <1>8 DEF t

\* The entries of a list with one entry more.
LEMMA EntriesOfMore ==
  ASSUME NEW s \in Seq(WmItems), NEW e \in WmItems
  PROVE  Context!Entries(Append(s, e)) = Context!Entries(s) \cup {e}
  <1> DEFINE t == Append(s, e)
             N == Len(s)
  <1>1. /\ N \in Nat /\ DOMAIN s = 1..N /\ DOMAIN t = 1..(N + 1)
        /\ t[N + 1] = e /\ \A i \in 1..N : s[i] = t[i]
    OBVIOUS
  <1> HIDE DEF t, N
  <1>2. 1..(N + 1) = (1..N) \cup {N + 1}
    BY <1>1
  <1>3. {t[i] : i \in 1..(N + 1)} = {s[i] : i \in 1..N} \cup {e}
    BY <1>1, <1>2
  <1> QED  BY <1>1, <1>3 DEF Context!Entries, t

\* A list as the budget wants it
InBudget(s) == Context!Tokens(s) <= WmLimit \/ Context!Entries(s) \subseteq Guarded

\* What _enforceWmBudget leaves is in its budget.
LEMMA ShortenedInBudget ==
  ASSUME NEW s \in Seq(WmItems)
  PROVE  Context!Shortened(s) \in Seq(WmItems) /\ InBudget(Context!Shortened(s))
  <1> DEFINE N == Len(s)
             total == Context!Tokens(s)
             S == [out : Nat, keep : Seq(WmItems)]
             b == [out |-> 0, keep |-> <<>>]
             step(a, n) == IF total - a.out > WmLimit /\ s[n] \notin Guarded
                           THEN [out |-> a.out + WmTokens[s[n]], keep |-> a.keep]
                           ELSE [out |-> a.out, keep |-> Append(a.keep, s[n])]
             G == [n \in 1..N |-> [a \in S |-> step(a, n)]]
             body(f) == [n \in 0..N |-> IF n = 0 THEN b ELSE step(f[n - 1], n)]
             at == CHOOSE f : f = body(f)
  <1>0. N \in Nat /\ b \in S /\ (\A n \in 1..N : n - 1 \in 0..N /\ n # 0 /\ n \in 0..N) /\ N \in 0..N
    OBVIOUS
  <1>w. \A n \in 1..N : s[n] \in WmItems /\ WmTokens[s[n]] \in Nat
    <2>1. \A n \in 1..N : s[n] \in WmItems
      OBVIOUS
    <2> QED  BY <2>1, ContextAssumption
  <1>p. at = CHOOSE f : f = body(f)
    OBVIOUS
  <1>f. Context!Shortened(s) = at[N].keep
    BY DEF Context!Shortened, Context!Walk
  <1>1. \A n \in 1..N : \A a \in S : step(a, n) \in S
    <2> SUFFICES ASSUME NEW n \in 1..N, NEW a \in S  PROVE step(a, n) \in S
      OBVIOUS
    <2>1. a.out \in Nat /\ a.keep \in Seq(WmItems) /\ Append(a.keep, s[n]) \in Seq(WmItems)
      BY <1>w
    <2>2. [out |-> a.out + WmTokens[s[n]], keep |-> a.keep] \in S
      BY <1>w, <2>1
    <2>3. [out |-> a.out, keep |-> Append(a.keep, s[n])] \in S
      BY <2>1
    <2> QED  BY <2>2, <2>3
  <1>d. \A n, a : step(a, n) = IF total - a.out > WmLimit /\ s[n] \notin Guarded
                               THEN [out |-> a.out + WmTokens[s[n]], keep |-> a.keep]
                               ELSE [out |-> a.out, keep |-> Append(a.keep, s[n])]
    OBVIOUS
  <1>b. b.out = 0 /\ b.keep = <<>>
    OBVIOUS
  <1>S. \A a \in S : a.out \in Nat /\ a.keep \in Seq(WmItems)
    OBVIOUS
  <1> HIDE DEF step, S, b
  <1>2. G \in [1..N -> [S -> S]] /\ \A n \in 1..N : \A a \in S : G[n][a] = step(a, n)
    BY <1>1
  <1> HIDE DEF G, N, total
  <1>3. PICK g : Follows(g, b, G, S, N)
    BY <1>0, <1>2, Loop
  <1>4. g \in [0..N -> S] /\ g[0] = b /\ \A n \in 1..N : g[n] = step(g[n - 1], n)
    <2>1. g \in [0..N -> S] /\ g[0] = b /\ \A n \in 1..N : g[n] = G[n][g[n - 1]]
      BY <1>3 DEF Follows
    <2>2. \A n \in 1..N : g[n - 1] \in S
      BY <1>0, <2>1
    <2> QED  BY <1>2, <2>1, <2>2
  <1>5. g = body(g)
    BY <1>0, <1>4
  <1>6. at = body(at)
    <2> HIDE DEF body, at
    <2> QED  BY <1>p, <1>5
  <1>7. \A n \in 0..N : at[n] = IF n = 0 THEN b ELSE step(at[n - 1], n)
    <2> HIDE DEF at
    <2> QED  BY <1>6
  <1> HIDE DEF at, body
  <1>8. PICK h : Totals(h, s) /\ total = h[N]
    BY TokensTotals DEF N, total
  <1>9. h \in [0..N -> Nat] /\ h[0] = 0 /\ \A n \in 1..N : h[n] = h[n - 1] + WmTokens[s[n]]
    BY <1>8 DEF Totals, N
  <1> DEFINE Fits(a) == Context!Entries(a.keep) \subseteq Guarded \/ total - a.out <= WmLimit
             T == {n \in 0..N : /\ at[n] \in S /\ at[n].out + Context!Tokens(at[n].keep) = h[n]
                               /\ Fits(at[n])}
  <1>10. 0 \in T
    <2>1. at[0] = b /\ 0 \in 0..N
      BY <1>0, <1>7
    <2>2. Context!Tokens(b.keep) = 0 /\ Context!Entries(b.keep) = {}
      <3>1. Context!Entries(<<>>) = {}
        BY DEF Context!Entries
      <3>2. Context!Tokens(<<>>) = 0
        <4>1. <<>> \in Seq(WmItems) /\ Len(<<>>) = 0
          OBVIOUS
        <4>2. PICK z : Totals(z, <<>>) /\ Context!Tokens(<<>>) = z[Len(<<>>)]
          BY <4>1, TokensTotals
        <4> QED  BY <4>1, <4>2 DEF Totals
      <3> QED  BY <1>b, <3>1, <3>2
    <2> QED  BY <1>0, <1>b, <1>9, <2>1, <2>2
  <1>11. ASSUME NEW n \in 1..N, n - 1 \in T  PROVE n \in T
    <2> DEFINE a == at[n - 1]
               e == s[n]
    <2>1. /\ a \in S /\ a.out + Context!Tokens(a.keep) = h[n - 1] /\ Fits(a)
          /\ n \in 0..N /\ h[n] = h[n - 1] + WmTokens[e] /\ e \in WmItems /\ WmTokens[e] \in Nat
      BY <1>0, <1>w, <1>9, <1>11
    <2>2. at[n] = step(a, n)
      BY <1>0, <1>7
    <2>3. at[n] = IF total - a.out > WmLimit /\ e \notin Guarded
                  THEN [out |-> a.out + WmTokens[e], keep |-> a.keep]
                  ELSE [out |-> a.out, keep |-> Append(a.keep, e)]
      BY <1>d, <2>2
    <2>4. at[n] \in S
      BY <1>1, <2>1, <2>2
    <2> HIDE DEF a, e
    <2>5. /\ a.out \in Nat /\ a.keep \in Seq(WmItems) /\ Context!Tokens(a.keep) \in Nat
          /\ Context!Tokens(Append(a.keep, e)) = Context!Tokens(a.keep) + WmTokens[e]
      BY <1>S, <2>1, TokensOfMore
    <2>6. Context!Entries(Append(a.keep, e)) = Context!Entries(a.keep) \cup {e}
      BY <2>1, <2>5, EntriesOfMore
    <2>7. total \in Nat /\ WmLimit \in Nat
      BY <1>0, <1>8, <1>9, ContextAssumption
    <2>8. CASE total - a.out > WmLimit /\ e \notin Guarded
      <3>1. at[n].out = a.out + WmTokens[e] /\ at[n].keep = a.keep
        BY <2>3, <2>8
      <3> QED  BY <2>1, <2>4, <2>5, <2>7, <2>8, <3>1
    <2>9. CASE ~(total - a.out > WmLimit /\ e \notin Guarded)
      <3>1. at[n].out = a.out /\ at[n].keep = Append(a.keep, e)
        BY <2>3, <2>9
      <3>2. Fits(at[n])
        BY <2>1, <2>5, <2>6, <2>7, <2>9, <3>1
      <3>3. at[n].out + Context!Tokens(at[n].keep) = h[n]
        <4>1. h[n - 1] \in Nat
          BY <1>0, <1>9
        <4> QED  BY <2>1, <2>5, <3>1, <4>1
      <3> QED  BY <2>1, <2>4, <3>2, <3>3
    <2> QED  BY <2>8, <2>9
  <1>12. \A n \in 0..N : n \in T
    <2> HIDE DEF T
    <2> QED  BY <1>0, <1>10, <1>11, Upto
  <1>13. at[N] \in S /\ at[N].out + Context!Tokens(at[N].keep) = total /\ Fits(at[N])
    BY <1>0, <1>8, <1>12
  <1> HIDE DEF T
  <1>14. at[N].keep \in Seq(WmItems) /\ at[N].out \in Nat
    BY <1>S, <1>13
  <1>15. Context!Tokens(at[N].keep) \in Nat
    <2>1. PICK z : Totals(z, at[N].keep) /\ Context!Tokens(at[N].keep) = z[Len(at[N].keep)]
      BY <1>14, TokensTotals
    <2> QED  BY <1>14, <2>1 DEF Totals
  <1> QED  BY <1>f, <1>13, <1>14, <1>15, ContextAssumption DEF InBudget

\* A list that is about to be written is in its budget; one that is not has a writer
\* that is to measure it or to write another.
ContextIInv ==
  /\ wm \in Seq(WmItems) /\ remain \in [WmItems -> Seq(WmItems)]
  /\ adding \in [WmItems -> {"new", "pushed", "rewrite", "done"}]
  /\ \A e \in WmItems : adding[e] = "rewrite" => InBudget(remain[e])
  /\ InBudget(wm) \/ \E e \in WmItems : adding[e] \in {"pushed", "rewrite"}

\* The empty list is in every budget.
LEMMA EmptyInBudget == <<>> \in Seq(WmItems) /\ InBudget(<<>>)
  <1>1. Context!Entries(<<>>) = {}
    BY DEF Context!Entries
  <1> QED  BY <1>1 DEF InBudget

\* Every step of a writer, the reader or the table keeps it.
LEMMA ContextNext == ContextIInv /\ [Context!Next]_(Context!vars) => ContextIInv'
  <1> SUFFICES ASSUME ContextIInv, [Context!Next]_(Context!vars)  PROVE ContextIInv'
    OBVIOUS
  <1>1. ASSUME NEW e \in WmItems, Context!Push(e)  PROVE ContextIInv'
    <2>1. /\ wm' = Append(wm, e) /\ adding' = [adding EXCEPT ![e] = "pushed"] /\ UNCHANGED remain
      BY <1>1 DEF Context!Push
    <2>2. wm' \in Seq(WmItems)
      BY <2>1 DEF ContextIInv
    <2>3. /\ adding' \in [WmItems -> {"new", "pushed", "rewrite", "done"}]
          /\ adding'[e] = "pushed" /\ \A f \in WmItems \ {e} : adding'[f] = adding[f]
      BY <2>1 DEF ContextIInv
    <2>4. \A f \in WmItems : adding'[f] = "rewrite" => InBudget(remain'[f])
      BY <2>1, <2>3 DEF ContextIInv, InBudget
    <2> QED  BY <2>1, <2>2, <2>3, <2>4 DEF ContextIInv, InBudget
  <1>2. ASSUME NEW e \in WmItems, Context!Measure(e)  PROVE ContextIInv'
    <2>0. wm' = wm /\ wm \in Seq(WmItems)
      BY <1>2 DEF Context!Measure, ContextIInv
    <2>1. CASE Context!Shortened(wm) # wm
      <3>1. /\ adding' = [adding EXCEPT ![e] = "rewrite"]
            /\ remain' = [remain EXCEPT ![e] = Context!Shortened(wm)]
        BY <1>2, <2>1 DEF Context!Measure
      <3>2. Context!Shortened(wm) \in Seq(WmItems) /\ InBudget(Context!Shortened(wm))
        BY <2>0, ShortenedInBudget
      <3>3. /\ adding' \in [WmItems -> {"new", "pushed", "rewrite", "done"}]
            /\ adding'[e] = "rewrite" /\ \A f \in WmItems \ {e} : adding'[f] = adding[f]
        BY <3>1 DEF ContextIInv
      <3>4. /\ remain' \in [WmItems -> Seq(WmItems)] /\ remain'[e] = Context!Shortened(wm)
            /\ \A f \in WmItems \ {e} : remain'[f] = remain[f]
        BY <3>1, <3>2 DEF ContextIInv
      <3>5. \A f \in WmItems : adding'[f] = "rewrite" => InBudget(remain'[f])
        BY <3>2, <3>3, <3>4 DEF ContextIInv
      <3> QED  BY <2>0, <3>3, <3>4, <3>5 DEF ContextIInv, InBudget
    <2>2. CASE Context!Shortened(wm) = wm
      <3>1. adding' = [adding EXCEPT ![e] = "done"] /\ UNCHANGED remain
        BY <1>2, <2>2 DEF Context!Measure
      <3>2. InBudget(wm)
        BY <2>0, <2>2, ShortenedInBudget
      <3>3. /\ adding' \in [WmItems -> {"new", "pushed", "rewrite", "done"}]
            /\ adding'[e] = "done" /\ \A f \in WmItems \ {e} : adding'[f] = adding[f]
        BY <3>1 DEF ContextIInv
      <3>4. \A f \in WmItems : adding'[f] = "rewrite" => InBudget(remain'[f])
        BY <3>1, <3>3 DEF ContextIInv, InBudget
      <3>5. InBudget(wm)' /\ remain' \in [WmItems -> Seq(WmItems)]
        BY <2>0, <3>1, <3>2 DEF InBudget, ContextIInv
      <3> QED  BY <2>0, <3>3, <3>4, <3>5 DEF ContextIInv, InBudget
    <2> QED  BY <2>1, <2>2
  <1>3. ASSUME NEW e \in WmItems, Context!Rewrite(e)  PROVE ContextIInv'
    <2>1. /\ adding[e] = "rewrite" /\ wm' = remain[e] /\ adding' = [adding EXCEPT ![e] = "done"]
          /\ remain' = [remain EXCEPT ![e] = <<>>]
      BY <1>3 DEF Context!Rewrite
    <2>2. wm' \in Seq(WmItems) /\ InBudget(remain[e]) /\ remain' \in [WmItems -> Seq(WmItems)]
      BY <2>1, EmptyInBudget DEF ContextIInv
    <2>3. /\ adding' \in [WmItems -> {"new", "pushed", "rewrite", "done"}]
          /\ adding'[e] = "done" /\ \A f \in WmItems \ {e} : adding'[f] = adding[f]
      BY <2>1 DEF ContextIInv
    <2>4. \A f \in WmItems : adding'[f] = "rewrite" => InBudget(remain'[f])
      <3>1. \A f \in WmItems \ {e} : remain'[f] = remain[f]
        BY <2>1 DEF ContextIInv
      <3> QED  BY <2>3, <3>1 DEF ContextIInv
    <2>5. InBudget(wm)'
      BY <2>1, <2>2 DEF InBudget
    <2> QED  BY <2>2, <2>3, <2>4, <2>5 DEF ContextIInv, InBudget
  <1>4. CASE Context!ClearWorkingMemory
    <2>1. wm' = <<>> /\ UNCHANGED <<adding, remain>>
      BY <1>4 DEF Context!ClearWorkingMemory
    <2>2. InBudget(wm)' /\ wm' \in Seq(WmItems)
      BY <2>1, EmptyInBudget DEF InBudget
    <2> QED  BY <2>1, <2>2 DEF ContextIInv, InBudget
  <1>5. CASE UNCHANGED <<wm, adding, remain>>
    BY <1>5 DEF ContextIInv, InBudget
  <1>6. Context!Write \/ Context!LoadCore \/ Context!LoadWorking \/ Context!Answer
        \/ UNCHANGED Context!vars => UNCHANGED <<wm, adding, remain>>
    BY DEF Context!Write, Context!Remember, Context!Forget, Context!LoadCore, Context!LoadWorking,
           Context!Answer, Context!vars
  <1> QED  BY <1>1, <1>2, <1>3, <1>4, <1>5, <1>6 DEF Context!Next, Context!Add

\* For any entries, weights and number of writers: when none is between its commands the
\* list is within its budget or holds guarded entries alone (_enforceWmBudget).
THEOREM WorkingMemoryBounded == Context!Spec => []WmWithinBudget
  <1>1. Context!Init => ContextIInv
    BY EmptyInBudget DEF Context!Init, ContextIInv
  <1>2. ContextIInv => WmWithinBudget
    BY DEF ContextIInv, InBudget, WmWithinBudget, Context!WmWithinBudget
  <1> QED  BY <1>1, <1>2, ContextNext, PTL DEF Context!Spec

---------------------------------------------------------------------------
(* The history of a case.                                                  *)

\* The module counts as the library does.
LEMMA HistoryCounts == ASSUME NEW S  PROVE History!Cardinality(S) = Cardinality(S)
  BY Zenon DEF History!Cardinality, Cardinality

\* What is in a sequence that loses its first element, is extended, or gets one more.
LEMMA InSequences ==
  ASSUME NEW X, NEW s \in Seq(X), NEW t \in Seq(X), NEW e \in X
  PROVE  /\ History!ToSet(s) \subseteq X
         /\ s # <<>> => History!ToSet(s) = {Head(s)} \cup History!ToSet(Tail(s))
         /\ History!ToSet(s \o t) = History!ToSet(s) \cup History!ToSet(t)
         /\ History!ToSet(Append(s, e)) = History!ToSet(s) \cup {e}
  <1>0. Len(s) \in Nat /\ Len(t) \in Nat /\ DOMAIN s = 1..Len(s) /\ DOMAIN t = 1..Len(t)
        /\ \A i \in 1..Len(s) : s[i] \in X
    OBVIOUS
  <1>1. s # <<>> => History!ToSet(s) = {Head(s)} \cup History!ToSet(Tail(s))
    <2> SUFFICES ASSUME s # <<>>  PROVE {s[i] : i \in DOMAIN s} = {Head(s)} \cup {Tail(s)[i] : i \in DOMAIN Tail(s)}
      BY DEF History!ToSet
    <2>1. /\ Len(Tail(s)) = Len(s) - 1 /\ DOMAIN Tail(s) = 1..(Len(s) - 1) /\ Head(s) = s[1]
          /\ Len(s) >= 1 /\ \A i \in 1..(Len(s) - 1) : Tail(s)[i] = s[i + 1]
      BY HeadTailProperties
    <2>2. \A i \in 1..Len(s) : i = 1 \/ (i - 1 \in 1..(Len(s) - 1) /\ s[i] = Tail(s)[i - 1])
      BY <1>0, <2>1
    <2>3. \A i \in 1..(Len(s) - 1) : i + 1 \in 1..Len(s)
      BY <1>0
    <2>4. 1 \in 1..Len(s)
      BY <1>0, <2>1
    <2> DEFINE v == Tail(s)
               x == Head(s)
               N == Len(s)
    <2>5. /\ \A i \in 1..N : s[i] = x \/ \E j \in 1..(N - 1) : s[i] = v[j]
          /\ x = s[1] /\ 1 \in 1..N /\ \A j \in 1..(N - 1) : \E i \in 1..N : v[j] = s[i]
      BY <2>1, <2>2, <2>3, <2>4
    <2>6. DOMAIN v = 1..(N - 1) /\ DOMAIN s = 1..N
      BY <1>0, <2>1
    <2> HIDE DEF v, N, x
    <2>7. {s[i] : i \in 1..N} = {x} \cup {v[i] : i \in 1..(N - 1)}
      BY <2>5
    <2>8. {s[i] : i \in DOMAIN s} = {x} \cup {v[i] : i \in DOMAIN v}
      BY <2>6, <2>7
    <2> QED  BY Zenon, <2>8 DEF v, x
  <1>2. History!ToSet(s \o t) = History!ToSet(s) \cup History!ToSet(t)
    <2> DEFINE u == s \o t
    <2>1. /\ DOMAIN u = 1..(Len(s) + Len(t))
          /\ \A i \in 1..(Len(s) + Len(t)) : u[i] = IF i <= Len(s) THEN s[i] ELSE t[i - Len(s)]
      BY ConcatProperties
    <2> HIDE DEF u
    <2>2. \A i \in 1..Len(s) : i \in 1..(Len(s) + Len(t)) /\ u[i] = s[i]
      BY <1>0, <2>1
    <2>3. \A i \in 1..Len(t) : i + Len(s) \in 1..(Len(s) + Len(t)) /\ u[i + Len(s)] = t[i]
      BY <1>0, <2>1
    <2>4. \A i \in 1..(Len(s) + Len(t)) :
            (i \in 1..Len(s) /\ u[i] = s[i]) \/ (i - Len(s) \in 1..Len(t) /\ u[i] = t[i - Len(s)])
      BY <1>0, <2>1
    <2> DEFINE N == Len(s)
               M == Len(t)
    <2>5. {u[i] : i \in 1..(N + M)} = {s[i] : i \in 1..N} \cup {t[i] : i \in 1..M}
      <3>1. /\ \A i \in 1..(N + M) : (\E j \in 1..N : u[i] = s[j]) \/ (\E j \in 1..M : u[i] = t[j])
            /\ \A j \in 1..N : \E i \in 1..(N + M) : s[j] = u[i]
            /\ \A j \in 1..M : \E i \in 1..(N + M) : t[j] = u[i]
        BY <2>2, <2>3, <2>4
      <3> HIDE DEF N, M
      <3> QED  BY <3>1
    <2> QED  BY <1>0, <2>1, <2>5 DEF History!ToSet, u
  <1>3. History!ToSet(Append(s, e)) = History!ToSet(s) \cup {e}
    <2> DEFINE u == Append(s, e)
               N == Len(s)
    <2>1. DOMAIN u = 1..(N + 1) /\ u[N + 1] = e /\ \A i \in 1..N : s[i] = u[i]
      OBVIOUS
    <2>2. 1..(N + 1) = (1..N) \cup {N + 1}
      BY <1>0
    <2> HIDE DEF u
    <2>3. {u[i] : i \in 1..(N + 1)} = {s[i] : i \in 1..N} \cup {e}
      BY <2>1, <2>2
    <2> QED  BY <1>0, <2>1, <2>3 DEF History!ToSet, u
  <1> QED  BY <1>0, <1>1, <1>2, <1>3 DEF History!ToSet

\* The elements of a finite set in some order.
LEMMA InOrder ==
  ASSUME NEW S, IsFiniteSet(S)
  PROVE  /\ History!SetToSeq(S) \in Seq(S) /\ Len(History!SetToSeq(S)) = Cardinality(S)
         /\ History!ToSet(History!SetToSeq(S)) = S
  <1> DEFINE n == Cardinality(S)
             f == History!SetToSeq(S)
  <1>1. n \in Nat /\ ExistsBijection(1..n, S)
    BY FS_CardinalityType
  <1>2. PICK b \in Bijection(1..n, S) : TRUE
    BY <1>1 DEF ExistsBijection
  <1>3. b \in [1..n -> S] /\ \A i, j \in 1..n : b[i] = b[j] => i = j
    BY <1>2 DEF Bijection, Injection, IsInjective
  <1>4. f = CHOOSE g : g \in [1..n -> S] /\ History!IsInjective(g)
    BY HistoryCounts DEF History!SetToSeq
  <1>5. History!IsInjective(b)
    BY <1>3 DEF History!IsInjective
  <1>6. f \in [1..n -> S] /\ History!IsInjective(f)
    <2> HIDE DEF f, n
    <2> QED  BY <1>3, <1>4, <1>5
  <1>7. f \in Injection(1..n, S)
    <2> HIDE DEF f, n
    <2> QED  BY <1>6 DEF Injection, IsInjective, History!IsInjective
  <1>8. Cardinality(1..n) = n
    BY <1>1, FS_Interval
  <1> HIDE DEF f
  <1>9. f \in Surjection(1..n, S)
    BY <1>7, <1>8, FS_Injection
  <1>10. \A x \in S : \E i \in 1..n : f[i] = x
    BY <1>9 DEF Surjection
  <1> HIDE DEF n
  <1>11. f \in Seq(S) /\ Len(f) = n /\ DOMAIN f = 1..n
    BY <1>1, <1>6
  <1>12. {f[i] : i \in 1..n} = S
    BY <1>6, <1>10
  <1> QED  BY <1>11, <1>12 DEF History!ToSet, f, n

\* The states of a search
Searching == [queue : Seq(History!Nodes), visited : SUBSET History!Nodes, chain : Seq(History!Nodes)]

\* Links that name fragments and events
Among(causes) ==
  IsFiniteSet(causes) /\ \A l \in causes : l.from \in History!Nodes /\ l.to \in History!Nodes

\* The links that a visit of x follows
Followed(a, x, causes) == {l \in causes : l.from = x /\ l.to \notin a.visited \cup {x}}

\* A turn with an empty queue changes nothing, one with a visited fragment drops it, and
\* one with a new fragment visits it and appends the ends of its links.
IsVisit(a, b, T, causes) ==
  LET x == Head(a.queue)
  IN  /\ a.queue = <<>> => b = a
      /\ a.queue # <<>> /\ x \in a.visited =>
           b.queue = Tail(a.queue) /\ b.visited = a.visited /\ b.chain = a.chain
      /\ a.queue # <<>> /\ x \notin a.visited =>
           /\ History!ToSet(b.queue) = History!ToSet(Tail(a.queue)) \cup {l.to : l \in Followed(a, x, causes)}
           /\ Len(b.queue) = Len(a.queue) - 1 + Cardinality(Followed(a, x, causes))
           /\ b.visited = a.visited \cup {x}
           /\ b.chain = IF x \in T THEN Append(a.chain, x) ELSE a.chain

\* That is what a turn is.
LEMMA VisitStep ==
  ASSUME NEW a \in Searching, NEW causes, Among(causes), NEW T
  PROVE  /\ History!Visit(a, T, causes) \in Searching
         /\ IsVisit(a, History!Visit(a, T, causes), T, causes)
  <1> DEFINE b == History!Visit(a, T, causes)
             x == Head(a.queue)
             F == Followed(a, x, causes)
             after == History!SetToSeq(F)
             ends == [i \in DOMAIN after |-> after[i].to]
  <1>0. a.queue \in Seq(History!Nodes) /\ a.visited \subseteq History!Nodes /\ a.chain \in Seq(History!Nodes)
    BY DEF Searching
  <1>1. b = IF a.queue = <<>> THEN a
            ELSE IF x \in a.visited THEN [a EXCEPT !.queue = Tail(a.queue)]
            ELSE [queue |-> Tail(a.queue) \o ends, visited |-> a.visited \cup {x},
                  chain |-> IF x \in T THEN Append(a.chain, x) ELSE a.chain]
    BY DEF History!Visit, Followed
  <1>2. IsFiniteSet(F) /\ \A l \in F : l.to \in History!Nodes
    BY FS_Subset DEF Among, Followed
  <1>3. after \in Seq(F) /\ Len(after) = Cardinality(F) /\ History!ToSet(after) = F /\ Cardinality(F) \in Nat
    <2> HIDE DEF F
    <2> QED  BY <1>2, InOrder, FS_CardinalityType
  <1> HIDE DEF F, after, b
  <1>4. /\ ends \in Seq(History!Nodes) /\ Len(ends) = Cardinality(F)
        /\ History!ToSet(ends) = {l.to : l \in F}
    <2>1. DOMAIN after = 1..Cardinality(F) /\ \A i \in 1..Cardinality(F) : after[i] \in F
      BY <1>3
    <2>2. ends = [i \in 1..Cardinality(F) |-> after[i].to]
      BY <2>1
    <2> HIDE DEF ends
    <2>3. ends \in [1..Cardinality(F) -> History!Nodes]
      BY <1>2, <2>1, <2>2
    <2>4. ends \in Seq(History!Nodes) /\ Len(ends) = Cardinality(F) /\ DOMAIN ends = 1..Cardinality(F)
      BY <1>3, <2>3
    <2>5. {after[i] : i \in 1..Cardinality(F)} = F
      BY <1>3, <2>1 DEF History!ToSet
    <2>6. \A i \in 1..Cardinality(F) : ends[i] = after[i].to
      BY <2>2
    <2>7. {ends[i] : i \in 1..Cardinality(F)} = {l.to : l \in F}
      BY <2>5, <2>6
    <2> QED  BY <2>4, <2>7 DEF History!ToSet
  <1> HIDE DEF ends
  <1>5. CASE a.queue = <<>>
    <2>1. b = a
      BY <1>1, <1>5
    <2> QED  BY <1>5, <2>1 DEF b, IsVisit
  <1>6. CASE a.queue # <<>>
    <2>1. x \in History!Nodes /\ Tail(a.queue) \in Seq(History!Nodes) /\ Len(Tail(a.queue)) = Len(a.queue) - 1
      BY <1>0, <1>6, HeadTailProperties
    <2>2. CASE x \in a.visited
      <3>1. b = [a EXCEPT !.queue = Tail(a.queue)]
        BY <1>1, <1>6, <2>2
      <3>2. b \in Searching
        BY <2>1, <3>1 DEF Searching
      <3>3. b.queue = Tail(a.queue) /\ b.visited = a.visited /\ b.chain = a.chain
        BY <2>1, <3>1 DEF Searching
      <3> QED  BY <1>6, <2>2, <3>2, <3>3 DEF b, x, IsVisit
    <2>3. CASE x \notin a.visited
      <3> DEFINE q == Tail(a.queue) \o ends
                 c == IF x \in T THEN Append(a.chain, x) ELSE a.chain
      <3>1. b = [queue |-> q, visited |-> a.visited \cup {x}, chain |-> c]
        BY <1>1, <1>6, <2>3
      <3>2. q \in Seq(History!Nodes) /\ Len(q) = Len(a.queue) - 1 + Cardinality(F)
        BY <1>0, <1>3, <1>4, <2>1, ConcatProperties
      <3>3. c \in Seq(History!Nodes)
        BY <1>0, <2>1
      <3>4. History!ToSet(q) = History!ToSet(Tail(a.queue)) \cup {l.to : l \in F}
        <4> DEFINE t == Tail(a.queue)
        <4>1. t \in Seq(History!Nodes) /\ ends \in Seq(History!Nodes) /\ x \in History!Nodes
          BY <1>4, <2>1
        <4> HIDE DEF t, x
        <4>2. History!ToSet(t \o ends) = History!ToSet(t) \cup History!ToSet(ends)
          BY <4>1, InSequences
        <4> QED  BY <1>4, <4>2 DEF t
      <3>5. a.visited \cup {x} \in SUBSET History!Nodes
        BY <1>0, <2>1
      <3>6. b.queue = q /\ b.visited = a.visited \cup {x} /\ b.chain = c
        BY <3>1
      <3> HIDE DEF q
      <3>7. b \in Searching
        <4> HIDE DEF c
        <4> QED  BY <3>1, <3>2, <3>3, <3>5 DEF Searching
      <3>8. /\ History!ToSet(b.queue) = History!ToSet(Tail(a.queue)) \cup {l.to : l \in F}
            /\ Len(b.queue) = Len(a.queue) - 1 + Cardinality(F)
            /\ b.visited = a.visited \cup {x}
            /\ b.chain = IF x \in T THEN Append(a.chain, x) ELSE a.chain
        BY <3>2, <3>4, <3>6
      <3> HIDE DEF c, x
      <3>9. x = Head(a.queue) /\ F = Followed(a, x, causes) /\ b = History!Visit(a, T, causes)
        BY DEF x, F, b
      <3> QED  BY Zenon, <1>6, <2>3, <3>7, <3>8, <3>9 DEF IsVisit
    <2> QED  BY <2>2, <2>3
  <1> QED  BY <1>5, <1>6

\* What the links lead to is the least set that has the start and follows them.
LEMMA ReachedLeast ==
  ASSUME NEW causes, Among(causes), NEW x \in History!Nodes
  PROVE  LET R == History!Reached(x, causes)
         IN  /\ R \subseteq History!Nodes /\ x \in R
             /\ \A l \in causes : l.from \in R => l.to \in R
             /\ \A S \in SUBSET History!Nodes :
                  x \in S /\ (\A l \in causes : l.from \in S => l.to \in S) => R \subseteq S
  <1> DEFINE R == History!Reached(x, causes)
             closed(S) == x \in S /\ (\A l \in causes : l.from \in S => l.to \in S)
  <1>1. R = {f \in History!Nodes : \A S \in SUBSET History!Nodes : closed(S) => f \in S}
    BY DEF History!Reached
  <1>2. \A l \in causes : l.from \in R => l.to \in R
    BY <1>1 DEF Among
  <1> QED  BY <1>1, <1>2

\* One more element that was not there keeps a sequence free of repeats.
LEMMA StaysInjective ==
  ASSUME NEW X, NEW s \in Seq(X), NEW e \in X, History!IsInjective(s), e \notin History!ToSet(s)
  PROVE  History!IsInjective(Append(s, e))
  <1> DEFINE u == Append(s, e)
             N == Len(s)
  <1>1. N \in Nat /\ DOMAIN s = 1..N /\ DOMAIN u = 1..(N + 1) /\ u[N + 1] = e /\ \A i \in 1..N : s[i] = u[i]
    OBVIOUS
  <1>2. 1..(N + 1) = (1..N) \cup {N + 1}
    BY <1>1
  <1> HIDE DEF u, N
  <1>3. \A i \in 1..N : u[i] # e
    BY <1>1 DEF History!ToSet
  <1>4. \A i, j \in 1..N : u[i] = u[j] => i = j
    BY <1>1 DEF History!IsInjective
  <1>5. \A i, j \in 1..(N + 1) : u[i] = u[j] => i = j
    BY <1>1, <1>2, <1>3, <1>4
  <1> QED  BY <1>1, <1>5 DEF History!IsInjective, u

\* After n turns of a search: what is visited or in the queue is reached, all of what the
\* visited lead to is visited or in the queue, the chain is what is visited of the
\* timeline, and there are turns left for the queue.
SearchInv(a, n, root, T, causes) ==
  /\ a \in Searching
  /\ History!ToSet(a.queue) \cup a.visited \subseteq History!Reached(root, causes)
  /\ root \in History!ToSet(a.queue) \cup a.visited
  /\ \A l \in causes : l.from \in a.visited => l.to \in History!ToSet(a.queue) \cup a.visited
  /\ History!ToSet(a.chain) = a.visited \cap T /\ History!IsInjective(a.chain)
  /\ a.queue = <<>> \/ n + Len(a.queue) <= 1 + Cardinality({l \in causes : l.from \in a.visited})

\* The first turn has all this before it.
LEMMA SearchInit ==
  ASSUME NEW causes, Among(causes), NEW T, NEW root \in History!Nodes
  PROVE  SearchInv([queue |-> <<root>>, visited |-> {}, chain |-> <<>>], 0, root, T, causes)
  <1> DEFINE a == [queue |-> <<root>>, visited |-> {}, chain |-> <<>>]
  <1>1. a.queue = <<root>> /\ a.visited = {} /\ a.chain = <<>> /\ a \in Searching
    BY DEF Searching
  <1>2. Len(<<root>>) = 1 /\ History!ToSet(<<root>>) = {root} /\ History!ToSet(<<>>) = {}
    BY DEF History!ToSet
  <1>3. History!IsInjective(<<>>)
    BY DEF History!IsInjective
  <1>4. {l \in causes : l.from \in {}} = {}
    OBVIOUS
  <1>5. Cardinality({}) = 0 /\ root \in History!Reached(root, causes)
    BY FS_EmptySet, ReachedLeast
  <1> HIDE DEF a
  <1>6. Cardinality({l \in causes : l.from \in a.visited}) = 0 /\ \A l \in causes : l.from \notin a.visited
    BY <1>1, <1>4, <1>5
  <1>7. a.queue = <<>> \/ 0 + Len(a.queue) <= 1 + Cardinality({l \in causes : l.from \in a.visited})
    BY <1>1, <1>2, <1>6
  <1>8. History!ToSet(a.queue) \cup a.visited = {root} /\ History!ToSet(a.chain) = a.visited \cap T
    BY <1>1, <1>2
  <1>9. SearchInv(a, 0, root, T, causes)
    BY <1>1, <1>3, <1>5, <1>6, <1>7, <1>8 DEF SearchInv
  <1> QED  BY <1>9 DEF a

\* A turn keeps it.
LEMMA SearchKeeps ==
  ASSUME NEW causes, Among(causes), NEW T, NEW root \in History!Nodes, NEW n \in Nat,
         NEW a, SearchInv(a, n, root, T, causes)
  PROVE  SearchInv(History!Visit(a, T, causes), n + 1, root, T, causes)
  <1> DEFINE b == History!Visit(a, T, causes)
             x == Head(a.queue)
             R == History!Reached(root, causes)
             in(k) == History!ToSet(k.queue) \cup k.visited
             of(V) == {l \in causes : l.from \in V}
  <1>1. /\ a \in Searching /\ in(a) \subseteq R /\ root \in in(a)
        /\ \A l \in causes : l.from \in a.visited => l.to \in in(a)
        /\ History!ToSet(a.chain) = a.visited \cap T /\ History!IsInjective(a.chain)
        /\ a.queue = <<>> \/ n + Len(a.queue) <= 1 + Cardinality(of(a.visited))
    BY DEF SearchInv
  <1>2. a.queue \in Seq(History!Nodes) /\ a.chain \in Seq(History!Nodes) /\ a.visited \subseteq History!Nodes
    BY <1>1 DEF Searching
  <1>3. b \in Searching /\ IsVisit(a, b, T, causes)
    BY <1>1, VisitStep
  <1> HIDE DEF b, x, of
  <1>4. CASE a.queue = <<>>
    <2>1. b = a
      BY <1>3, <1>4 DEF IsVisit
    <2> QED  BY <2>1, <1>1, <1>4 DEF SearchInv, b
  <1>5. CASE a.queue # <<>>
    <2>1. /\ x \in History!Nodes /\ Tail(a.queue) \in Seq(History!Nodes)
          /\ Len(a.queue) \in Nat /\ Len(Tail(a.queue)) = Len(a.queue) - 1
      BY <1>2, <1>5, HeadTailProperties DEF x
    <2>2. History!ToSet(a.queue) = {x} \cup History!ToSet(Tail(a.queue))
      <3> DEFINE s == a.queue
      <3>1. s \in Seq(History!Nodes) /\ s # <<>> /\ x = Head(s)
        BY <1>2, <1>5 DEF x
      <3> HIDE DEF s
      <3>2. History!ToSet(s) = {Head(s)} \cup History!ToSet(Tail(s))
        BY <2>1, <3>1, InSequences
      <3> QED  BY <3>1, <3>2 DEF s
    <2>3. IsFiniteSet(of(a.visited)) /\ Cardinality(of(a.visited)) \in Nat
      BY FS_Subset, FS_CardinalityType DEF Among, of
    <2>4. CASE x \in a.visited
      <3>1. b.queue = Tail(a.queue) /\ b.visited = a.visited /\ b.chain = a.chain
        BY <1>3, <1>5, <2>4 DEF IsVisit, x
      <3>2. in(b) = in(a)
        BY <2>2, <2>4, <3>1
      <3>3. (n + 1) + Len(b.queue) <= 1 + Cardinality(of(b.visited))
        <4>1. Len(b.queue) = Len(a.queue) - 1
          BY <2>1, <3>1
        <4>2. Cardinality(of(b.visited)) = Cardinality(of(a.visited))
          BY <3>1
        <4>3. n + Len(a.queue) <= 1 + Cardinality(of(a.visited))
          BY <1>1, <1>5
        <4> DEFINE p == Len(a.queue)
                   q == Len(b.queue)
                   u == Cardinality(of(a.visited))
                   v == Cardinality(of(b.visited))
        <4>4. p \in Nat /\ u \in Nat /\ q = p - 1 /\ v = u /\ n + p <= 1 + u
          BY <2>1, <2>3, <4>1, <4>2, <4>3
        <4> HIDE DEF p, q, u, v
        <4>5. (n + 1) + q <= 1 + v
          BY <4>4
        <4> QED  BY <4>5 DEF q, v
      <3> HIDE DEF in, R
      <3>4. /\ in(b) \subseteq R /\ root \in in(b)
            /\ \A l \in causes : l.from \in b.visited => l.to \in in(b)
            /\ History!ToSet(b.chain) = b.visited \cap T /\ History!IsInjective(b.chain)
        BY <1>1, <3>1, <3>2
      <3> QED  BY <1>3, <3>3, <3>4 DEF SearchInv, in, R, of, b
    <2>5. CASE x \notin a.visited
      <3> DEFINE F == Followed(a, x, causes)
      <3>1. /\ History!ToSet(b.queue) = History!ToSet(Tail(a.queue)) \cup {l.to : l \in F}
            /\ Len(b.queue) = Len(a.queue) - 1 + Cardinality(F)
            /\ b.visited = a.visited \cup {x}
            /\ b.chain = IF x \in T THEN Append(a.chain, x) ELSE a.chain
        BY Zenon, <1>3, <1>5, <2>5 DEF IsVisit, x
      <3>2. F = {l \in causes : l.from = x /\ l.to \notin b.visited}
        BY <3>1 DEF Followed
      <3>3. in(b) \subseteq R /\ root \in in(b)
        <4>1. \A l \in causes : l.from \in R => l.to \in R
          BY ReachedLeast
        <4> HIDE DEF R
        <4>2. x \in R
          BY <1>1, <2>2
        <4> QED  BY <1>1, <2>2, <3>1, <3>2, <4>1, <4>2
      <3>4. \A l \in causes : l.from \in b.visited => l.to \in in(b)
        BY <1>1, <2>2, <3>1, <3>2
      <3>5. History!ToSet(b.chain) = b.visited \cap T /\ History!IsInjective(b.chain)
        <4> DEFINE s == a.chain
        <4>1. s \in Seq(History!Nodes) /\ History!ToSet(s) = a.visited \cap T /\ History!IsInjective(s)
              /\ b.chain = IF x \in T THEN Append(s, x) ELSE s
          BY <1>1, <1>2, <3>1
        <4> HIDE DEF s
        <4>2. History!ToSet(Append(s, x)) = History!ToSet(s) \cup {x}
          BY <2>1, <4>1, InSequences
        <4>3. x \in T => History!IsInjective(Append(s, x))
          BY <2>1, <2>5, <4>1, StaysInjective
        <4> QED  BY <2>5, <3>1, <4>1, <4>2, <4>3
      <3>6. (n + 1) + Len(b.queue) <= 1 + Cardinality(of(b.visited))
        <4> DEFINE D == {l \in causes : l.from = x}
        <4>1. IsFiniteSet(D) /\ Cardinality(D) \in Nat
          BY FS_Subset, FS_CardinalityType DEF Among
        <4>2. Cardinality(F) \in Nat /\ Cardinality(F) <= Cardinality(D)
          <5>1. F \in SUBSET D
            BY <3>2
          <5> HIDE DEF D, F
          <5> QED  BY <4>1, <5>1, FS_Subset, FS_CardinalityType
        <4>3. of(b.visited) = of(a.visited) \cup D /\ of(a.visited) \cap D = {}
          BY <2>5, <3>1 DEF of
        <4> HIDE DEF D, F
        <4>4. Cardinality(of(a.visited) \cup D) =
                Cardinality(of(a.visited)) + Cardinality(D) - Cardinality(of(a.visited) \cap D)
          BY <2>3, <4>1, FS_Union
        <4>5. Cardinality(of(b.visited)) = Cardinality(of(a.visited)) + Cardinality(D)
          <5>1. Cardinality(of(a.visited) \cap D) = 0
            BY <4>3, FS_EmptySet
          <5>2. Cardinality(of(b.visited)) = Cardinality(of(a.visited) \cup D)
            BY <4>3
          <5> QED  BY <2>3, <4>1, <4>4, <5>1, <5>2
        <4>6. n + Len(a.queue) <= 1 + Cardinality(of(a.visited))
          BY <1>1, <1>5
        <4>7. Len(b.queue) = Len(a.queue) - 1 + Cardinality(F)
          BY <3>1
        <4> QED  BY <2>1, <2>3, <4>1, <4>2, <4>5, <4>6, <4>7
      <3> HIDE DEF F
      <3> QED  BY <1>3, <3>3, <3>4, <3>5, <3>6 DEF SearchInv, of, b
    <2> QED  BY <2>4, <2>5
  <1> QED  BY <1>4, <1>5

\* A search ends with what its root leads to in the timeline, once each: the links were
\* turns enough for its queue.
LEMMA SearchFinds ==
  ASSUME NEW causes, Among(causes), NEW T, NEW root \in History!Nodes
  PROVE  LET c == History!Search(root, T, causes)
         IN  History!IsInjective(c) /\ History!ToSet(c) = T \cap History!Reached(root, causes)
  <1> DEFINE N == Cardinality(causes) + 1
             b == [queue |-> <<root>>, visited |-> {}, chain |-> <<>>]
             step(a) == History!Visit(a, T, causes)
             G == [n \in 1..N |-> [a \in Searching |-> step(a)]]
             body(f) == [n \in 0..N |-> IF n = 0 THEN b ELSE step(f[n - 1])]
             at == CHOOSE f : f = body(f)
  <1>0. Cardinality(causes) \in Nat /\ N \in Nat
    BY FS_CardinalityType DEF Among
  <1>f. History!Search(root, T, causes) = at[N].chain
    BY HistoryCounts DEF History!Search
  <1>p. at = CHOOSE f : f = body(f)
    OBVIOUS
  <1>b. SearchInv(b, 0, root, T, causes) /\ b \in Searching
    BY SearchInit DEF SearchInv
  <1>1. \A a \in Searching : step(a) \in Searching
    BY VisitStep
  <1>s. \A n \in Nat : \A a : SearchInv(a, n, root, T, causes) => SearchInv(step(a), n + 1, root, T, causes)
    BY SearchKeeps
  <1>r. N = Cardinality(causes) + 1
    OBVIOUS
  <1> HIDE DEF step, b, N
  <1>2. G \in [1..N -> [Searching -> Searching]] /\ \A n \in 1..N : \A a \in Searching : G[n][a] = step(a)
    BY <1>1
  <1> HIDE DEF G
  <1>3. PICK g : Follows(g, b, G, Searching, N)
    BY <1>0, <1>b, <1>2, Loop
  <1>i. \A n \in 1..N : n - 1 \in 0..N /\ n # 0 /\ n \in 0..N
    BY <1>0
  <1>4. g \in [0..N -> Searching] /\ g[0] = b /\ \A n \in 1..N : g[n] = step(g[n - 1])
    <2>1. g \in [0..N -> Searching] /\ g[0] = b /\ \A n \in 1..N : g[n] = G[n][g[n - 1]]
      BY <1>3 DEF Follows
    <2>2. \A n \in 1..N : g[n - 1] \in Searching
      BY <1>i, <2>1
    <2> QED  BY <1>2, <2>1, <2>2
  <1>5. g = body(g)
    BY <1>0, <1>4
  <1>6. at = body(at)
    <2> HIDE DEF body, at
    <2> QED  BY <1>p, <1>5
  <1>7. \A n \in 0..N : at[n] = IF n = 0 THEN b ELSE step(at[n - 1])
    <2> HIDE DEF at
    <2> QED  BY <1>6
  <1> HIDE DEF at, body
  <1> DEFINE I == {n \in 0..N : SearchInv(at[n], n, root, T, causes)}
  <1>8. 0 \in I
    BY <1>0, <1>b, <1>7
  <1>9. ASSUME NEW n \in 1..N, n - 1 \in I  PROVE n \in I
    <2>1. n - 1 \in Nat /\ n = (n - 1) + 1 /\ SearchInv(at[n - 1], n - 1, root, T, causes)
      BY <1>0, <1>9
    <2>2. at[n] = step(at[n - 1])
      BY <1>7, <1>i
    <2>3. SearchInv(step(at[n - 1]), (n - 1) + 1, root, T, causes)
      BY <1>s, <2>1
    <2> QED  BY <1>i, <2>1, <2>2, <2>3
  <1>10. SearchInv(at[N], N, root, T, causes)
    <2>1. \A n \in 0..N : n \in I
      <3> HIDE DEF I
      <3> QED  BY <1>0, <1>8, <1>9, Upto
    <2> QED  BY <1>0, <2>1
  <1> HIDE DEF I
  <1> DEFINE a == at[N]
             R == History!Reached(root, causes)
             of == {l \in causes : l.from \in a.visited}
  <1>11. /\ a \in Searching /\ History!ToSet(a.queue) \cup a.visited \subseteq R
         /\ root \in History!ToSet(a.queue) \cup a.visited
         /\ \A l \in causes : l.from \in a.visited => l.to \in History!ToSet(a.queue) \cup a.visited
         /\ History!ToSet(a.chain) = a.visited \cap T /\ History!IsInjective(a.chain)
         /\ a.queue = <<>> \/ N + Len(a.queue) <= 1 + Cardinality(of)
    BY <1>10 DEF SearchInv
  <1>12. Cardinality(of) \in Nat /\ Cardinality(of) <= Cardinality(causes)
    BY FS_Subset, FS_CardinalityType DEF Among
  <1> HIDE DEF of
  <1>13. a.queue = <<>>
    <2>1. a.queue \in Seq(History!Nodes)
      BY <1>11 DEF Searching
    <2>2. Len(a.queue) \in Nat /\ (a.queue # <<>> => Len(a.queue) > 0)
      BY <2>1
    <2> HIDE DEF a
    <2> QED  BY <1>0, <1>r, <1>11, <1>12, <2>2
  <1>14. History!ToSet(a.queue) = {} /\ a.visited \in SUBSET History!Nodes
    BY <1>11, <1>13 DEF History!ToSet, Searching
  <1> HIDE DEF a
  <1>15. a.visited = R
    <2>1. /\ root \in a.visited /\ \A l \in causes : l.from \in a.visited => l.to \in a.visited
          /\ a.visited \subseteq R
      BY <1>11, <1>14
    <2>2. R \subseteq a.visited
      BY <1>14, <2>1, ReachedLeast
    <2> QED  BY <2>1, <2>2
  <1> QED  BY <1>f, <1>11, <1>15 DEF a

\* A fragment of the timeline with a causal link that is in no chain has a set of fragments
\* and events behind it in which everyone has a predecessor.
LEMMA MissedBehindCycle ==
  ASSUME NEW causes, Among(causes), NEW T, NEW f \in T, NEW k \in causes, f \in {k.from, k.to},
         f \notin History!Chained(History!Chains(T, causes))
  PROVE  \E S \in SUBSET History!Nodes :
           f \in S /\ \A x \in S : \E l \in causes : l.to = x /\ l.from \in S
  <1> DEFINE S == {x \in History!Nodes : f \in History!Reached(x, causes)}
  <1>0. f \in History!Nodes
    BY DEF Among
  <1>1. f \in S
    BY <1>0, ReachedLeast
  <1>2. ASSUME NEW x \in S  PROVE \E l \in causes : l.to = x
    <2> SUFFICES ASSUME \A l \in causes : l.to # x  PROVE FALSE
      OBVIOUS
    <2>1. \E l \in causes : l.from = x
      <3> SUFFICES ASSUME \A l \in causes : l.from # x  PROVE FALSE
        OBVIOUS
      <3>1. History!Reached(x, causes) \subseteq {x}
        <4>1. x \in History!Nodes /\ {x} \in SUBSET History!Nodes /\ \A l \in causes : l.from \in {x} => l.to \in {x}
          OBVIOUS
        <4> HIDE DEF S
        <4> QED  BY <4>1, ReachedLeast
      <3>2. f = x
        BY <3>1
      <3> QED  BY <3>2
    <2>2. x \in History!Roots(causes)
      BY <2>1 DEF History!Roots
    <2> DEFINE c == [root |-> x, chain |-> History!Search(x, T, causes)]
    <2>3. History!ToSet(c.chain) = T \cap History!Reached(x, causes)
      BY SearchFinds
    <2>4. f \in History!ToSet(c.chain)
      BY <2>3
    <2>5. c.chain # <<>>
      BY <2>4 DEF History!ToSet
    <2>6. c \in History!Chains(T, causes)
      BY <2>2, <2>5 DEF History!Chains
    <2> QED  BY <2>4, <2>6 DEF History!Chained
  <1>3. ASSUME NEW l \in causes, l.to \in S  PROVE l.from \in S
    <2>1. l.from \in History!Nodes /\ l.to \in History!Nodes
      BY DEF Among
    <2>2. l.to \in History!Reached(l.from, causes)
      BY <2>1, ReachedLeast
    <2>3. History!Reached(l.to, causes) \subseteq History!Reached(l.from, causes)
      BY <2>1, <2>2, ReachedLeast
    <2> QED  BY <1>3, <2>1, <2>3
  <1> HIDE DEF S
  <1>4. S \in SUBSET History!Nodes
    BY DEF S
  <1> QED  BY <1>1, <1>2, <1>3, <1>4

\* What the caller may read
Visible(q) == {f \in History!Frags : (q.key = Unset \/ OwnerOf[f] \in q.group) /\ f \in q.hits}

\* HistoryExact speaks of answers; behind it, the links are finitely many between fragments,
\* and what a call has read of rows and edges is in its scope, from the read on.
HistoryIInv ==
  /\ IsFiniteSet(rowLinks) /\ \A l \in rowLinks : {l.from, l.to} \subseteq History!Frags
  /\ {"pc", "q", "timeline", "events", "dag", "edges", "chains", "open", "rest"} \subseteq DOMAIN story
  /\ story.timeline \subseteq Visible(story.q) /\ story.dag \subseteq EventLinks
  /\ HistoryExact

\* In the first states nothing was asked.
LEMMA HistoryInit == History!Init => HistoryIInv
  BY HistoryAssumption DEF History!Init, HistoryIInv, History!Nothing, History!Frags, History!ToSet,
     HistoryExact, History!HistoryExact

\* The last read: what is made of the rows, links and edges.
LEMMA LinksFetched == HistoryIInv /\ History!FetchLinks => HistoryIInv'
  <1> SUFFICES ASSUME HistoryIInv, History!FetchLinks  PROVE HistoryIInv'
    OBVIOUS
  <1> DEFINE T == story.timeline
             E == {l \in {l \in rowLinks : {l.from, l.to} \cap T # {}} \cup story.dag : l.type \in History!Causal}
             C == History!Chains(T, E)
             O == {f \in T : StatusOf[f] = "open"} \ History!Chained({c \in C : History!IsResolved(c)})
             W == T \ History!Chained(C)
  <1>1. /\ story' = [story EXCEPT !.pc = "answered", !.edges = E, !.chains = C, !.open = O, !.rest = W]
        /\ UNCHANGED <<rowsNow, rowLinks, shifts>>
    BY DEF History!FetchLinks
  <1>2. Among(E)
    <2>1. IsFiniteSet(rowLinks) /\ IsFiniteSet(EventLinks)
      BY HistoryAssumption DEF HistoryIInv
    <2>2. E \subseteq rowLinks \cup EventLinks /\ IsFiniteSet(rowLinks \cup EventLinks)
      BY <2>1, FS_Union DEF HistoryIInv
    <2>3. IsFiniteSet(E)
      <3> HIDE DEF E
      <3> QED  BY <2>2, FS_Subset
    <2>4. \A l \in rowLinks \cup EventLinks : l.from \in History!Nodes /\ l.to \in History!Nodes
      BY HistoryAssumption DEF HistoryIInv, History!Nodes
    <2> HIDE DEF E
    <2> QED  BY <2>2, <2>3, <2>4 DEF Among
  <1>3. T \subseteq Visible(story.q)
    BY DEF HistoryIInv
  <1> HIDE DEF E, C, O, W
  <1>4. /\ {"pc", "q", "timeline", "events", "dag", "edges", "chains", "open", "rest"} \subseteq DOMAIN story'
        /\ story'.q = story.q /\ story'.timeline = T /\ story'.dag = story.dag
        /\ story'.edges = E /\ story'.chains = C /\ story'.open = O /\ story'.rest = W
    BY <1>1 DEF HistoryIInv
  <1>5. \A c \in C : /\ History!IsInjective(c.chain)
                     /\ History!ToSet(c.chain) = T \cap History!Reached(c.root, E)
    <2> SUFFICES ASSUME NEW c \in C
                 PROVE  /\ History!IsInjective(c.chain)
                        /\ History!ToSet(c.chain) = T \cap History!Reached(c.root, E)
      OBVIOUS
    <2>1. PICK r \in History!Roots(E) : c = [root |-> r, chain |-> History!Search(r, T, E)]
      BY DEF C, History!Chains
    <2>2. r \in History!Nodes
      BY <1>2, <2>1 DEF History!Roots, Among
    <2>3. c.root = r /\ c.chain = History!Search(r, T, E)
      BY <2>1
    <2> QED  BY <1>2, <2>2, <2>3, SearchFinds
  <1>6. History!Chained(C) \subseteq T /\ O \subseteq T /\ W \subseteq T
    BY <1>5 DEF History!Chained, O, W
  <1>7. \A f \in T \cup W \cup O \cup History!Chained(C) :
          (story.q.key = Unset \/ OwnerOf[f] \in story.q.group) /\ f \in story.q.hits
    BY <1>3, <1>6 DEF Visible
  <1>8. \A f \in T : (\E l \in E : f \in {l.from, l.to}) =>
          \/ f \in History!Chained(C)
          \/ \E S \in SUBSET History!Nodes : f \in S /\ \A x \in S : \E l \in E : l.to = x /\ l.from \in S
    BY <1>2, MissedBehindCycle DEF C
  <1>9. \A f \in T \ O : StatusOf[f] = "open" =>
          \E c \in C : f \in History!ToSet(c.chain) /\ \E g \in History!ToSet(c.chain) : StatusOf[g] = "resolved"
    BY DEF O, History!Chained, History!IsResolved
  <1>10. HistoryExact'
    BY <1>4, <1>5, <1>7, <1>8, <1>9 DEF HistoryExact, History!HistoryExact
  <1> QED  BY <1>1, <1>3, <1>4, <1>10 DEF HistoryIInv

\* The other reads and what others do meanwhile.
LEMMA HistoryNext == HistoryIInv /\ [History!Next]_(History!history) => HistoryIInv'
  <1> SUFFICES ASSUME HistoryIInv, [History!Next]_(History!history)  PROVE HistoryIInv'
    OBVIOUS
  <1> DEFINE fields == {"pc", "q", "timeline", "events", "dag", "edges", "chains", "open", "rest"}
  <1>f. fields \subseteq DOMAIN story /\ HistoryExact
    BY DEF HistoryIInv
  <1>a. ASSUME UNCHANGED rowLinks, fields \subseteq DOMAIN story', story'.timeline \subseteq Visible(story'.q),
               story'.dag \subseteq EventLinks, story'.pc # "answered"
        PROVE  HistoryIInv'
    BY <1>a DEF HistoryIInv, HistoryExact, History!HistoryExact
  <1>1. ASSUME NEW q \in Histories, History!Ask(q)  PROVE HistoryIInv'
    BY <1>1, <1>a DEF History!Ask, History!Nothing
  <1>2. ASSUME NEW q \in Histories, History!SearchTraces(q)  PROVE HistoryIInv'
    <2>1. /\ story'.q = q /\ story'.timeline = {} /\ story'.dag = {} /\ story'.edges = {} /\ story'.open = {}
          /\ story'.chains = {} /\ story'.rest = History!Newest(q, q.limit) /\ fields \subseteq DOMAIN story'
          /\ UNCHANGED rowLinks
      BY <1>2 DEF History!SearchTraces, History!Nothing
    <2>2. History!Newest(q, q.limit) \subseteq Visible(q)
      BY DEF History!Newest, History!Scoped, Visible, History!Frags, History!ToSet
    <2>3. \A f \in story'.timeline \cup story'.rest \cup story'.open \cup History!Chained(story'.chains) :
            (story'.q.key = Unset \/ OwnerOf[f] \in story'.q.group) /\ f \in story'.q.hits
      BY <2>1, <2>2 DEF Visible, History!Chained
    <2>4. HistoryExact'
      BY <2>1, <2>3 DEF HistoryExact, History!HistoryExact
    <2> QED  BY <2>1, <2>4 DEF HistoryIInv
  <1>3. CASE History!FetchTimeline
    <2> DEFINE T == History!Oldest(story.q, story.q.limit)
    <2>1. T \subseteq Visible(story.q)
      BY DEF History!Oldest, History!Scoped, Visible, History!Frags, History!ToSet
    <2> HIDE DEF T
    <2>2. /\ story'.q = story.q /\ story'.timeline = T /\ story'.dag = story.dag /\ story'.pc # "answered"
          /\ fields \subseteq DOMAIN story' /\ UNCHANGED rowLinks
      BY <1>3, <1>f DEF History!FetchTimeline, T
    <2> QED  BY <1>a, <2>1, <2>2 DEF HistoryIInv
  <1>4. CASE History!GetByCase
    <2>1. /\ story'.q = story.q /\ story'.timeline = story.timeline /\ story'.dag = story.dag
          /\ story'.pc # "answered" /\ fields \subseteq DOMAIN story' /\ UNCHANGED rowLinks
      BY <1>4, <1>f DEF History!GetByCase
    <2> QED  BY <1>a, <2>1 DEF HistoryIInv
  <1>5. CASE History!GetEdgesByEvents
    <2>1. /\ story'.q = story.q /\ story'.timeline = story.timeline /\ story'.dag \subseteq EventLinks
          /\ story'.pc # "answered" /\ fields \subseteq DOMAIN story' /\ UNCHANGED rowLinks
      BY <1>5, <1>f DEF History!GetEdgesByEvents
    <2> QED  BY <1>a, <2>1 DEF HistoryIInv
  <1>6. CASE History!Fail
    <2>1. CASE story.pc \in {"timeline", "links"}
      BY <1>6, <1>a, <2>1 DEF History!Fail, History!Nothing
    <2>2. CASE story.pc \notin {"timeline", "links"}
      <3>1. /\ story'.q = story.q /\ story'.timeline = story.timeline /\ story'.dag = story.dag
            /\ story'.pc # "answered" /\ fields \subseteq DOMAIN story' /\ UNCHANGED rowLinks
        BY <1>6, <1>f, <2>2 DEF History!Fail
      <3> QED  BY <1>a, <3>1 DEF HistoryIInv
    <2> QED  BY <2>1, <2>2
  <1>b. ASSUME UNCHANGED story, IsFiniteSet(rowLinks'), \A l \in rowLinks' : {l.from, l.to} \subseteq History!Frags
        PROVE  HistoryIInv'
    BY <1>b DEF HistoryIInv, HistoryExact, History!HistoryExact
  <1>7. ASSUME NEW f \in rowsNow, History!Expire(f)  PROVE HistoryIInv'
    BY <1>7, <1>b DEF History!Expire, History!Move, HistoryIInv
  <1>8. ASSUME NEW l \in UNION LinkSets, History!Link(l)  PROVE HistoryIInv'
    <2>1. UNCHANGED story /\ rowLinks' = rowLinks \cup {l}
      BY <1>8 DEF History!Link, History!Move
    <2>2. IsFiniteSet(rowLinks \cup {l})
      BY FS_AddElement DEF HistoryIInv
    <2>3. {l.from, l.to} \subseteq History!Frags
      BY HistoryAssumption DEF History!Frags, History!ToSet
    <2> QED  BY <1>b, <2>1, <2>2, <2>3 DEF HistoryIInv
  <1>9. ASSUME NEW l \in rowLinks, History!Unlink(l)  PROVE HistoryIInv'
    <2>1. UNCHANGED story /\ rowLinks' = rowLinks \ {l}
      BY <1>9 DEF History!Unlink, History!Move
    <2>2. IsFiniteSet(rowLinks \ {l})
      BY FS_RemoveElement DEF HistoryIInv
    <2> QED  BY <1>b, <2>1, <2>2 DEF HistoryIInv
  <1>10. CASE UNCHANGED History!history
    BY <1>10, <1>b DEF History!history, HistoryIInv
  <1> QED  BY <1>1, <1>2, <1>3, <1>4, <1>5, <1>6, <1>7, <1>8, <1>9, <1>10, LinksFetched DEF History!Next

\* For any rows, links, edges and questions: what reconstruct_history and search_traces answer is
\* in the caller's scope, its chains are what their roots lead to, and nothing that is open
\* is left out without a reason (_buildCausalChains, _detectUnresolvedBranches).
THEOREM HistoriesExact == History!Spec => []HistoryExact
  <1>1. HistoryIInv => HistoryExact
    BY DEF HistoryIInv
  <1> QED  BY <1>1, HistoryInit, HistoryNext, PTL DEF History!Spec
=============================================================================
