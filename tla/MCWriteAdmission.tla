-------------------------- MODULE MCWriteAdmission --------------------------
(* Instances of WriteAdmission for TLC. *)
EXTENDS WriteAdmission, TLC

CONSTANTS x1, x2, x3, i1, c1, c2

Plain(x) == [x |-> x, ik |-> None]
Once(x)  == [x |-> x, ik |-> i1]
Req(op, items) == [op |-> op, items |-> items]

\* One or two fragments in any order, one of them repeated, a retry-safe
\* remember, and a look at the usage.
QuotaRequests ==
    {Req("usage", <<>>)}
    \cup {Req("remember", <<i>>) : i \in {Plain(x) : x \in Contents} \cup {Once(x) : x \in Contents}}
    \cup {Req("batch", <<Plain(x), Plain(y)>>) : x, y \in Contents}

\* The same item, sent again.
RetryRequests ==
    {Req("batch", <<Once(x1)>>), Req("remember", <<Once(x1)>>)}

\* The master's requests look at none of the settings, atomic ones not at the
\* margin.
View == <<keyed, keyed /\ atomic, IF keyed THEN limit ELSE 0,
          IF keyed /\ ~atomic THEN margin ELSE 0, frag, keyLock, usage, cl>>

Symmetry == Permutations(Clients) \cup Permutations(Contents)
=============================================================================
