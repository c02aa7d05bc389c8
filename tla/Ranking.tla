------------------------------- MODULE Ranking -------------------------------
(***************************************************************************)
(* What a recall and a context keep of the fragments found: the cuts of a  *)
(* ranked list to a token budget.  A candidate is [cost, tag]; its place   *)
(* in the list is its rank, and a cut is the set of the places it keeps,   *)
(* which stay in their order.                                              *)
(***************************************************************************)
EXTENDS Integers, Sequences

CONSTANTS Lists,      \* candidate lists to cut
          Budgets     \* token budgets

VARIABLES list, budget, \* an input and
          kept          \* what each cut keeps of it

vars == <<list, budget, kept>>

\* The tokens of the candidates at some places
Cost(s, places) ==
  LET sum[n \in 0..Len(s)] ==
        IF n = 0 THEN 0 ELSE sum[n - 1] + (IF n \in places THEN s[n].cost ELSE 0)
  IN  sum[Len(s)]

Tagged(s, tag) == {n \in DOMAIN s : s[n].tag = tag}

---------------------------------------------------------------------------
(* Cuts.  Take walks the places wanted and stops at the first that exceeds *)
(* a limit; Fit passes it over and goes on.                                *)

Take(s, limit, wanted) == {n \in wanted : Cost(s, {m \in wanted : m <= n}) <= limit}

Fit(s, first, b) ==
  LET picked[n \in 0..Len(s)] ==
        IF n = 0 THEN first
        ELSE LET p == picked[n - 1]
             IN  IF n \notin p /\ Cost(s, p) + s[n].cost <= b THEN p \cup {n} ELSE p
  IN  picked[Len(s)]

\* Mutant: the supplements have no share of their own
Trim_Mutant(s, b) == Fit(s, Take(s, b \div 2, Tagged(s, "exact")), b)

\* _trimToTokenBudget: exact keyword matches up to half of the budget,
\* supplements up to a quarter, the rest by rank
Trim(s, b) ==
  LET exact == Take(s, b \div 2, Tagged(s, "exact"))
      over  == b - Cost(s, exact)
      more  == Take(s, IF b \div 4 < over THEN b \div 4 ELSE over, Tagged(s, "supplement"))
  IN  IF Tagged(s, "exact") \cup Tagged(s, "supplement") = {} THEN Take(s, b, DOMAIN s)
      ELSE Fit(s, exact \cup more, b)

\* The last cut of recall(), before the pages
Final(s, b) == Fit(s, {}, b)

\* selectRankedFragments: anchors are always in
Select(s, b) == Fit(s, Tagged(s, "anchor"), b)

Cut ==
  /\ kept = <<>>
  /\ kept' = [trim |-> Trim(list, budget), final |-> Final(list, budget),
              context |-> Select(list, budget)]
  /\ UNCHANGED <<list, budget>>

---------------------------------------------------------------------------
Init == list \in Lists /\ budget \in Budgets /\ kept = <<>>
Next == Cut
Spec == Init /\ [][Next]_vars

BudgetKept ==
  /\ Cost(list, kept.trim) <= budget /\ Cost(list, kept.final) <= budget
  /\ Cost(list, kept.context) <= budget \/ kept.context = Tagged(list, "anchor")

SharesHonoured ==
  \A share \in {<<"exact", budget \div 2>>, <<"supplement", budget \div 4>>} :
    \A n \in Tagged(list, share[1]) :
      (\A m \in Tagged(list, share[1]) : n <= m) /\ list[n].cost <= share[2] => n \in kept.trim

\* No cut keeps more than the budget; only a context's anchors may exceed it,
\* and then nothing else is in.  Yet _trimToTokenBudget gives each kind its
\* share: the best exact match and the best semantic supplement are in when they
\* fit in their shares, whatever stands above them.
CutsFair == kept # <<>> => BudgetKept /\ SharesHonoured
=============================================================================
