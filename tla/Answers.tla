------------------------------- MODULE Answers -------------------------------
(***************************************************************************)
(* What an agent is answered from the stored fragments, side by side: the  *)
(* cuts of a ranked list to a token budget, the working memory of a        *)
(* session with the context built from it, and the history of a case.      *)
(* Each has variables of its own; this module names its instance, with     *)
(* parameters that MCParts gives values, and its property.  ContentProofs  *)
(* proves the properties for every value the assumptions allow.            *)
(***************************************************************************)
EXTENDS Integers, Sequences, FiniteSets

CONSTANTS
  Lists, Budgets,                                \* candidate lists and the budgets they are cut to
  WmItems, WmRows, WmTokens, Guarded, WmLimit,  \* the working memory: entries, tokens, limit
  Order, OwnerOf, PlaceOf, StatusOf, Unset,      \* the rows of a history, key_id or workspace NULL
  EventKey, EventLinks, CaseLimit,               \* events and edges of the case, how many are read
  LinkSets,                                      \* links of the rows
  Histories, MaxShifts                           \* what is asked, bound of the changes meanwhile

VARIABLES list, budget, kept,
          wm, adding, remain, durable, build, seen,
          rowsNow, rowLinks, story, shifts

rankingVars == <<list, budget, kept>>
contextVars == <<wm, adding, remain, durable, build, seen>>
historyVars == <<rowsNow, rowLinks, story, shifts>>

Ranking == INSTANCE Ranking

Context == INSTANCE ContextMemory WITH
  Session <- WmItems, Durable <- WmRows, Weight <- WmTokens, table <- durable

History == INSTANCE History WITH
  KeyOf <- OwnerOf, SpaceOf <- PlaceOf, None <- Unset, EventLimit <- CaseLimit, Queries <- Histories, MaxMoves <- MaxShifts,
  current <- rowsNow, links <- rowLinks, h <- story

---------------------------------------------------------------------------
(* Assumptions.                                                            *)

\* Candidates have an estimate of their tokens and what makes a layer prefer them
ASSUME CutsAssumption ==
  /\ \A l \in Lists : l \in Seq([cost : Nat, tag : STRING])
  /\ Budgets \subseteq Nat

\* Entries have an estimate of their tokens
ASSUME ContextAssumption == WmTokens \in [WmItems -> Nat] /\ WmLimit \in Nat

\* Links are between fragments and edges between events, as their foreign keys say, and
\* finitely many
ASSUME HistoryAssumption ==
  /\ \A L \in LinkSets :
       IsFiniteSet(L) /\ \A l \in L : {l.from, l.to} \subseteq {Order[i] : i \in DOMAIN Order}
  /\ IsFiniteSet(EventLinks) /\ \A l \in EventLinks : {l.from, l.to} \subseteq DOMAIN EventKey

---------------------------------------------------------------------------
(* Properties.  Each is that of its module.                                *)

\* Each cut keeps its budget and gives the kinds their share (_trimToTokenBudget).
CutsFair == Ranking!CutsFair

\* Concurrent writers of a working memory leave it in its budget (_enforceWmBudget).
WmWithinBudget == Context!WmWithinBudget

\* reconstruct_history gives each chain what its root leads to, hides nothing open
\* and shows no row of others (_buildCausalChains).
HistoryExact == History!HistoryExact
=============================================================================
