------------------------------- MODULE Paging -------------------------------
(***************************************************************************)
(* The pages of a recall.  A page runs the whole search again: the search  *)
(* ranks with the access boosts (EMA) that earlier pages raised and cuts   *)
(* to its budget; the final order looks at the anchor time alone, which    *)
(* the cursor carries from the first page to the last, and leaves those of *)
(* the same score in the order of the search.  Importance and similarity,  *)
(* the other parts of a score, do not change from page to page.            *)
(***************************************************************************)
EXTENDS Integers, FiniteSets

CONSTANTS Births,     \* [1..N -> creation time], the fragments that match
          PageSize,
          Rooms,      \* numbers of fragments the search's budget may have room for
          LastMoment  \* bound: the clock

VARIABLES clock, ema, \* time, the access boost of each fragment
          room,       \* the fragments the budget has room for
          cursor,     \* the next page
          served      \* how often the pages returned each

vars == <<clock, ema, room, cursor, served>>

\* The end keeps the anchor: the property speaks of it
First  == [at |-> "first", offset |-> 0, anchor |-> 0]
End(t) == [at |-> "end", offset |-> 0, anchor |-> t]

Pageable == DOMAIN Births

Distance(f, t) == IF t < Births[f] THEN Births[f] - t ELSE t - Births[f]

\* The ranks a search may give: by its score, and any among those of the same score
Ranks(t) ==
  {r \in [Pageable -> 1..Cardinality(Pageable)] :
     \A f, g \in Pageable : f # g =>
       r[f] # r[g] /\ (Distance(f, t) - ema[f] < Distance(g, t) - ema[g] => r[f] < r[g])}

Searched(rank) == {f \in Pageable : rank[f] <= room}

\* The final sort is stable: the same score leaves the ranks of the search
Nearer(f, g, t, rank) ==
  Distance(f, t) < Distance(g, t) \/ (Distance(f, t) = Distance(g, t) /\ rank[f] < rank[g])

\* The index in the final order
Place(f, found, t, rank) == Cardinality({g \in found : Nearer(g, f, t, rank)})

\* A slice of what is found, from the offset on, and the cursor for the next
Serve(at, rank) ==
  LET found == Searched(rank)
      stop  == at.offset + PageSize
      slice == {f \in found : Place(f, found, at.anchor, rank) \in at.offset..(stop - 1)}
  IN  /\ served' = [f \in Pageable |-> IF f \in slice THEN served[f] + 1 ELSE served[f]]
      /\ cursor' = IF stop < Cardinality(found) THEN [at EXCEPT !.offset = stop] ELSE End(at.anchor)
      /\ \E up \in SUBSET found : ema' = [f \in Pageable |-> IF f \in up THEN 2 ELSE ema[f]]
      /\ UNCHANGED <<clock, room>>

Started == IF cursor.at = "first" THEN [at |-> "next", offset |-> 0, anchor |-> clock] ELSE cursor

\* Mutant: every page is ranked for the moment it is asked
Page_Mutant ==
  /\ cursor.at # "end"
  /\ \E rank \in Ranks(clock) : Serve([Started EXCEPT !.anchor = clock], rank)

Page ==
  /\ cursor.at # "end"
  /\ \E rank \in Ranks(Started.anchor) : Serve(Started, rank)

\* Another recall starts from the first page
Restart ==
  /\ cursor.at = "end" /\ clock < LastMoment
  /\ cursor' = First /\ served' = [f \in Pageable |-> 0]
  /\ UNCHANGED <<clock, ema, room>>

Tick ==
  /\ clock < LastMoment
  /\ clock' = clock + 1
  /\ UNCHANGED <<ema, room, cursor, served>>

---------------------------------------------------------------------------
Init == /\ clock = 0 /\ ema = [f \in Pageable |-> 0] /\ room \in Rooms
        /\ cursor = First /\ served = [f \in Pageable |-> 0]

Next == Page \/ Restart \/ Tick
Spec == Init /\ [][Next]_vars

\* No other fragment has the same score
Untied(f, t) == \A g \in Pageable \ {f} : Distance(g, t) # Distance(f, t)

\* The pages of a recall whose budget has room for all it finds return every
\* fragment whose score no other has once, though time passes and access boosts
\* change in between (MemoryRecaller.recall, the cursor's anchorTime).  Those of the
\* same score may come twice or not at all.
PagesPartition ==
  cursor.at = "end" /\ room >= Cardinality(Pageable) =>
    \A f \in Pageable : Untied(f, cursor.anchor) => served[f] = 1
=============================================================================
