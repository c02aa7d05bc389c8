---------------------------- MODULE MCSupersession ----------------------------
(* Instances of Supersession for TLC. *)
EXTENDS Supersession, TLC

CONSTANTS a, b, c

\* a and b are near duplicates, a and c contradict or supersede each other,
\* b and c are only related.
SimValue ==
    [x \in Contents |-> [y \in Contents |->
        CASE x = y               -> 100
          [] {x, y} = {a, b}     -> 96
          [] {x, y} = {a, c}     -> 88
          [] OTHER               -> 80]]

\* A process looks at its fragment again only at these places, or when it
\* returns to one of them; a request looks at its key until it ends.
Working == {"gate", "read", "link", "merge", "judge", "compress", "supersede"}

View ==
    <<rows, link, pc, cands, task, cycle, changes, listener, steadfast,
      [p \in Procs |-> IF {pc[p], task[p].then} \cap Working = {} THEN NoId ELSE frag[p]],
      [r \in Clients |-> IF pc[r] = "idle" THEN Master ELSE caller[r]]>>

Symmetry == Permutations(Ids)

\* Changes are explored in servers whose worker failed to start; in the
\* others the linker and the cycle work on what clients store.
ChangesValue == [l \in BOOLEAN |-> IF l THEN 0 ELSE 1]

NoChanges == [l \in BOOLEAN |-> 0]

OneKind == [i \in Ids |-> "fact"]

=============================================================================
