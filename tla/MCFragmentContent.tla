-------------------------- MODULE MCFragmentContent --------------------------
(* Model-checking instances of FragmentContent: two keys share a group, so *)
(* that reading and owning differ.                                         *)
EXTENDS FragmentContent, TLC

MCGroup == [k \in Keys |-> Keys]

\* What the next steps depend on: not the columns of absent rows, nor what
\* an idle client or worker did last.
View ==
    << [i \in live |-> <<key[i], content[i], emb[i], lock[i]>>],
       used, versions, overwritten, disruptions,
       [r \in {q \in Clients : pc[q] # "idle"} |->
            <<pc[r], caller[r], target[r],
              IF pc[r] \in {"doomed", "owned"} THEN <<>> ELSE <<patch[r], saved[r]>> >>],
       [w \in {v \in Workers : busy[v]} |-> <<job[w], text[w]>>] >>

\* Keys of one group and clients are interchangeable.
Symmetry == Permutations(Keys) \cup Permutations(Clients)
=============================================================================
