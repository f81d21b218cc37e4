--------------------------- MODULE MCSourceBinding ---------------------------
(* SourceBinding on small instances: the symmetric sets. *)
EXTENDS SourceBinding, TLC

Symmetry == Permutations(Reqs) \cup Permutations(Convs) \cup Permutations(Conns)
=============================================================================
