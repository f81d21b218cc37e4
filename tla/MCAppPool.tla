----------------------------- MODULE MCAppPool ------------------------------
(* AppPool on small instances: the symmetric sets. *)
EXTENDS AppPool, TLC

Symmetry == Permutations(Reqs) \cup Permutations(Names)
=============================================================================
