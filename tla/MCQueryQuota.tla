---------------------------- MODULE MCQueryQuota ----------------------------
(* QueryQuota on small instances: an account plan in miniature. *)
EXTENDS QueryQuota, TLC

Symmetry == Permutations(Reqs)

\* A "minute" of one tick and a "day" of three.
AccountPlan == <<[seconds |-> 1, limit |-> 2], [seconds |-> 3, limit |-> 3]>>
=============================================================================
