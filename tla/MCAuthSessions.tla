--------------------------- MODULE MCAuthSessions ---------------------------
(* AuthSessions on a small instance; liveness forbids symmetry.            *)
EXTENDS AuthSessions, TLC
=============================================================================
