-------------------------- MODULE MCBrowserSession --------------------------
(* BrowserSession on small instances: the symmetric sets. *)
EXTENDS BrowserSession, TLC

Symmetry == Permutations(Tabs) \cup Permutations(Calls)
=============================================================================
