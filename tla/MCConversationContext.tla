----------------------- MODULE MCConversationContext -----------------------
(* ConversationContext on small instances: the requests are symmetric. *)
EXTENDS ConversationContext, TLC

Symmetry == Permutations(Reqs)
=============================================================================
