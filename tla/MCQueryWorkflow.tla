--------------------------- MODULE MCQueryWorkflow ---------------------------
(* QueryWorkflow on small instances: definitions of the function constants. *)
EXTENDS WorkflowProperties, TLC

\* Every conversation belongs to one user, or each to a user of its own.
OneOwner == [c \in Convs |-> CHOOSE u \in Users : TRUE]
OwnOwner == CHOOSE f \in [Convs -> Users] :
                \A c, d \in Convs : c # d => f[c] # f[d]

\* Every connection is the same user's.
OneSourceOwner == [s \in Sources |-> CHOOSE u \in Users : TRUE]

Symmetry == Permutations(Reqs) \cup Permutations(Queries) \cup Permutations(Convs)
=============================================================================
