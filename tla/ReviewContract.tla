--------------------------- MODULE ReviewContract ---------------------------
(***************************************************************************)
(* What human review promises, with no graph, request, lock or checkpoint: *)
(* in every conversation at most one proposal is open at a time, under a   *)
(* token never used before; an approval grants exactly the open proposal;  *)
(* a grant runs at most once, and nothing runs without one.                *)
(***************************************************************************)
EXTENDS Integers

CONSTANTS
    Convs,        \* conversations
    Proposal      \* records with at least the fields conv and token

VARIABLES
    open,         \* open[c]: the proposals awaiting a decision, at most one
    grant,        \* grant[c]: the approved proposals not run yet, at most one
    used,         \* tokens ever proposed
    ran           \* proposals ever run

contractVars == <<open, grant, used, ran>>

ContractTypeOK ==
    /\ open \in [Convs -> SUBSET Proposal]
    /\ grant \in [Convs -> SUBSET Proposal]
    /\ used \subseteq Nat
    /\ ran \subseteq Proposal

Init ==
    /\ open = [c \in Convs |-> {}]
    /\ grant = [c \in Convs |-> {}]
    /\ used = {}
    /\ ran = {}

\* Show a proposal under a fresh token.
Propose(c) ==
    \E p \in Proposal :
        /\ p.conv = c
        /\ p.token \notin used
        /\ open[c] = {} /\ grant[c] = {}
        /\ open' = [open EXCEPT ![c] = {p}]
        /\ used' = used \cup {p.token}
        /\ UNCHANGED <<grant, ran>>

\* The user approves exactly what was shown.
Approve(c) ==
    /\ open[c] # {}
    /\ grant' = [grant EXCEPT ![c] = open[c]]
    /\ open' = [open EXCEPT ![c] = {}]
    /\ UNCHANGED <<used, ran>>

\* The proposal is rejected or superseded, or the grant is lost with the
\* process that held it.
Withdraw(c) ==
    /\ open[c] # {} \/ grant[c] # {}
    /\ open' = [open EXCEPT ![c] = {}]
    /\ grant' = [grant EXCEPT ![c] = {}]
    /\ UNCHANGED <<used, ran>>

\* An approved proposal runs and the grant is spent.
Run(c) ==
    /\ grant[c] # {}
    /\ grant[c] \cap ran = {}
    /\ ran' = ran \cup grant[c]
    /\ grant' = [grant EXCEPT ![c] = {}]
    /\ UNCHANGED <<open, used>>

Next == \E c \in Convs : Propose(c) \/ Approve(c) \/ Withdraw(c) \/ Run(c)

Spec == Init /\ [][Next]_contractVars
=============================================================================
