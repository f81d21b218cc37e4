------------------------- MODULE WorkflowProperties -------------------------
(***************************************************************************)
(* What QueryWorkflow must guarantee.  "The guard" is workflow_guard, "the *)
(* thread" a conversation's LangGraph checkpoint, and a proposal one SQL   *)
(* text generate_sql bound to one review token.                            *)
(***************************************************************************)
EXTENDS QueryWorkflow

-----------------------------------------------------------------------------
(* Review *)

\* While the guard keeps its locks (~LockMayDrop), execute_sql only ever sends
\* SQL that was shown to the user of that very conversation, with that source
\* and under that token, and approved under that token: although a review is
\* checked on one snapshot and resumes whatever the thread holds some awaits
\* later, and across retries, superseded questions, late or repeated reviews,
\* crashes and lost checkpoints.  Without its locks a request promises nothing
\* of the kind: another run may restart the thread between check and resume.
ExecutedAsApproved ==
    \A p \in executed : p \in offered /\ p.token \in approved

\* The thread state implements the contract of human review: what is open, what
\* is granted and what ran are read off the checkpoint and the histories.
ToReview(c) ==
    LET p == ProposalOf(c, ckpt[c].values) IN
    IF ckpt[c].next = "human_review" /\ p \in offered THEN {p} ELSE {}

ToRun(c) ==
    LET p == ProposalOf(c, ckpt[c].values) IN
    IF ckpt[c].next = "execute_sql" /\ p \notin executed THEN {p} ELSE {}

\* What can be shown for review: a text the model did not decline to write.
Showable == [conv : Convs, token : 1 .. MaxTokens, source : AnySource,
             sql : Queries, saved : Queries \cup {NoSql}]

Contract == INSTANCE ReviewContract WITH
    Proposal <- Showable,
    open  <- [c \in Convs |-> ToReview(c)],
    grant <- [c \in Convs |-> ToRun(c)],
    used  <- {p.token : p \in offered},
    ran   <- executed

ImplementsContract == Contract!Spec

-----------------------------------------------------------------------------
(* The guard *)

\* At most one request of a user, and at most one on a thread, is past the
\* guard at any time, whichever workers serve them.
ExclusiveRuns ==
    \A r1, r2 \in Reqs :
        (r1 # r2 /\ pc[r1] \in GuardedPcs /\ pc[r2] \in GuardedPcs)
            => UserOf(r1) # UserOf(r2) /\ ConvOf(r1) # ConvOf(r2)

\* The retry budget holds for a question as a whole: however often it pauses,
\* is reviewed, fails and resumes, generate_sql runs at most MaxRetries + 1
\* times for it.
RetryBudget == \A c \in Convs : attempts[c] <= MaxRetries + 1

-----------------------------------------------------------------------------
(* Provenance *)

\* While the guard keeps its locks, an answer stored as successful carries SQL
\* that was approved and executed in its own conversation on the source it
\* names, and its rows are that run's; a saved analysis holds the SQL, source
\* and latest rows of such a run of its owner's.
AnswersMatchExecution ==
    /\ \A c \in Convs : \A i \in DOMAIN messages[c] :
         LET m == messages[c][i] IN
         m.ok => \E p \in executed :
                    /\ p.conv = c /\ p.sql = m.sql /\ p.source = m.source
                    /\ p.token = m.run /\ m.run \in approved
    /\ \A a \in Analyses : analyses[a] # Unsaved =>
         LET sa == analyses[a] IN
         \E p \in executed :
            /\ Owner[p.conv] = sa.user /\ p.sql = sa.sql /\ p.token = sa.run
            /\ sa.source \in {p.source, Gone} /\ p.token \in approved

\* A saved analysis is never rewritten: whatever is proposed, shown or run on
\* its behalf is its own SQL on its own source, and it is proposed once per
\* question, never again after a rejection or an error.
SavedSqlIsImmutable ==
    /\ \A p \in minted : p.saved # NoSql =>
         /\ p.sql = p.saved
         /\ \E a \in Analyses :
              /\ analyses[a] # Unsaved /\ analyses[a].sql = p.saved
              /\ analyses[a].source \in {p.source, Gone}
    /\ \A c \in Convs :
         ckpt[c].values.saved # NoSql => ckpt[c].values.retry = 0

-----------------------------------------------------------------------------
(* The inductive invariants behind ExecutedAsApproved *)

\* The nodes at which a thread holds the proposal it last generated.
Proposing == {"validate_sql", "human_review", "execute_sql"}
ActivePcs == {"running", "executing"}

\* A token names one proposal, and no proposal has a token still to come.
TokensAreUnique ==
    /\ \A p \in minted : p.token <= issued
    /\ \A p, q \in minted : p.token = q.token => p = q

\* A thread holding a proposal holds what was minted for its conversation.
ThreadsHoldMinted ==
    /\ \A c \in Convs : ckpt[c].next \in Proposing =>
                            ProposalOf(c, ckpt[c].values) \in minted
    /\ \A r \in Reqs : pc[r] \in ActivePcs /\ run[r].at \in Proposing =>
                           ProposalOf(ConvOf(r), run[r].values) \in minted

\* A review names a token that was shown.
ReviewsNameOffers ==
    \A r \in Reqs : pc[r] \in BusyPcs /\ job[r].kind = "review" =>
                       job[r].token \in {p.token : p \in offered}

\* What holds of proposals whatever becomes of the locks.
ReviewInv ==
    /\ TypeOK /\ TokensAreUnique /\ offered \cup executed \subseteq minted
    /\ ThreadsHoldMinted /\ ReviewsNameOffers

\* What was checked still stands: until the thread is resumed, and when the
\* resume value reaches human_review, it waits for exactly the token reviewed.
CheckStands(r) ==
    /\ pc[r] \in CheckedPcs => /\ job[r].kind = "review"
                              /\ Pending(ckpt[ConvOf(r)], job[r].token)
    /\ pc[r] \in ActivePcs /\ run[r].resume =>
            /\ run[r].at = "human_review" /\ job[r].kind = "review"
            /\ job[r].token = run[r].values.token

\* A run about to execute was shown and approved.
ReadyIsApproved(r) ==
    pc[r] \in ActivePcs /\ run[r].at = "execute_sql" =>
        /\ ProposalOf(ConvOf(r), run[r].values) \in offered
        /\ run[r].values.token \in approved

\* What holds of approvals while requests past the guard hold their locks.
ApprovalInv ==
    /\ \A r \in Reqs : CheckStands(r) /\ ReadyIsApproved(r)
    /\ ExecutedAsApproved

\* The inductive invariant behind ExclusiveRuns: a request past the guard holds
\* its locks.
HoldsLocks(r) ==
    /\ pc[r] \in GuardedPcs \cup {"userLocked"} => userLock[UserOf(r)] = r
    /\ pc[r] \in GuardedPcs => convLock[ConvOf(r)] = r

GuardInv == TypeOK /\ \A r \in Reqs : HoldsLocks(r)

-----------------------------------------------------------------------------
(* Progress *)

\* Every accepted request ends, and then holds no lock: no refusal, failed
\* node or pause keeps a user or a thread locked out.
RequestsEnd ==
    \A r \in Reqs :
        pc[r] # "idle" ~> /\ pc[r] = "idle"
                         /\ \A u \in Users : userLock[u] # r
                         /\ \A c \in Convs : convLock[c] # r
=============================================================================
