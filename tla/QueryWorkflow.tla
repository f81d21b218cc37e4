---------------------------- MODULE QueryWorkflow ----------------------------
(***************************************************************************)
(* POST /chat and POST /chat/review as concurrent requests over shared     *)
(* state: the conversations and messages of the application database, the  *)
(* checkpoint of every LangGraph thread, and the advisory locks of         *)
(* workflow_guard.  A request is a process with a program counter:         *)
(*                                                                         *)
(*   idle -> queued -> userLocked -> guarded -> running <-> executing      *)
(*                                     |         ^  |                      *)
(*                    checked <--------+         |  +-> answering -> idle  *)
(*                       +-------> resuming -----+                         *)
(*                                                                         *)
(* A review is checked against one snapshot of the thread and resumes the  *)
(* latest checkpoint, some awaits later: checked and resuming are between. *)
(* One node of the agent is one step (AgentGraph says what it returns), so *)
(* requests, deletions, crashes and lost lock connections interleave       *)
(* between nodes; executing SQL has a start and an end.                    *)
(***************************************************************************)
EXTENDS AgentGraph, FiniteSets, Sequences

CONSTANTS
    Users,
    Convs,          \* conversation ids, each created at most once
    Owner,          \* Owner[c]: the user who creates conversation c
    SourceOwner,    \* SourceOwner[s]: the user who saved connection s
    Reqs,           \* request slots: one request at a time each
    SaverMayLag,    \* a crash may lose checkpoints still being written
    LockMayDrop,    \* the database may drop a guard's lock connection
    Unsaved,        \* the value of a saved analysis that does not exist yet
    MaxChats,       \* bound: questions accepted
    MaxTokens       \* bound: review tokens minted

Free == "free"

ASSUME WorkflowAssumption ==
    /\ Convs # {}
    /\ Owner \in [Convs -> Users]
    /\ SourceOwner \in [Sources -> Users]
    /\ Free \notin Reqs
    /\ SaverMayLag \in BOOLEAN /\ LockMayDrop \in BOOLEAN
    /\ MaxChats \in Nat /\ MaxTokens \in Nat

VARIABLES
    conv,       \* rows of conversations
    messages,   \* rows of messages, per conversation
    analyses,   \* rows of saved_analyses
    live,       \* rows of user_connections that still exist
    ckpt,       \* the durable checkpoint of each thread: values and next node
    userLock,   \* holder of the advisory lock user:<id>
    convLock,   \* holder of the advisory lock conversation:<id>
    pc,         \* where each request is
    job,        \* what each request was asked to do
    run,        \* the graph run each request drives, in its process memory
    issued,     \* number of review tokens minted
    chats,      \* number of questions accepted
    minted,     \* history: proposals made by generate_sql
    offered,    \* history: proposals shown in an approval_required event
    approved,   \* history: tokens a user approved
    executed,   \* history: proposals whose SQL was sent to a database
    attempts    \* history: proposals made for the thread's current question

dbVars      == <<conv, messages, analyses, live>>
lockVars    == <<userLock, convLock>>
historyVars == <<minted, offered, approved, executed, attempts>>
vars == <<dbVars, ckpt, lockVars, pc, job, run, issued, chats, historyVars>>

-----------------------------------------------------------------------------
(* Records *)

Gone     == "gone"      \* a saved analysis whose connection was set to NULL
AnySource == Sources \cup {Chinook}

ConvRow == [phase : {"unused", "open", "deleted"},
            source : AnySource, sourceDeleted : BOOLEAN]

\* sql, source and rows of an assistant message; "run" names the execution its
\* stored rows came from (the run's review token, 0 when there are none).
Message == [role : {"user", "assistant"}, ok : BOOLEAN,
            sql : SqlText, source : AnySource, run : Nat]

Analysis == [user : Users, sql : SqlText, source : AnySource \cup {Gone},
             run : Nat]

ASSUME UnsavedAssumption == Unsaved \notin Analysis

Proposal == [conv : Convs, token : Nat, source : AnySource,
             sql : SqlText, saved : SqlText]

Checkpoint == [values : AgentState, next : Nodes]

Job == [kind : {"none", "chat", "review"}, conv : Convs, source : AnySource,
        aid : Analyses \cup {NoAnalysis}, saved : SqlText,
        token : Nat, approve : BOOLEAN]

Run == [values : AgentState, at : Nodes, resume : BOOLEAN]

NoJob == [kind |-> "none", conv |-> CHOOSE c \in Convs : TRUE,
          source |-> Chinook, aid |-> NoAnalysis, saved |-> NoSql,
          token |-> NoToken, approve |-> FALSE]
NoRun == [values |-> EmptyState, at |-> "end", resume |-> FALSE]

ProposalOf(c, s) == [conv |-> c, token |-> s.token, source |-> s.source,
                     sql |-> s.sql, saved |-> s.saved]

CheckedPcs == {"checked", "resuming"}
GuardedPcs == {"guarded", "checked", "resuming", "running", "executing",
               "answering"}
BusyPcs    == GuardedPcs \cup {"queued", "userLocked"}
ConvOf(r)  == job[r].conv
UserOf(r)  == Owner[job[r].conv]

TypeOK ==
    /\ conv \in [Convs -> ConvRow]
    /\ messages \in [Convs -> Seq(Message)]
    /\ analyses \in [Analyses -> Analysis \cup {Unsaved}]
    /\ live \subseteq Sources
    /\ ckpt \in [Convs -> Checkpoint]
    /\ userLock \in [Users -> Reqs \cup {Free}]
    /\ convLock \in [Convs -> Reqs \cup {Free}]
    /\ pc \in [Reqs -> BusyPcs \cup {"idle"}]
    /\ job \in [Reqs -> Job]
    /\ run \in [Reqs -> Run]
    /\ issued \in Nat /\ chats \in Nat
    /\ minted \subseteq Proposal
    /\ offered \subseteq Proposal
    /\ approved \subseteq Nat
    /\ executed \subseteq Proposal
    /\ attempts \in [Convs -> Nat]

Init ==
    /\ conv = [c \in Convs |-> [phase |-> "unused", source |-> Chinook,
                                sourceDeleted |-> FALSE]]
    /\ messages = [c \in Convs |-> <<>>]
    /\ analyses = [a \in Analyses |-> Unsaved]
    /\ live = Sources
    /\ ckpt = [c \in Convs |-> [values |-> EmptyState, next |-> "end"]]
    /\ userLock = [u \in Users |-> Free]
    /\ convLock = [c \in Convs |-> Free]
    /\ pc = [r \in Reqs |-> "idle"]
    /\ job = [r \in Reqs |-> NoJob]
    /\ run = [r \in Reqs |-> NoRun]
    /\ issued = 0 /\ chats = 0
    /\ minted = {} /\ offered = {} /\ approved = {} /\ executed = {}
    /\ attempts = [c \in Convs |-> 0]

-----------------------------------------------------------------------------
(* Conversations, connections and saved analyses *)

\* POST /conversations, and the row a /chat without a conversation leaves
\* behind when it is refused further on.
CreateConversation(c) ==
    /\ conv[c].phase = "unused"
    /\ conv' = [conv EXCEPT ![c].phase = "open"]
    /\ UNCHANGED <<messages, analyses, live, ckpt, lockVars, pc, job, run,
                   issued, chats, historyVars>>

\* DELETE /conversations/{id}: messages cascade; the thread's checkpoint stays.
DeleteConversation(c) ==
    /\ conv[c].phase = "open"
    /\ conv' = [conv EXCEPT ![c].phase = "deleted"]
    /\ messages' = [messages EXCEPT ![c] = <<>>]
    /\ UNCHANGED <<analyses, live, ckpt, lockVars, pc, job, run, issued, chats,
                   historyVars>>

\* DELETE /connections/{id}: conversations are marked before the foreign keys
\* are set to NULL.
DeleteSource(s) ==
    /\ s \in live
    /\ live' = live \ {s}
    /\ conv' = [c \in Convs |->
                    IF conv[c].source = s
                    THEN [conv[c] EXCEPT !.source = Chinook,
                                         !.sourceDeleted = TRUE]
                    ELSE conv[c]]
    /\ analyses' = [a \in Analyses |->
                        IF analyses[a] # Unsaved /\ analyses[a].source = s
                        THEN [analyses[a] EXCEPT !.source = Gone]
                        ELSE analyses[a]]
    /\ UNCHANGED <<messages, ckpt, lockVars, pc, job, run, issued, chats,
                   historyVars>>

\* POST /analyses: only a successful answer whose source still exists.
SaveAnalysis(c, i, a) ==
    LET m == messages[c][i] IN
    /\ analyses[a] = Unsaved
    /\ m.role = "assistant" /\ m.ok /\ m.sql # NoSql
    /\ m.source \in live \cup {Chinook}
    /\ analyses' = [analyses EXCEPT ![a] =
                        [user |-> Owner[c], sql |-> m.sql,
                         source |-> m.source, run |-> m.run]]
    /\ UNCHANGED <<conv, messages, live, ckpt, lockVars, pc, job, run, issued,
                   chats, historyVars>>

-----------------------------------------------------------------------------
(* Arrival of requests: the handlers' work before the event stream starts *)

UserMessage == [role |-> "user", ok |-> FALSE, sql |-> NoSql,
                source |-> Chinook, run |-> 0]

\* Common to all questions: the connection must exist and belong to the user,
\* it is written to the conversation row (hasKey or not), and a question of a
\* user without a model key stops there.
AcceptQuestion(r, c, source, aid, saved, hasKey) ==
    /\ source \in live \cup {Chinook}
    /\ source # Chinook => SourceOwner[source] = Owner[c]
    /\ conv' = [conv EXCEPT ![c].phase = "open",
                            ![c].source = IF source = Chinook THEN @ ELSE source]
    /\ IF hasKey
       THEN /\ chats < MaxChats
            /\ chats' = chats + 1
            /\ messages' = [messages EXCEPT ![c] = Append(@, UserMessage)]
            /\ pc' = [pc EXCEPT ![r] = "queued"]
            /\ job' = [job EXCEPT ![r] =
                          [NoJob EXCEPT !.kind = "chat", !.conv = c,
                                        !.source = source, !.aid = aid,
                                        !.saved = saved]]
       ELSE UNCHANGED <<messages, pc, job, chats>>
    /\ UNCHANGED <<analyses, live, ckpt, lockVars, run, issued, historyVars>>

\* A question in a new conversation names its source.
AskInNewConversation(r, c, source, hasKey) ==
    /\ pc[r] = "idle" /\ conv[c].phase = "unused"
    /\ AcceptQuestion(r, c, source, NoAnalysis, NoSql, hasKey)

\* A follow-up runs on the conversation's own source: naming another one is
\* refused, naming none falls back to the stored one.
AskInConversation(r, c, hasKey) ==
    /\ pc[r] = "idle" /\ conv[c].phase = "open"
    /\ ~conv[c].sourceDeleted
    /\ AcceptQuestion(r, c, conv[c].source, NoAnalysis, NoSql, hasKey)

\* Running a saved analysis: always a new conversation, on the saved source
\* (verify_analysis_source refuses one that is gone).
RunAnalysis(r, c, a, hasKey) ==
    /\ pc[r] = "idle" /\ conv[c].phase = "unused"
    /\ analyses[a] # Unsaved
    /\ analyses[a].user = Owner[c]
    /\ AcceptQuestion(r, c, analyses[a].source, a, analyses[a].sql, hasKey)

\* POST /chat/review: the conversation must exist; the early "already
\* reviewed" check is skipped when the checkpoint cannot be read.
SubmitReview(r, c, token, approve) ==
    /\ pc[r] = "idle" /\ conv[c].phase = "open"
    /\ \E readable \in BOOLEAN : readable => ckpt[c].values.hitl = "none"
    /\ pc' = [pc EXCEPT ![r] = "queued"]
    /\ job' = [job EXCEPT ![r] = [NoJob EXCEPT !.kind = "review", !.conv = c,
                                               !.token = token,
                                               !.approve = approve]]
    /\ UNCHANGED <<dbVars, ckpt, lockVars, run, issued, chats, historyVars>>

-----------------------------------------------------------------------------
(* workflow_guard *)

\* Mutant of Release: the conversation's lock survives the request.
ReleaseUserOnly(r) ==
    /\ userLock' = [u \in Users |-> IF userLock[u] = r THEN Free ELSE userLock[u]]
    /\ UNCHANGED convLock

\* The guard's transaction ends, and both locks with it.
Release(r) ==
    /\ userLock' = [u \in Users |-> IF userLock[u] = r THEN Free ELSE userLock[u]]
    /\ convLock' = [c \in Convs |-> IF convLock[c] = r THEN Free ELSE convLock[c]]

\* The request ends, whatever it was doing.
Finish(r) ==
    /\ Release(r)
    /\ pc' = [pc EXCEPT ![r] = "idle"]
    /\ job' = [job EXCEPT ![r] = NoJob]
    /\ run' = [run EXCEPT ![r] = NoRun]

\* The account's budget is charged first; beyond it the request ends (429).
OverBudget(r) ==
    /\ pc[r] = "queued"
    /\ Finish(r)
    /\ UNCHANGED <<dbVars, ckpt, issued, chats, historyVars>>

\* Mutant of TakeUserLock: the result of pg_try_advisory_xact_lock is ignored.
TakeUserLockAnyway(r) ==
    /\ pc[r] = "queued"
    /\ userLock' = [userLock EXCEPT ![UserOf(r)] = r]
    /\ pc' = [pc EXCEPT ![r] = "userLocked"]
    /\ UNCHANGED <<convLock, job, run, dbVars, ckpt, issued, chats, historyVars>>

\* pg_try_advisory_xact_lock('user:..'): taken, or the request ends (409).
TakeUserLock(r) ==
    /\ pc[r] = "queued"
    /\ IF userLock[UserOf(r)] = Free
       THEN /\ userLock' = [userLock EXCEPT ![UserOf(r)] = r]
            /\ pc' = [pc EXCEPT ![r] = "userLocked"]
            /\ UNCHANGED <<convLock, job, run>>
       ELSE Finish(r)
    /\ UNCHANGED <<dbVars, ckpt, issued, chats, historyVars>>

\* pg_try_advisory_xact_lock('conversation:..'): taken, or both are given up.
TakeConvLock(r) ==
    /\ pc[r] = "userLocked"
    /\ IF convLock[ConvOf(r)] = Free
       THEN /\ convLock' = [convLock EXCEPT ![ConvOf(r)] = r]
            /\ pc' = [pc EXCEPT ![r] = "guarded"]
            /\ UNCHANGED <<userLock, job, run>>
       ELSE Finish(r)
    /\ UNCHANGED <<dbVars, ckpt, issued, chats, historyVars>>

\* The lock connection dies while the request goes on: nobody tells it.
LoseLocks(r) ==
    /\ LockMayDrop
    /\ pc[r] \in GuardedPcs \cup {"userLocked"}
    /\ Release(r)
    /\ UNCHANGED <<dbVars, ckpt, pc, job, run, issued, chats, historyVars>>

-----------------------------------------------------------------------------
(* Checkpoints *)

CheckpointOf(r) == [values |-> run[r].values, next |-> run[r].at]

\* A superstep ends: its writes are in memory, and durable now or, with a saver
\* that works in the background, by the time the stream ends.
Superstep(r, values, next) ==
    /\ run' = [run EXCEPT ![r] = [values |-> values, at |-> next,
                                  resume |-> FALSE]]
    /\ \/ ckpt' = [ckpt EXCEPT ![ConvOf(r)] = [values |-> values, next |-> next]]
       \/ SaverMayLag /\ UNCHANGED ckpt

\* Leaving the stream waits for the saver.
Flush(r) == ckpt' = [ckpt EXCEPT ![ConvOf(r)] = CheckpointOf(r)]

AtNode(r, node) == pc[r] = "running" /\ run[r].at = node

-----------------------------------------------------------------------------
(* The guarded part of a request *)

\* /chat: astream(initial_state) starts the thread over, whatever it paused at.
StartQuestion(r) ==
    LET c == ConvOf(r) IN
    /\ pc[r] = "guarded" /\ job[r].kind = "chat"
    /\ pc' = [pc EXCEPT ![r] = "running"]
    /\ Superstep(r, InitialState(ckpt[c].values, job[r].source, job[r].aid,
                                 job[r].saved), "table_selector")
    /\ attempts' = [attempts EXCEPT ![c] = 0]
    /\ UNCHANGED <<dbVars, lockVars, job, issued, chats, minted, offered,
                   approved, executed>>

\* Mutant of PendingReview: only the token's presence is checked.
PendingReviewAnyToken(values, token) == token # NoToken /\ values.hitl = "none"

\* require_pending_review
PendingReview(values, token) ==
    /\ token # NoToken
    /\ values.token = token
    /\ values.hitl = "none"

\* What _review_generator asks of the snapshot it reads under the guard.  (Its
\* checks on the owner of the thread and of its source are implied by Owner.)
Pending(snapshot, token) ==
    /\ PendingReview(snapshot.values, token)
    /\ snapshot.next = "human_review"

\* The snapshot is kept in the request's memory while the source is looked up.
Keep(r, snapshot) ==
    /\ pc' = [pc EXCEPT ![r] = "checked"]
    /\ run' = [run EXCEPT ![r] = [values |-> snapshot.values,
                                  at |-> snapshot.next, resume |-> FALSE]]
    /\ UNCHANGED <<lockVars, job>>

\* Mutant of CheckReview: reviews do not enter workflow_guard.
CheckReviewUnguarded(r) ==
    /\ pc[r] = "queued" /\ job[r].kind = "review"
    /\ IF Pending(ckpt[ConvOf(r)], job[r].token)
       THEN Keep(r, ckpt[ConvOf(r)])
       ELSE Finish(r)
    /\ UNCHANGED <<dbVars, ckpt, issued, chats, historyVars>>

\* /chat/review: aget_state reads a snapshot, which is judged and kept, or the
\* request is refused (409).
CheckReview(r) ==
    /\ pc[r] = "guarded" /\ job[r].kind = "review"
    /\ IF Pending(ckpt[ConvOf(r)], job[r].token)
       THEN Keep(r, ckpt[ConvOf(r)])
       ELSE Finish(r)
    /\ UNCHANGED <<dbVars, ckpt, issued, chats, historyVars>>

\* The connection that snapshot names must still exist (409).
CheckSource(r) ==
    /\ pc[r] = "checked"
    /\ IF run[r].values.source \in live \cup {Chinook}
       THEN /\ pc' = [pc EXCEPT ![r] = "resuming"]
            /\ UNCHANGED <<lockVars, job, run>>
       ELSE Finish(r)
    /\ UNCHANGED <<dbVars, ckpt, issued, chats, historyVars>>

\* astream(Command(resume)) loads the thread's latest checkpoint, whatever was
\* checked before, and goes on at its pending node; the resume value counts if
\* that node is human_review.  On a finished thread nothing runs, and the stream
\* ends with an empty final state.
ResumeReview(r) ==
    LET latest == ckpt[ConvOf(r)] IN
    /\ pc[r] = "resuming"
    /\ IF latest.next = "end"
       THEN /\ pc' = [pc EXCEPT ![r] = "answering"]
            /\ run' = [run EXCEPT ![r] = NoRun]
       ELSE /\ pc' = [pc EXCEPT ![r] = "running"]
            /\ run' = [run EXCEPT ![r] = [values |-> latest.values,
                                          at |-> latest.next,
                                          resume |-> TRUE]]
    /\ UNCHANGED <<dbVars, ckpt, lockVars, job, issued, chats, historyVars>>

TableSelector(r) ==
    /\ AtNode(r, "table_selector")
    /\ Superstep(r, run[r].values, "generate_sql")
    /\ UNCHANGED <<dbVars, lockVars, pc, job, issued, chats, historyVars>>

GenerateSql(r) ==
    /\ AtNode(r, "generate_sql")
    /\ issued < MaxTokens
    /\ issued' = issued + 1
    /\ \E answer \in Queries \cup {CannotAnswer} :
         LET s == Generated(run[r].values, answer, issued + 1) IN
         /\ Superstep(r, s, "validate_sql")
         /\ minted' = minted \cup {ProposalOf(ConvOf(r), s)}
    /\ attempts' = [attempts EXCEPT ![ConvOf(r)] = @ + 1]
    /\ UNCHANGED <<dbVars, lockVars, pc, job, chats, offered, approved, executed>>

ValidateSql(r) ==
    /\ AtNode(r, "validate_sql")
    /\ \E ok \in BOOLEAN :
         LET s == Validated(run[r].values, ok) IN
         Superstep(r, s, AfterValidate(s))
    /\ UNCHANGED <<dbVars, lockVars, pc, job, issued, chats, historyVars>>

\* human_review without a resume value: interrupt() ends the stream with an
\* approval_required event and the guard is released.
PauseForReview(r) ==
    /\ AtNode(r, "human_review") /\ ~run[r].resume
    /\ offered' = offered \cup {ProposalOf(ConvOf(r), run[r].values)}
    /\ Flush(r)
    /\ Finish(r)
    /\ UNCHANGED <<dbVars, issued, chats, minted, approved, executed, attempts>>

\* human_review with the resume value of the request.
Decide(r) ==
    /\ AtNode(r, "human_review") /\ run[r].resume
    /\ LET s == Reviewed(run[r].values, job[r].approve) IN
       Superstep(r, s, AfterReview(s))
    /\ approved' = IF job[r].approve THEN approved \cup {job[r].token}
                                     ELSE approved
    /\ UNCHANGED <<dbVars, lockVars, pc, job, issued, chats, minted, offered,
                   executed, attempts>>

\* execute_sql sends the SQL ...
StartExecution(r) ==
    /\ AtNode(r, "execute_sql")
    /\ pc' = [pc EXCEPT ![r] = "executing"]
    /\ executed' = executed \cup {ProposalOf(ConvOf(r), run[r].values)}
    /\ UNCHANGED <<dbVars, ckpt, lockVars, job, run, issued, chats, minted,
                   offered, approved, attempts>>

\* ... and gets rows, an error, or its six-second timeout.
FinishExecution(r) ==
    /\ pc[r] = "executing"
    /\ pc' = [pc EXCEPT ![r] = "running"]
    /\ \E ok \in BOOLEAN :
         LET s == Executed(run[r].values, ok) IN
         Superstep(r, s, AfterExecute(s))
    /\ UNCHANGED <<dbVars, lockVars, job, issued, chats, historyVars>>

DecideNextStep(r) ==
    /\ AtNode(r, "decide_next_step")
    /\ Superstep(r, run[r].values, AfterDecide(run[r].values))
    /\ UNCHANGED <<dbVars, lockVars, pc, job, issued, chats, historyVars>>

IncrementRetry(r) ==
    /\ AtNode(r, "increment_retry")
    /\ Superstep(r, Retried(run[r].values), "generate_sql")
    /\ UNCHANGED <<dbVars, lockVars, pc, job, issued, chats, historyVars>>

\* The last node: the stream ends and the saver is waited for.
SynthesizeAnswer(r) ==
    /\ AtNode(r, "synthesize_answer")
    /\ run' = [run EXCEPT ![r].at = "end"]
    /\ ckpt' = [ckpt EXCEPT ![ConvOf(r)] = [values |-> run[r].values,
                                            next |-> "end"]]
    /\ pc' = [pc EXCEPT ![r] = "answering"]
    /\ UNCHANGED <<dbVars, lockVars, job, issued, chats, historyVars>>

\* A node raises: the client gets an error event and no answer is stored.
NodeRaises(r) ==
    /\ pc[r] = "running" /\ MayRaise(run[r].at, run[r].values)
    /\ Flush(r)
    /\ Finish(r)
    /\ UNCHANGED <<dbVars, issued, chats, historyVars>>

AnswerOf(s) ==
    [role |-> "assistant", ok |-> Succeeded(s), sql |-> s.sql,
     source |-> s.source, run |-> IF Succeeded(s) THEN s.token ELSE 0]

\* _emit_answer_and_done: the answer, and the snapshot of the saved analysis it
\* re-ran, are committed together; a deleted conversation fails the insert.
PersistAnswer(r) ==
    LET c == ConvOf(r)
        s == run[r].values IN
    /\ pc[r] = "answering"
    /\ IF conv[c].phase = "open"
       THEN /\ messages' = [messages EXCEPT ![c] = Append(@, AnswerOf(s))]
            /\ analyses' = [a \in Analyses |->
                    IF Succeeded(s) /\ s.aid = a /\ analyses[a] # Unsaved
                    THEN [analyses[a] EXCEPT !.run = s.token]
                    ELSE analyses[a]]
       ELSE UNCHANGED <<messages, analyses>>
    /\ Finish(r)
    /\ UNCHANGED <<conv, live, ckpt, issued, chats, historyVars>>

\* The worker dies, or the client goes away and the generator is cancelled:
\* the locks end with their connection, and only what was durable is left.
Abort(r) ==
    /\ pc[r] \in BusyPcs
    /\ Finish(r)
    /\ UNCHANGED <<dbVars, ckpt, issued, chats, historyVars>>

-----------------------------------------------------------------------------
(* The specification *)

\* What a request does of its own accord once it has been accepted.
Advance(r) ==
    \/ TakeUserLock(r) \/ TakeConvLock(r)
    \/ StartQuestion(r)
    \/ CheckReview(r) \/ CheckSource(r) \/ ResumeReview(r)
    \/ TableSelector(r) \/ GenerateSql(r) \/ ValidateSql(r)
    \/ PauseForReview(r) \/ Decide(r)
    \/ StartExecution(r) \/ FinishExecution(r)
    \/ DecideNextStep(r) \/ IncrementRetry(r)
    \/ SynthesizeAnswer(r) \/ PersistAnswer(r)

Arrive(r) ==
    \/ \E c \in Convs, hasKey \in BOOLEAN :
         \/ \E source \in AnySource : AskInNewConversation(r, c, source, hasKey)
         \/ AskInConversation(r, c, hasKey)
         \/ \E a \in Analyses : RunAnalysis(r, c, a, hasKey)
    \/ \E p \in offered, approve \in BOOLEAN :
         SubmitReview(r, p.conv, p.token, approve)

Housekeeping ==
    \/ \E c \in Convs : CreateConversation(c) \/ DeleteConversation(c)
    \/ \E s \in Sources : DeleteSource(s)
    \/ \E c \in Convs, a \in Analyses :
         \E i \in DOMAIN messages[c] : SaveAnalysis(c, i, a)

Fail(r) == OverBudget(r) \/ NodeRaises(r) \/ Abort(r) \/ LoseLocks(r)

Next ==
    \/ Housekeeping
    \/ \E r \in Reqs : Arrive(r) \/ Advance(r) \/ Fail(r)

Spec == Init /\ [][Next]_vars

\* The event loop keeps scheduling an accepted request, and every await of a
\* run ends, in a result or an exception: database calls and SQL have timeouts,
\* the model client has one.
FairSpec == Spec /\ \A r \in Reqs : WF_vars(Advance(r) \/ NodeRaises(r))
=============================================================================
