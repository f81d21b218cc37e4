--------------------------- MODULE WorkflowProofs ---------------------------
(***************************************************************************)
(* Type correctness of QueryWorkflow, that nothing runs unapproved, that   *)
(* the guard excludes, and what a thread carries, for every number of      *)
(* users, conversations, requests, queries and retries.                    *)
(***************************************************************************)
EXTENDS WorkflowProperties, TLAPS

-----------------------------------------------------------------------------
(* What the nodes return is an AgentState *)

LEMMA EmptyStateType == EmptyState \in AgentState
BY DEF EmptyState, AgentState, NoToken, SqlText

LEMMA InitialStateType ==
    ASSUME NEW old \in AgentState, NEW source \in AnySource,
           NEW aid \in Analyses \cup {NoAnalysis}, NEW saved \in SqlText
    PROVE  InitialState(old, source, aid, saved) \in AgentState
BY EmptyStateType DEF InitialState, AgentState, AnySource

LEMMA GeneratedType ==
    ASSUME NEW s \in AgentState, NEW answer \in Queries \cup {CannotAnswer},
           NEW token \in Nat
    PROVE  Generated(s, answer, token) \in AgentState
BY ZenonT(30) DEF Generated, AgentState, HasSavedSql, SqlText

LEMMA ValidatedType ==
    ASSUME NEW s \in AgentState, NEW ok \in BOOLEAN
    PROVE  Validated(s, ok) \in AgentState
BY DEF Validated, AgentState

LEMMA ReviewedType ==
    ASSUME NEW s \in AgentState, NEW ok \in BOOLEAN
    PROVE  Reviewed(s, ok) \in AgentState
BY DEF Reviewed, AgentState

LEMMA ExecutedType ==
    ASSUME NEW s \in AgentState, NEW ok \in BOOLEAN
    PROVE  Executed(s, ok) \in AgentState
BY DEF Executed, AgentState

LEMMA RetriedType ==
    ASSUME NEW s \in AgentState
    PROVE  Retried(s) \in AgentState
<1> DEFINE n == s.retry + 1
<1>1. n \in Nat
  BY DEF AgentState
<1> HIDE DEF n
<1>2. [s EXCEPT !.retry = n, !.hitl = "none"] \in AgentState
  BY <1>1 DEF AgentState
<1> QED
  BY <1>2 DEF n, Retried

LEMMA RouteTypes ==
    ASSUME NEW s \in AgentState
    PROVE  /\ AfterValidate(s) \in {"human_review", "increment_retry", "synthesize_answer"}
           /\ AfterReview(s) \in {"execute_sql", "increment_retry", "synthesize_answer"}
           /\ AfterExecute(s) \in {"decide_next_step", "increment_retry", "synthesize_answer"}
           /\ AfterDecide(s) = "synthesize_answer"
BY DEF AfterValidate, AfterReview, AfterExecute, AfterDecide, RetryOrAnswer, AgentState

LEMMA ProposalType ==
    ASSUME NEW c \in Convs, NEW s \in AgentState
    PROVE  ProposalOf(c, s) \in Proposal
BY DEF ProposalOf, Proposal, AgentState, AnySource

LEMMA NoJobType == NoJob \in Job
BY WorkflowAssumption DEF NoJob, Job, AnySource, NoToken, SqlText

LEMMA NoRunType == NoRun \in Run
BY EmptyStateType DEF NoRun, Run, Nodes

-----------------------------------------------------------------------------
(* Type correctness *)

LEMMA FinishType ==
    ASSUME TypeOK, NEW r \in Reqs, Finish(r)
    PROVE  /\ userLock' \in [Users -> Reqs \cup {Free}]
           /\ convLock' \in [Convs -> Reqs \cup {Free}]
           /\ pc' \in [Reqs -> BusyPcs \cup {"idle"}]
           /\ job' \in [Reqs -> Job]
           /\ run' \in [Reqs -> Run]
<1>1. /\ userLock' \in [Users -> Reqs \cup {Free}]
      /\ convLock' \in [Convs -> Reqs \cup {Free}]
  BY DEF TypeOK, Finish, Release
<1>2. pc' \in [Reqs -> BusyPcs \cup {"idle"}]
  BY DEF TypeOK, Finish
<1>3. job' \in [Reqs -> Job]
  BY NoJobType DEF TypeOK, Finish
<1>4. run' \in [Reqs -> Run]
  BY NoRunType DEF TypeOK, Finish
<1> QED
  BY <1>1, <1>2, <1>3, <1>4

LEMMA SuperstepType ==
    ASSUME TypeOK, NEW r \in Reqs, NEW s \in AgentState, NEW next \in Nodes,
           Superstep(r, s, next)
    PROVE  run' \in [Reqs -> Run] /\ ckpt' \in [Convs -> Checkpoint]
<1>1. [values |-> s, at |-> next, resume |-> FALSE] \in Run
  BY DEF Run
<1>2. [values |-> s, next |-> next] \in Checkpoint
  BY DEF Checkpoint
<1>3. run' \in [Reqs -> Run]
  BY <1>1 DEF TypeOK, Superstep
<1>4. ckpt' \in [Convs -> Checkpoint]
  BY <1>2 DEF TypeOK, Superstep
<1> QED
  BY <1>3, <1>4

LEMMA RunType ==
    ASSUME TypeOK, NEW r \in Reqs
    PROVE  /\ run[r].values \in AgentState /\ run[r].at \in Nodes
           /\ run[r].resume \in BOOLEAN
           /\ ConvOf(r) \in Convs
           /\ job[r].approve \in BOOLEAN /\ job[r].token \in Nat
           /\ job[r].source \in AnySource
           /\ job[r].aid \in Analyses \cup {NoAnalysis}
           /\ job[r].saved \in SqlText
           /\ UserOf(r) \in Users
<1>1. run[r] \in Run /\ job[r] \in Job
  BY DEF TypeOK
<1> QED
  BY <1>1, WorkflowAssumption DEF Run, Job, ConvOf, UserOf

LEMMA FlushType ==
    ASSUME TypeOK, NEW r \in Reqs, Flush(r)
    PROVE  ckpt' \in [Convs -> Checkpoint]
<1>1. CheckpointOf(r) \in Checkpoint
  BY RunType DEF CheckpointOf, Checkpoint
<1> QED
  BY <1>1 DEF TypeOK, Flush

LEMMA TypeInit == Init => TypeOK
<1> SUFFICES ASSUME Init PROVE TypeOK
  OBVIOUS
<1>1. conv \in [Convs -> ConvRow]
  BY DEF Init, ConvRow, AnySource
<1>2. messages \in [Convs -> Seq(Message)]
  BY DEF Init
<1>3. ckpt \in [Convs -> Checkpoint]
  BY EmptyStateType DEF Init, Checkpoint, Nodes
<1>4. job \in [Reqs -> Job] /\ run \in [Reqs -> Run]
  BY NoJobType, NoRunType DEF Init
<1> QED
  BY <1>1, <1>2, <1>3, <1>4 DEF Init, TypeOK, BusyPcs, GuardedPcs

LEMMA TypeHousekeeping ==
    ASSUME TypeOK, Housekeeping
    PROVE  TypeOK'
<1>1. CASE \E c \in Convs : CreateConversation(c)
  <2> PICK c \in Convs : CreateConversation(c)
    BY <1>1
  <2>1. conv' \in [Convs -> ConvRow]
    BY DEF TypeOK, CreateConversation, ConvRow
  <2> QED
    BY <2>1 DEF TypeOK, CreateConversation, lockVars, historyVars
<1>2. CASE \E c \in Convs : DeleteConversation(c)
  <2> PICK c \in Convs : DeleteConversation(c)
    BY <1>2
  <2>1. conv' \in [Convs -> ConvRow]
    BY DEF TypeOK, DeleteConversation, ConvRow
  <2>2. messages' \in [Convs -> Seq(Message)]
    BY DEF TypeOK, DeleteConversation
  <2> QED
    BY <2>1, <2>2 DEF TypeOK, DeleteConversation, lockVars, historyVars
<1>3. CASE \E s \in Sources : DeleteSource(s)
  <2> PICK s \in Sources : DeleteSource(s)
    BY <1>3
  <2>1. \A c \in Convs : [conv[c] EXCEPT !.source = Chinook,
                                          !.sourceDeleted = TRUE] \in ConvRow
    BY ZenonT(30) DEF TypeOK, ConvRow, AnySource
  <2>2. conv' \in [Convs -> ConvRow]
    BY <2>1 DEF TypeOK, DeleteSource
  <2>3. \A a \in Analyses : analyses[a] # Unsaved =>
            [analyses[a] EXCEPT !.source = Gone] \in Analysis
    BY DEF TypeOK, Analysis
  <2>4. analyses' \in [Analyses -> Analysis \cup {Unsaved}]
    BY <2>3 DEF TypeOK, DeleteSource
  <2> QED
    BY <2>2, <2>4 DEF TypeOK, DeleteSource, lockVars, historyVars
<1>4. CASE \E c \in Convs, a \in Analyses :
             \E i \in DOMAIN messages[c] : SaveAnalysis(c, i, a)
  <2> PICK c \in Convs, a \in Analyses :
             \E i \in DOMAIN messages[c] : SaveAnalysis(c, i, a)
    BY <1>4
  <2> PICK i \in DOMAIN messages[c] : SaveAnalysis(c, i, a)
    OBVIOUS
  <2> DEFINE m == messages[c][i]
  <2>1. messages[c] \in Seq(Message)
    BY DEF TypeOK
  <2>2. m \in Message
    BY <2>1
  <2>3. [user |-> Owner[c], sql |-> m.sql, source |-> m.source,
         run |-> m.run] \in Analysis
    BY <2>2, WorkflowAssumption DEF Message, Analysis
  <2>4. analyses' \in [Analyses -> Analysis \cup {Unsaved}]
    BY <2>3 DEF TypeOK, SaveAnalysis
  <2> QED
    BY <2>4 DEF TypeOK, SaveAnalysis, lockVars, historyVars
<1> QED
  BY <1>1, <1>2, <1>3, <1>4 DEF Housekeeping

LEMMA TypeAcceptQuestion ==
    ASSUME TypeOK, NEW r \in Reqs, NEW c \in Convs, NEW source \in AnySource,
           NEW aid \in Analyses \cup {NoAnalysis}, NEW saved \in SqlText,
           NEW hasKey \in BOOLEAN,
           AcceptQuestion(r, c, source, aid, saved, hasKey)
    PROVE  TypeOK'
<1>1. conv' \in [Convs -> ConvRow]
  <2>1. [conv[c] EXCEPT !.phase = "open",
                        !.source = IF source = Chinook THEN @ ELSE source]
            \in ConvRow
    BY ZenonT(30) DEF TypeOK, ConvRow
  <2> QED
    BY <2>1 DEF TypeOK, AcceptQuestion
<1>2. UserMessage \in Message
  BY DEF UserMessage, Message, SqlText, AnySource
<1>3. messages' \in [Convs -> Seq(Message)]
  <2>1. messages[c] \in Seq(Message)
    BY DEF TypeOK
  <2>2. Append(messages[c], UserMessage) \in Seq(Message)
    BY <1>2, <2>1
  <2>3. CASE hasKey
    BY <2>2, <2>3 DEF TypeOK, AcceptQuestion
  <2>4. CASE ~hasKey
    BY <2>4 DEF TypeOK, AcceptQuestion
  <2> QED
    BY <2>3, <2>4
<1>4. [NoJob EXCEPT !.kind = "chat", !.conv = c, !.source = source, !.aid = aid,
                    !.saved = saved] \in Job
  BY NoJobType DEF Job
<1>5. /\ job' \in [Reqs -> Job]
      /\ pc' \in [Reqs -> BusyPcs \cup {"idle"}]
      /\ chats' \in Nat
  <2>1. CASE hasKey
    <3>1. job' \in [Reqs -> Job]
      BY <1>4, <2>1 DEF TypeOK, AcceptQuestion
    <3>2. pc' \in [Reqs -> BusyPcs \cup {"idle"}]
      BY <2>1 DEF TypeOK, AcceptQuestion, BusyPcs
    <3>3. chats' \in Nat
      BY <2>1 DEF TypeOK, AcceptQuestion
    <3> QED
      BY <3>1, <3>2, <3>3
  <2>2. CASE ~hasKey
    BY <2>2 DEF TypeOK, AcceptQuestion
  <2> QED
    BY <2>1, <2>2
<1> QED
  BY <1>1, <1>3, <1>5 DEF TypeOK, AcceptQuestion, lockVars, historyVars

LEMMA TypeArrive ==
    ASSUME TypeOK, NEW r \in Reqs, Arrive(r)
    PROVE  TypeOK'
<1>1. CASE \E c \in Convs, hasKey \in BOOLEAN, source \in AnySource :
             AskInNewConversation(r, c, source, hasKey)
  BY <1>1, TypeAcceptQuestion DEF AskInNewConversation, SqlText
<1>2. CASE \E c \in Convs, hasKey \in BOOLEAN : AskInConversation(r, c, hasKey)
  <2> PICK c \in Convs, hasKey \in BOOLEAN : AskInConversation(r, c, hasKey)
    BY <1>2
  <2>1. conv[c].source \in AnySource
    BY DEF TypeOK, ConvRow
  <2> QED
    BY <2>1, TypeAcceptQuestion DEF AskInConversation, SqlText
<1>3. CASE \E c \in Convs, hasKey \in BOOLEAN, a \in Analyses :
             RunAnalysis(r, c, a, hasKey)
  <2> PICK c \in Convs, hasKey \in BOOLEAN, a \in Analyses :
             RunAnalysis(r, c, a, hasKey)
    BY <1>3
  <2>1. analyses[a] \in Analysis
    BY DEF RunAnalysis, TypeOK
  <2>2. analyses[a].sql \in SqlText
    BY <2>1 DEF Analysis
  <2>3. analyses[a].source \in AnySource
    BY DEF RunAnalysis, AcceptQuestion, TypeOK, AnySource
  <2> QED
    BY <2>2, <2>3, TypeAcceptQuestion DEF RunAnalysis
<1>4. CASE \E p \in offered, approve \in BOOLEAN :
             SubmitReview(r, p.conv, p.token, approve)
  <2> PICK p \in offered, approve \in BOOLEAN :
             SubmitReview(r, p.conv, p.token, approve)
    BY <1>4
  <2>1. p.conv \in Convs /\ p.token \in Nat
    BY DEF TypeOK, Proposal
  <2>2. [NoJob EXCEPT !.kind = "review", !.conv = p.conv, !.token = p.token,
                      !.approve = approve] \in Job
    BY <2>1, NoJobType DEF Job
  <2>3. job' \in [Reqs -> Job] /\ pc' \in [Reqs -> BusyPcs \cup {"idle"}]
    BY <2>2 DEF TypeOK, SubmitReview, BusyPcs
  <2> QED
    BY <2>3 DEF TypeOK, SubmitReview, dbVars, lockVars, historyVars
<1> QED
  BY <1>1, <1>2, <1>3, <1>4 DEF Arrive

LEMMA TypeGuard ==
    ASSUME TypeOK, NEW r \in Reqs, TakeUserLock(r) \/ TakeConvLock(r) \/ LoseLocks(r)
    PROVE  TypeOK'
<1>1. CASE TakeUserLock(r)
  <2>1. CASE userLock[UserOf(r)] = Free
    BY <1>1, <2>1, RunType
       DEF TypeOK, TakeUserLock, BusyPcs, GuardedPcs, dbVars, historyVars
  <2>2. CASE userLock[UserOf(r)] # Free
    BY <1>1, <2>2, FinishType DEF TypeOK, TakeUserLock, dbVars, historyVars
  <2> QED
    BY <2>1, <2>2
<1>2. CASE TakeConvLock(r)
  <2>1. CASE convLock[ConvOf(r)] = Free
    BY <1>2, <2>1, RunType
       DEF TypeOK, TakeConvLock, BusyPcs, GuardedPcs, dbVars, historyVars
  <2>2. CASE convLock[ConvOf(r)] # Free
    BY <1>2, <2>2, FinishType DEF TypeOK, TakeConvLock, dbVars, historyVars
  <2> QED
    BY <2>1, <2>2
<1>3. CASE LoseLocks(r)
  <2>1. /\ userLock' \in [Users -> Reqs \cup {Free}]
        /\ convLock' \in [Convs -> Reqs \cup {Free}]
    BY <1>3 DEF TypeOK, LoseLocks, Release
  <2> QED
    BY <1>3, <2>1 DEF TypeOK, LoseLocks, dbVars, historyVars
<1> QED
  BY <1>1, <1>2, <1>3

LEMMA TypeFail ==
    ASSUME TypeOK, NEW r \in Reqs, Fail(r)
    PROVE  TypeOK'
<1>1. CASE OverBudget(r)
  BY <1>1, FinishType DEF TypeOK, OverBudget, dbVars, historyVars
<1>2. CASE NodeRaises(r)
  BY <1>2, FinishType, FlushType DEF TypeOK, NodeRaises, dbVars, historyVars
<1>3. CASE Abort(r)
  BY <1>3, FinishType DEF TypeOK, Abort, dbVars, historyVars
<1> QED
  BY <1>1, <1>2, <1>3, TypeGuard DEF Fail

LEMMA TypeStart ==
    ASSUME TypeOK, NEW r \in Reqs,
           \/ StartQuestion(r) \/ CheckReview(r) \/ CheckSource(r) \/ ResumeReview(r)
    PROVE  TypeOK'
<1>1. CASE StartQuestion(r)
  <2>1. ckpt[ConvOf(r)].values \in AgentState
    BY RunType DEF TypeOK, Checkpoint
  <2>2. InitialState(ckpt[ConvOf(r)].values, job[r].source, job[r].aid,
                     job[r].saved) \in AgentState
    BY <2>1, RunType, InitialStateType
  <2>3. run' \in [Reqs -> Run] /\ ckpt' \in [Convs -> Checkpoint]
    BY <1>1, <2>2, SuperstepType DEF StartQuestion, Nodes
  <2>4. /\ pc' \in [Reqs -> BusyPcs \cup {"idle"}]
        /\ attempts' \in [Convs -> Nat]
    BY <1>1 DEF TypeOK, StartQuestion, BusyPcs, GuardedPcs
  <2> QED
    BY <1>1, <2>3, <2>4 DEF TypeOK, StartQuestion, dbVars, lockVars
<1>0. ckpt[ConvOf(r)] \in Checkpoint
  BY RunType DEF TypeOK
<1>2. CASE Finish(r) /\ (CheckReview(r) \/ CheckSource(r))
  BY <1>2, FinishType DEF TypeOK, CheckReview, CheckSource, dbVars, historyVars
<1>3. CASE CheckReview(r) /\ Keep(r, ckpt[ConvOf(r)])
  <2>1. [values |-> ckpt[ConvOf(r)].values, at |-> ckpt[ConvOf(r)].next,
         resume |-> FALSE] \in Run
    BY <1>0 DEF Checkpoint, Run
  <2>2. /\ run' \in [Reqs -> Run]
        /\ pc' \in [Reqs -> BusyPcs \cup {"idle"}]
    BY <1>3, <2>1 DEF TypeOK, Keep, BusyPcs, GuardedPcs, CheckedPcs
  <2> QED
    BY <1>3, <2>2 DEF TypeOK, CheckReview, Keep, dbVars, lockVars, historyVars
<1>4. CASE CheckSource(r) /\ ~Finish(r)
  <2>1. pc' = [pc EXCEPT ![r] = "resuming"] /\ UNCHANGED <<lockVars, job, run>>
    BY <1>4 DEF CheckSource
  <2> QED
    BY <1>4, <2>1 DEF TypeOK, CheckSource, BusyPcs, GuardedPcs, CheckedPcs,
                      dbVars, lockVars, historyVars
<1>5. CASE ResumeReview(r)
  <2>1. [values |-> ckpt[ConvOf(r)].values, at |-> ckpt[ConvOf(r)].next,
         resume |-> TRUE] \in Run
    BY <1>0 DEF Checkpoint, Run
  <2>2. /\ run' \in [Reqs -> Run]
        /\ pc' \in [Reqs -> BusyPcs \cup {"idle"}]
    BY <1>5, <2>1, NoRunType DEF TypeOK, ResumeReview, BusyPcs, GuardedPcs
  <2> QED
    BY <1>5, <2>2 DEF TypeOK, ResumeReview, dbVars, lockVars, historyVars
<1> QED
  BY <1>1, <1>2, <1>3, <1>4, <1>5 DEF CheckReview

LEMMA TypeBeforeReview ==
    ASSUME TypeOK, NEW r \in Reqs,
           \/ TableSelector(r) \/ GenerateSql(r) \/ ValidateSql(r)
           \/ PauseForReview(r) \/ Decide(r)
    PROVE  TypeOK'
<1>0. run[r].values \in AgentState /\ ConvOf(r) \in Convs
  BY RunType
<1>1. CASE TableSelector(r)
  BY <1>0, <1>1, SuperstepType
     DEF TypeOK, TableSelector, Nodes, dbVars, lockVars, historyVars
<1>2. CASE GenerateSql(r)
  <2>1. issued' \in Nat
    BY <1>2 DEF TypeOK, GenerateSql
  <2> PICK answer \in Queries \cup {CannotAnswer} :
        LET s == Generated(run[r].values, answer, issued + 1) IN
        /\ Superstep(r, s, "validate_sql")
        /\ minted' = minted \cup {ProposalOf(ConvOf(r), s)}
    BY <1>2 DEF GenerateSql
  <2> DEFINE s == Generated(run[r].values, answer, issued + 1)
  <2>2. s \in AgentState
    BY <1>0, GeneratedType DEF TypeOK
  <2>3. run' \in [Reqs -> Run] /\ ckpt' \in [Convs -> Checkpoint]
    BY <2>2, SuperstepType DEF Nodes
  <2>4. minted' \subseteq Proposal
    BY <1>0, <2>2, ProposalType DEF TypeOK
  <2>5. attempts' \in [Convs -> Nat]
    <3>1. attempts[ConvOf(r)] + 1 \in Nat
      BY <1>0 DEF TypeOK
    <3> QED
      BY <1>2, <3>1 DEF TypeOK, GenerateSql
  <2> QED
    BY <1>2, <2>1, <2>3, <2>4, <2>5 DEF TypeOK, GenerateSql, dbVars, lockVars
<1>3. CASE ValidateSql(r)
  <2> PICK ok \in BOOLEAN :
        LET s == Validated(run[r].values, ok) IN Superstep(r, s, AfterValidate(s))
    BY <1>3 DEF ValidateSql
  <2> DEFINE s == Validated(run[r].values, ok)
  <2>1. s \in AgentState
    BY <1>0, ValidatedType
  <2>2. AfterValidate(s) \in Nodes
    BY <2>1, RouteTypes DEF Nodes
  <2>3. run' \in [Reqs -> Run] /\ ckpt' \in [Convs -> Checkpoint]
    BY <2>1, <2>2, SuperstepType
  <2> QED
    BY <1>3, <2>3 DEF TypeOK, ValidateSql, dbVars, lockVars, historyVars
<1>4. CASE PauseForReview(r)
  <2>1. offered' \subseteq Proposal
    BY <1>0, <1>4, ProposalType DEF TypeOK, PauseForReview
  <2> QED
    BY <1>4, <2>1, FinishType, FlushType DEF TypeOK, PauseForReview, dbVars
<1>5. CASE Decide(r)
  <2> DEFINE s == Reviewed(run[r].values, job[r].approve)
  <2>1. s \in AgentState
    BY <1>0, RunType, ReviewedType
  <2>2. AfterReview(s) \in Nodes
    BY <2>1, RouteTypes DEF Nodes
  <2>3. run' \in [Reqs -> Run] /\ ckpt' \in [Convs -> Checkpoint]
    BY <1>5, <2>1, <2>2, SuperstepType DEF Decide
  <2>4. approved' \subseteq Nat
    BY <1>5, RunType DEF TypeOK, Decide
  <2> QED
    BY <1>5, <2>3, <2>4 DEF TypeOK, Decide, dbVars, lockVars
<1> QED
  BY <1>1, <1>2, <1>3, <1>4, <1>5

LEMMA TypeAfterReview ==
    ASSUME TypeOK, NEW r \in Reqs,
           \/ StartExecution(r) \/ FinishExecution(r)
           \/ DecideNextStep(r) \/ IncrementRetry(r)
           \/ SynthesizeAnswer(r) \/ PersistAnswer(r)
    PROVE  TypeOK'
<1>0. run[r].values \in AgentState /\ ConvOf(r) \in Convs
  BY RunType
<1>1. CASE StartExecution(r)
  BY <1>0, <1>1, ProposalType
     DEF TypeOK, StartExecution, BusyPcs, GuardedPcs, dbVars, lockVars
<1>2. CASE FinishExecution(r)
  <2> PICK ok \in BOOLEAN :
        LET s == Executed(run[r].values, ok) IN Superstep(r, s, AfterExecute(s))
    BY <1>2 DEF FinishExecution
  <2> DEFINE s == Executed(run[r].values, ok)
  <2>1. s \in AgentState
    BY <1>0, ExecutedType
  <2>2. AfterExecute(s) \in Nodes
    BY <2>1, RouteTypes DEF Nodes
  <2>3. run' \in [Reqs -> Run] /\ ckpt' \in [Convs -> Checkpoint]
    BY <2>1, <2>2, SuperstepType
  <2> QED
    BY <1>2, <2>3
       DEF TypeOK, FinishExecution, BusyPcs, GuardedPcs, dbVars, lockVars, historyVars
<1>3. CASE DecideNextStep(r)
  BY <1>0, <1>3, SuperstepType
     DEF TypeOK, DecideNextStep, AfterDecide, Nodes, dbVars, lockVars, historyVars
<1>4. CASE IncrementRetry(r)
  BY <1>0, <1>4, RetriedType, SuperstepType
     DEF TypeOK, IncrementRetry, Nodes, dbVars, lockVars, historyVars
<1>5. CASE SynthesizeAnswer(r)
  <2>1. [run[r] EXCEPT !.at = "end"] \in Run
    BY DEF TypeOK, Run, Nodes
  <2>2. [values |-> run[r].values, next |-> "end"] \in Checkpoint
    BY <1>0 DEF Checkpoint, Nodes
  <2>3. run' \in [Reqs -> Run] /\ ckpt' \in [Convs -> Checkpoint]
    BY <1>5, <2>1, <2>2 DEF TypeOK, SynthesizeAnswer
  <2> QED
    BY <1>5, <2>3
       DEF TypeOK, SynthesizeAnswer, BusyPcs, GuardedPcs, dbVars, lockVars, historyVars
<1>6. CASE PersistAnswer(r)
  <2>1. AnswerOf(run[r].values) \in Message
    BY <1>0 DEF AnswerOf, Message, AgentState, AnySource, Succeeded
  <2>2. messages[ConvOf(r)] \in Seq(Message)
    BY <1>0 DEF TypeOK
  <2>3. Append(messages[ConvOf(r)], AnswerOf(run[r].values)) \in Seq(Message)
    BY <2>1, <2>2
  <2>4. messages' \in [Convs -> Seq(Message)]
    BY <1>6, <2>3 DEF TypeOK, PersistAnswer
  <2>5. \A a \in Analyses : analyses[a] # Unsaved =>
            [analyses[a] EXCEPT !.run = run[r].values.token] \in Analysis
    <3>1. run[r].values.token \in Nat
      BY <1>0 DEF AgentState
    <3> QED
      BY <3>1 DEF TypeOK, Analysis
  <2>6. analyses' \in [Analyses -> Analysis \cup {Unsaved}]
    BY ZenonT(30), <1>6, <2>5 DEF TypeOK, PersistAnswer
  <2> QED
    BY <1>6, <2>4, <2>6, FinishType DEF TypeOK, PersistAnswer, historyVars
<1> QED
  BY <1>1, <1>2, <1>3, <1>4, <1>5, <1>6

LEMMA TypeNext == TypeOK /\ [Next]_vars => TypeOK'
<1> SUFFICES ASSUME TypeOK, [Next]_vars PROVE TypeOK'
  OBVIOUS
<1>1. CASE UNCHANGED vars
  BY <1>1 DEF TypeOK, vars, dbVars, lockVars, historyVars
<1>2. CASE Next
  BY <1>2, TypeHousekeeping, TypeArrive, TypeGuard, TypeStart,
     TypeBeforeReview, TypeAfterReview, TypeFail DEF Next, Advance
<1> QED
  BY <1>1, <1>2

\* Every variable keeps its type in every behaviour.
THEOREM TypeCorrect == Spec => []TypeOK
BY TypeInit, TypeNext, PTL DEF Spec

-----------------------------------------------------------------------------
(* Threads hold minted proposals, and reviews name shown ones, whatever      *)
(* becomes of the locks.                                                     *)

LEMMA ProposalFields ==
    ASSUME NEW c, NEW s
    PROVE  /\ ProposalOf(c, s).token = s.token
           /\ ProposalOf(c, s).conv = c
BY DEF ProposalOf

\* Validation, review and execution leave the proposal of a state alone.
LEMMA NodesKeepProposal ==
    ASSUME NEW c, NEW s \in AgentState, NEW ok \in BOOLEAN
    PROVE  /\ ProposalOf(c, Validated(s, ok)) = ProposalOf(c, s)
           /\ ProposalOf(c, Reviewed(s, ok)) = ProposalOf(c, s)
           /\ Reviewed(s, ok).token = s.token
           /\ AfterReview(Reviewed(s, ok)) = "execute_sql" => ok
BY DEF ProposalOf, Validated, Reviewed, AgentState, AfterReview, RetryOrAnswer

LEMMA ReviewInit == Init => ReviewInv
<1> SUFFICES ASSUME Init PROVE ReviewInv
  OBVIOUS
<1> QED
  BY TypeInit DEF Init, ReviewInv, TokensAreUnique, ThreadsHoldMinted,
     ReviewsNameOffers, Proposing, ActivePcs, BusyPcs, GuardedPcs

\* A step that touches neither checkpoints nor histories, and only ends
\* requests or moves them among the states before the graph runs.
LEMMA QuietStep ==
    ASSUME ReviewInv, TypeOK', UNCHANGED <<ckpt, issued, minted, offered, executed>>,
           \A r \in Reqs :
              \/ pc'[r] = "idle"
              \/ pc'[r] = pc[r] /\ job'[r] = job[r] /\ run'[r] = run[r]
              \/ /\ pc'[r] \notin ActivePcs /\ pc[r] \in BusyPcs
                 /\ job'[r] = job[r]
              \/ /\ pc'[r] = "queued"
                 /\ job'[r].kind = "review" =>
                        job'[r].token \in {p.token : p \in offered}
    PROVE  ReviewInv'
<1>1. TokensAreUnique' /\ (offered \cup executed \subseteq minted)'
  BY DEF ReviewInv, TokensAreUnique
<1>2. ThreadsHoldMinted'
  BY DEF ReviewInv, ThreadsHoldMinted, ActivePcs, ConvOf
<1>3. ReviewsNameOffers'
  BY DEF ReviewInv, ReviewsNameOffers, ActivePcs, BusyPcs, GuardedPcs
<1> QED
  BY <1>1, <1>2, <1>3 DEF ReviewInv

LEMMA FinishIsQuiet ==
    ASSUME TypeOK, NEW r \in Reqs, Finish(r)
    PROVE  \A q \in Reqs :
              \/ pc'[q] = "idle"
              \/ pc'[q] = pc[q] /\ job'[q] = job[q] /\ run'[q] = run[q]
BY DEF TypeOK, Finish

LEMMA ReviewHousekeeping ==
    ASSUME ReviewInv, TypeOK', Housekeeping
    PROVE  ReviewInv'
<1>1. UNCHANGED <<ckpt, issued, minted, offered, approved, executed, pc, job, run>>
  BY DEF Housekeeping, CreateConversation, DeleteConversation, DeleteSource,
         SaveAnalysis, historyVars
<1> QED
  BY <1>1, QuietStep

LEMMA ReviewArrive ==
    ASSUME ReviewInv, TypeOK', NEW r \in Reqs, Arrive(r)
    PROVE  ReviewInv'
<1>0. TypeOK
  BY DEF ReviewInv
<1>1. ASSUME NEW c \in Convs, NEW source, NEW aid, NEW saved,
             NEW hasKey \in BOOLEAN,
             AcceptQuestion(r, c, source, aid, saved, hasKey)
      PROVE  ReviewInv'
  <2>1. UNCHANGED <<ckpt, issued, minted, offered, approved, executed, run>>
    BY <1>1 DEF AcceptQuestion, historyVars
  <2>2. CASE hasKey
    <3>a. pc' = [pc EXCEPT ![r] = "queued"]
      BY <1>1, <2>2 DEF AcceptQuestion
    <3>b. job'[r] = [NoJob EXCEPT !.kind = "chat", !.conv = c,
                                  !.source = source, !.aid = aid,
                                  !.saved = saved]
      BY <1>0, <1>1, <2>2 DEF AcceptQuestion, TypeOK
    <3>c. job'[r].kind = "chat"
      BY <3>b DEF NoJob
    <3>1. pc' = [pc EXCEPT ![r] = "queued"] /\ job'[r].kind = "chat"
      BY <3>a, <3>c
    <3>2. \A q \in Reqs \ {r} : pc'[q] = pc[q] /\ job'[q] = job[q]
      BY <1>0, <1>1, <2>2 DEF AcceptQuestion, TypeOK
    <3> QED
      BY <1>0, <2>1, <3>1, <3>2, QuietStep DEF TypeOK
  <2>3. CASE ~hasKey
    BY <1>1, <2>1, <2>3, QuietStep DEF AcceptQuestion
  <2> QED
    BY <2>2, <2>3
<1>2. CASE \E p \in offered, approve \in BOOLEAN :
             SubmitReview(r, p.conv, p.token, approve)
  <2> PICK p \in offered, approve \in BOOLEAN :
             SubmitReview(r, p.conv, p.token, approve)
    BY <1>2
  <2>1. UNCHANGED <<ckpt, issued, minted, offered, approved, executed, run>>
    BY DEF SubmitReview, historyVars
  <2>2. pc' = [pc EXCEPT ![r] = "queued"] /\ job'[r].token = p.token
    BY <1>0 DEF SubmitReview, TypeOK, NoJob
  <2>3. \A q \in Reqs \ {r} : pc'[q] = pc[q] /\ job'[q] = job[q]
    BY <1>0 DEF SubmitReview, TypeOK
  <2> QED
    BY <1>0, <2>1, <2>2, <2>3, QuietStep DEF TypeOK
<1> QED
  BY <1>1, <1>2 DEF Arrive, AskInNewConversation, AskInConversation, RunAnalysis

LEMMA ReviewGuard ==
    ASSUME ReviewInv, TypeOK', NEW r \in Reqs,
           \/ TakeUserLock(r) \/ TakeConvLock(r) \/ LoseLocks(r)
           \/ OverBudget(r) \/ Abort(r)
    PROVE  ReviewInv'
<1>0. TypeOK
  BY DEF ReviewInv
<1>1. UNCHANGED <<ckpt, issued, minted, offered, approved, executed>>
  BY DEF TakeUserLock, TakeConvLock, LoseLocks, OverBudget, Abort, historyVars
<1>2. CASE Finish(r)
  BY <1>0, <1>1, <1>2, FinishIsQuiet, QuietStep
<1>3. CASE LoseLocks(r)
  BY <1>1, <1>3, QuietStep DEF LoseLocks
<1>4. CASE (TakeUserLock(r) \/ TakeConvLock(r)) /\ ~Finish(r)
  <2>1. /\ pc[r] \in BusyPcs
        /\ pc' = [pc EXCEPT ![r] = "userLocked"] \/ pc' = [pc EXCEPT ![r] = "guarded"]
        /\ UNCHANGED <<job, run>>
    BY <1>4 DEF TakeUserLock, TakeConvLock, BusyPcs
  <2> QED
    BY <1>0, <1>1, <2>1, QuietStep DEF TypeOK, ActivePcs
<1> QED
  BY <1>2, <1>3, <1>4 DEF OverBudget, Abort

\* A superstep of a running request: only its own run and its own thread move,
\* to the same state, and the histories only grow.
LEMMA RunStep ==
    ASSUME ReviewInv, TypeOK', NEW r \in Reqs, NEW S, NEW n,
           Superstep(r, S, n), UNCHANGED <<job, offered, executed>>,
           pc[r] \in GuardedPcs,
           \A q \in Reqs \ {r} : pc'[q] = pc[q],
           minted \subseteq minted', TokensAreUnique',
           n \in Proposing => ProposalOf(ConvOf(r), S) \in minted'
    PROVE  ReviewInv'
<1>0. TypeOK /\ ConvOf(r) \in Convs /\ ConvOf(r)' = ConvOf(r)
  BY RunType DEF ReviewInv, ConvOf
<1>1. /\ run'[r] = [values |-> S, at |-> n, resume |-> FALSE]
      /\ \A q \in Reqs \ {r} : run'[q] = run[q]
  BY <1>0 DEF Superstep, TypeOK
<1>2. /\ \A c \in Convs \ {ConvOf(r)} : ckpt'[c] = ckpt[c]
      /\ \/ ckpt'[ConvOf(r)] = [values |-> S, next |-> n]
         \/ ckpt'[ConvOf(r)] = ckpt[ConvOf(r)]
  BY <1>0 DEF Superstep, TypeOK
<1>3. ThreadsHoldMinted'
  <2>1. ASSUME NEW c \in Convs, ckpt'[c].next \in Proposing
        PROVE  ProposalOf(c, ckpt'[c].values) \in minted'
    BY <1>2, <2>1 DEF ReviewInv, ThreadsHoldMinted
  <2>2. ASSUME NEW q \in Reqs, pc'[q] \in ActivePcs, run'[q].at \in Proposing
        PROVE  ProposalOf(ConvOf(q)', run'[q].values) \in minted'
    BY <1>0, <1>1, <2>2 DEF ReviewInv, ThreadsHoldMinted, ConvOf
  <2> QED
    BY <2>1, <2>2 DEF ThreadsHoldMinted
<1>4. ReviewsNameOffers'
  BY DEF ReviewInv, ReviewsNameOffers, BusyPcs
<1>5. (offered \cup executed \subseteq minted)'
  BY DEF ReviewInv
<1> QED
  BY <1>3, <1>4, <1>5 DEF ReviewInv

\* Checking a review, unless it is refused, only moves its request on.
LEMMA CheckIsQuiet ==
    ASSUME TypeOK, NEW r \in Reqs, CheckReview(r) \/ CheckSource(r), ~Finish(r)
    PROVE  /\ pc[r] \in GuardedPcs /\ pc'[r] \in CheckedPcs
           /\ \A q \in Reqs \ {r} : pc'[q] = pc[q] /\ run'[q] = run[q]
           /\ UNCHANGED <<lockVars, job>>
<1>1. CASE CheckReview(r)
  BY <1>1 DEF CheckReview, Keep, TypeOK, GuardedPcs, CheckedPcs
<1>2. CASE CheckSource(r)
  BY <1>2 DEF CheckSource, TypeOK, GuardedPcs, CheckedPcs
<1> QED
  BY <1>1, <1>2

\* Resuming starts a run of the thread as it is, or answers on a finished one.
LEMMA ResumeRuns ==
    ASSUME TypeOK, NEW r \in Reqs, ResumeReview(r)
    PROVE  /\ pc[r] = "resuming" /\ pc[r] \in GuardedPcs /\ pc'[r] \in GuardedPcs
           /\ \A q \in Reqs \ {r} : pc'[q] = pc[q] /\ run'[q] = run[q]
           /\ UNCHANGED <<lockVars, job, ckpt>>
           /\ \/ /\ ckpt[ConvOf(r)].next = "end"
                 /\ pc'[r] = "answering" /\ run'[r] = NoRun
              \/ /\ ckpt[ConvOf(r)].next # "end"
                 /\ pc'[r] = "running"
                 /\ run'[r] = [values |-> ckpt[ConvOf(r)].values,
                               at |-> ckpt[ConvOf(r)].next, resume |-> TRUE]
<1>1. pc[r] = "resuming" /\ UNCHANGED <<lockVars, job, ckpt>>
  BY DEF ResumeReview
<1>2. CASE ckpt[ConvOf(r)].next = "end"
  BY <1>1, <1>2 DEF ResumeReview, TypeOK, GuardedPcs, CheckedPcs
<1>3. CASE ckpt[ConvOf(r)].next # "end"
  BY <1>1, <1>3 DEF ResumeReview, TypeOK, GuardedPcs, CheckedPcs
<1> QED
  BY <1>2, <1>3

LEMMA ReviewStart ==
    ASSUME ReviewInv, TypeOK', NEW r \in Reqs,
           \/ StartQuestion(r) \/ CheckReview(r) \/ CheckSource(r) \/ ResumeReview(r)
    PROVE  ReviewInv'
<1>0. TypeOK /\ ConvOf(r) \in Convs
  BY RunType DEF ReviewInv
<1>1. CASE StartQuestion(r)
  <2> DEFINE S == InitialState(ckpt[ConvOf(r)].values, job[r].source,
                               job[r].aid, job[r].saved)
  <2>1. Superstep(r, S, "table_selector")
    BY <1>1 DEF StartQuestion
  <2>2. UNCHANGED <<job, issued, minted, offered, executed>>
    BY <1>1 DEF StartQuestion
  <2>3. /\ pc[r] \in GuardedPcs
        /\ \A q \in Reqs \ {r} : pc'[q] = pc[q]
    BY <1>0, <1>1 DEF StartQuestion, TypeOK, GuardedPcs
  <2>4. TokensAreUnique'
    BY <2>2 DEF ReviewInv, TokensAreUnique
  <2> HIDE DEF S
  <2> QED
    BY <2>1, <2>2, <2>3, <2>4, RunStep DEF Proposing
<1>2. CASE CheckReview(r) \/ CheckSource(r)
  <2>1. UNCHANGED <<ckpt, issued, minted, offered, executed>>
    BY <1>2 DEF CheckReview, CheckSource, historyVars
  <2>2. CASE Finish(r)
    BY <1>0, <2>1, <2>2, FinishIsQuiet, QuietStep
  <2>3. CASE ~Finish(r)
    <3>1. /\ pc[r] \in GuardedPcs /\ pc'[r] \in CheckedPcs
          /\ \A q \in Reqs \ {r} : pc'[q] = pc[q] /\ run'[q] = run[q]
          /\ UNCHANGED job
      BY <1>0, <1>2, <2>3, CheckIsQuiet
    <3>2. pc[r] \in BusyPcs /\ pc'[r] \notin ActivePcs
      BY <3>1 DEF BusyPcs, ActivePcs, CheckedPcs
    <3> QED
      BY <2>1, <3>1, <3>2, QuietStep
  <2> QED
    BY <2>2, <2>3
<1>3. CASE ResumeReview(r)
  <2>1. UNCHANGED <<ckpt, job, issued, minted, offered, executed>>
    BY <1>3 DEF ResumeReview, historyVars
  <2>2. /\ pc[r] \in BusyPcs
        /\ \A q \in Reqs \ {r} : pc'[q] = pc[q] /\ run'[q] = run[q]
        /\ \/ pc'[r] = "answering"
           \/ /\ pc'[r] = "running"
              /\ run'[r] = [values |-> ckpt[ConvOf(r)].values,
                            at |-> ckpt[ConvOf(r)].next, resume |-> TRUE]
    BY <1>0, <1>3, ResumeRuns DEF BusyPcs
  <2>3. TokensAreUnique' /\ (offered \cup executed \subseteq minted)'
    BY <2>1 DEF ReviewInv, TokensAreUnique
  <2>4. ThreadsHoldMinted'
    BY <1>0, <2>1, <2>2 DEF ReviewInv, ThreadsHoldMinted, ConvOf, ActivePcs
  <2>5. ReviewsNameOffers'
    BY <2>1, <2>2 DEF ReviewInv, ReviewsNameOffers, BusyPcs
  <2> QED
    BY <2>3, <2>4, <2>5 DEF ReviewInv
<1> QED
  BY <1>1, <1>2, <1>3

\* generate_sql: the new proposal has a token no earlier one has.
LEMMA ReviewGenerate ==
    ASSUME ReviewInv, TypeOK', NEW r \in Reqs, GenerateSql(r)
    PROVE  ReviewInv'
<1>0. TypeOK /\ ConvOf(r) \in Convs /\ issued \in Nat
  BY RunType DEF ReviewInv, TypeOK
<1> PICK answer \in Queries \cup {CannotAnswer} :
       LET s == Generated(run[r].values, answer, issued + 1) IN
       /\ Superstep(r, s, "validate_sql")
       /\ minted' = minted \cup {ProposalOf(ConvOf(r), s)}
  BY DEF GenerateSql
<1> DEFINE S == Generated(run[r].values, answer, issued + 1)
           P == ProposalOf(ConvOf(r), S)
<1>1. P.token = issued + 1
  <2>1. run[r].values \in AgentState
    BY <1>0, RunType
  <2>2. S.token = issued + 1
    BY <2>1 DEF Generated, AgentState
  <2> QED
    BY <2>2, ProposalFields
<1>2. Superstep(r, S, "validate_sql") /\ minted' = minted \cup {P}
  OBVIOUS
<1>3. /\ issued' = issued + 1
      /\ UNCHANGED <<job, offered, approved, executed, pc>>
      /\ pc[r] \in GuardedPcs
  BY DEF GenerateSql, AtNode, GuardedPcs
<1> HIDE DEF S, P
<1>4. TokensAreUnique'
  <2>1. \A p \in minted : p.token <= issued /\ p.token \in Nat
    BY <1>0 DEF ReviewInv, TokensAreUnique, TypeOK, Proposal
  <2>2. \A p, q \in minted : p.token = q.token => p = q
    BY DEF ReviewInv, TokensAreUnique
  <2>3. \A p \in minted' : p.token <= issued'
    BY <1>0, <1>1, <1>2, <1>3, <2>1
  <2>4. \A p, q \in minted' : p.token = q.token => p = q
    BY <1>0, <1>1, <1>2, <2>1, <2>2
  <2> QED
    BY <2>3, <2>4 DEF TokensAreUnique
<1>5. minted \subseteq minted'
  BY <1>2
<1>6. P \in minted'
  BY <1>2
<1> QED
  BY <1>2, <1>3, <1>4, <1>5, <1>6, RunStep DEF P

\* Nodes that change the thread but make no proposal and take no decision.
LEMMA ReviewNodes ==
    ASSUME ReviewInv, TypeOK', NEW r \in Reqs,
           \/ TableSelector(r) \/ ValidateSql(r) \/ FinishExecution(r)
           \/ DecideNextStep(r) \/ IncrementRetry(r)
    PROVE  ReviewInv'
<1>0. TypeOK /\ ConvOf(r) \in Convs /\ run[r].values \in AgentState
  BY RunType DEF ReviewInv
<1>1. /\ UNCHANGED <<job, issued, minted, offered, executed>>
      /\ pc[r] \in GuardedPcs
      /\ \A q \in Reqs \ {r} : pc'[q] = pc[q]
  BY <1>0 DEF TableSelector, ValidateSql, FinishExecution, DecideNextStep,
     IncrementRetry, historyVars, AtNode, GuardedPcs, TypeOK
<1>2. TokensAreUnique'
  BY <1>1 DEF ReviewInv, TokensAreUnique
<1>3. ASSUME NEW S, NEW n \in Nodes \ Proposing, Superstep(r, S, n)
      PROVE  ReviewInv'
  BY <1>1, <1>2, <1>3, RunStep DEF Proposing
<1>4. CASE ValidateSql(r)
  <2> PICK ok \in BOOLEAN :
        LET s == Validated(run[r].values, ok) IN Superstep(r, s, AfterValidate(s))
    BY <1>4 DEF ValidateSql
  <2> DEFINE S == Validated(run[r].values, ok)
             n == AfterValidate(S)
  <2>2. ProposalOf(ConvOf(r), S) = ProposalOf(ConvOf(r), run[r].values)
    BY <1>0, NodesKeepProposal
  <2>3. run[r].at = "validate_sql" /\ pc[r] = "running"
    BY <1>4 DEF ValidateSql, AtNode
  <2>4. ProposalOf(ConvOf(r), S) \in minted'
    BY <1>1, <2>2, <2>3 DEF ReviewInv, ThreadsHoldMinted, Proposing, ActivePcs
  <2>5. Superstep(r, S, n)
    OBVIOUS
  <2> HIDE DEF S, n
  <2> QED
    BY <1>1, <1>2, <2>4, <2>5, RunStep
<1>5. CASE FinishExecution(r)
  <2> PICK ok \in BOOLEAN :
        LET s == Executed(run[r].values, ok) IN Superstep(r, s, AfterExecute(s))
    BY <1>5 DEF FinishExecution
  <2>1. AfterExecute(Executed(run[r].values, ok)) \in Nodes \ Proposing
    BY <1>0, ExecutedType DEF AfterExecute, RetryOrAnswer, Nodes, Proposing, AgentState
  <2> QED
    BY <1>3, <2>1
<1>6. CASE TableSelector(r)
  BY <1>3, <1>6 DEF TableSelector, Nodes, Proposing
<1>7. CASE DecideNextStep(r)
  BY <1>3, <1>7 DEF DecideNextStep, AfterDecide, Nodes, Proposing
<1>8. CASE IncrementRetry(r)
  BY <1>3, <1>8 DEF IncrementRetry, Nodes, Proposing
<1> QED
  BY <1>4, <1>5, <1>6, <1>7, <1>8

\* A request that leaves its stream: the thread keeps the run's last state, and
\* that state is a proposal only if it was minted.
LEMMA ReviewLeave ==
    ASSUME ReviewInv, TypeOK', NEW r \in Reqs,
           pc[r] \in ActivePcs, Flush(r), Finish(r), UNCHANGED <<issued, minted, executed>>,
           offered \subseteq offered', offered' \subseteq minted
    PROVE  ReviewInv'
<1>0. TypeOK /\ ConvOf(r) \in Convs
  BY RunType DEF ReviewInv
<1>1. TokensAreUnique' /\ (offered \cup executed \subseteq minted)'
  BY DEF ReviewInv, TokensAreUnique
<1>2. \A q \in Reqs :
         \/ pc'[q] = "idle"
         \/ pc'[q] = pc[q] /\ job'[q] = job[q] /\ run'[q] = run[q]
  BY <1>0, FinishIsQuiet
<1>3. /\ \A c \in Convs \ {ConvOf(r)} : ckpt'[c] = ckpt[c]
      /\ ckpt'[ConvOf(r)] = [values |-> run[r].values, next |-> run[r].at]
  BY <1>0 DEF Flush, CheckpointOf, TypeOK
<1>4. ThreadsHoldMinted'
  BY <1>2, <1>3 DEF ReviewInv, ThreadsHoldMinted, ActivePcs, ConvOf
<1>5. ReviewsNameOffers'
  <2>1. {p.token : p \in offered} \subseteq {p.token : p \in offered'}
    OBVIOUS
  <2> QED
    BY <1>2, <2>1 DEF ReviewInv, ReviewsNameOffers, BusyPcs, GuardedPcs
<1> QED
  BY <1>1, <1>4, <1>5 DEF ReviewInv

\* human_review, both ways, and a node that raises.
LEMMA ReviewHuman ==
    ASSUME ReviewInv, TypeOK', NEW r \in Reqs,
           PauseForReview(r) \/ Decide(r) \/ NodeRaises(r)
    PROVE  ReviewInv'
<1>0. TypeOK /\ ConvOf(r) \in Convs /\ run[r].values \in AgentState
  BY RunType DEF ReviewInv
<1>1. CASE PauseForReview(r)
  <2>1. ProposalOf(ConvOf(r), run[r].values) \in minted
    BY <1>1 DEF PauseForReview, AtNode, ReviewInv, ThreadsHoldMinted, Proposing,
       ActivePcs
  <2>2. offered' = offered \cup {ProposalOf(ConvOf(r), run[r].values)}
    BY <1>1 DEF PauseForReview
  <2>3. /\ Flush(r) /\ Finish(r) /\ pc[r] \in ActivePcs
        /\ UNCHANGED <<issued, minted, executed>>
    BY <1>1 DEF PauseForReview, AtNode, ActivePcs
  <2> QED
    BY <2>1, <2>2, <2>3, ReviewLeave DEF ReviewInv
<1>2. CASE NodeRaises(r)
  <2>1. /\ Flush(r) /\ Finish(r) /\ pc[r] \in ActivePcs
        /\ UNCHANGED <<issued, minted, offered, executed>>
    BY <1>2 DEF NodeRaises, ActivePcs, historyVars
  <2> QED
    BY <2>1, ReviewLeave DEF ReviewInv
<1>3. CASE Decide(r)
  <2> DEFINE S == Reviewed(run[r].values, job[r].approve)
             n == AfterReview(S)
  <2>1. /\ Superstep(r, S, n)
        /\ UNCHANGED <<job, issued, minted, offered, executed, pc>>
        /\ pc[r] = "running" /\ run[r].at = "human_review"
    BY <1>3 DEF Decide, AtNode
  <2>2. ProposalOf(ConvOf(r), S) = ProposalOf(ConvOf(r), run[r].values)
    BY <1>0, RunType, NodesKeepProposal
  <2>3. ProposalOf(ConvOf(r), run[r].values) \in minted
    BY <2>1 DEF ReviewInv, ThreadsHoldMinted, Proposing, ActivePcs
  <2>4. TokensAreUnique' /\ pc[r] \in GuardedPcs
    BY <2>1 DEF ReviewInv, TokensAreUnique, GuardedPcs
  <2>5. ProposalOf(ConvOf(r), S) \in minted'
    BY <2>1, <2>2, <2>3
  <2> HIDE DEF S, n
  <2> QED
    BY <2>1, <2>4, <2>5, RunStep
<1> QED
  BY <1>1, <1>2, <1>3

\* Executing, answering.
LEMMA ReviewRun ==
    ASSUME ReviewInv, TypeOK', NEW r \in Reqs,
           StartExecution(r) \/ SynthesizeAnswer(r) \/ PersistAnswer(r)
    PROVE  ReviewInv'
<1>0. TypeOK /\ ConvOf(r) \in Convs
  BY RunType DEF ReviewInv
<1>1. CASE StartExecution(r)
  <2>0. ProposalOf(ConvOf(r), run[r].values) \in minted
    BY <1>1 DEF StartExecution, AtNode, ReviewInv, ThreadsHoldMinted, Proposing,
       ActivePcs
  <2>1. /\ UNCHANGED <<ckpt, job, run, issued, minted, offered>>
        /\ executed' = executed \cup {ProposalOf(ConvOf(r), run[r].values)}
        /\ pc[r] = "running" /\ pc' = [pc EXCEPT ![r] = "executing"]
    BY <1>1 DEF StartExecution, AtNode
  <2>2. TokensAreUnique' /\ (offered \cup executed \subseteq minted)'
    BY <2>0, <2>1 DEF ReviewInv, TokensAreUnique
  <2>3. \A q \in Reqs : /\ pc'[q] \in ActivePcs => pc[q] \in ActivePcs
                        /\ pc'[q] \in BusyPcs => pc[q] \in BusyPcs
                        /\ ConvOf(q)' = ConvOf(q)
    BY <1>0, <2>1 DEF TypeOK, ActivePcs, BusyPcs, GuardedPcs, ConvOf
  <2>4. ThreadsHoldMinted'
    BY <2>1, <2>3 DEF ReviewInv, ThreadsHoldMinted
  <2>5. ReviewsNameOffers'
    BY <2>1, <2>3 DEF ReviewInv, ReviewsNameOffers
  <2> QED
    BY <2>2, <2>4, <2>5 DEF ReviewInv
<1>2. CASE SynthesizeAnswer(r)
  <2>1. /\ UNCHANGED <<job, issued, minted, offered, executed>>
        /\ pc' = [pc EXCEPT ![r] = "answering"]
        /\ pc[r] = "running"
    BY <1>2 DEF SynthesizeAnswer, historyVars, AtNode
  <2>2. /\ \A c \in Convs \ {ConvOf(r)} : ckpt'[c] = ckpt[c]
        /\ ckpt'[ConvOf(r)].next = "end"
        /\ \A q \in Reqs \ {r} : run'[q] = run[q]
    BY <1>0, <1>2 DEF SynthesizeAnswer, TypeOK
  <2>3. /\ \A q \in Reqs \ {r} : pc'[q] = pc[q]
        /\ pc'[r] \notin ActivePcs /\ pc[r] \in BusyPcs
        /\ \A q \in Reqs : ConvOf(q)' = ConvOf(q)
    BY <1>0, <2>1 DEF TypeOK, ActivePcs, BusyPcs, GuardedPcs, ConvOf
  <2>4. TokensAreUnique' /\ (offered \cup executed \subseteq minted)'
    BY <2>1 DEF ReviewInv, TokensAreUnique
  <2>5. ThreadsHoldMinted'
    <3>1. "end" \notin Proposing
      BY DEF Proposing
    <3> QED
      BY <2>1, <2>2, <2>3, <3>1 DEF ReviewInv, ThreadsHoldMinted
  <2>6. ReviewsNameOffers'
    BY <2>1, <2>2, <2>3 DEF ReviewInv, ReviewsNameOffers
  <2> QED
    BY <2>4, <2>5, <2>6 DEF ReviewInv
<1>3. CASE PersistAnswer(r)
  <2>1. /\ UNCHANGED <<ckpt, issued, minted, offered, executed>>
        /\ Finish(r)
    BY <1>3 DEF PersistAnswer, historyVars
  <2> QED
    BY <1>0, <2>1, FinishIsQuiet, QuietStep
<1> QED
  BY <1>1, <1>2, <1>3

LEMMA ReviewNext == ReviewInv /\ [Next]_vars => ReviewInv'
<1> SUFFICES ASSUME ReviewInv, [Next]_vars PROVE ReviewInv'
  OBVIOUS
<1>1. TypeOK'
  BY TypeNext DEF ReviewInv
<1>2. CASE UNCHANGED vars
  <2>1. UNCHANGED <<pc, job, run, ckpt, issued, minted, offered, executed>>
    BY <1>2 DEF vars, historyVars
  <2> QED
    BY <1>1, <2>1, QuietStep
<1>3. CASE Next
  BY <1>1, <1>3, ReviewHousekeeping, ReviewArrive, ReviewGuard, ReviewStart,
     ReviewGenerate, ReviewNodes, ReviewHuman, ReviewRun DEF Next, Advance, Fail
<1> QED
  BY <1>2, <1>3

-----------------------------------------------------------------------------
(* One run at a time *)

LEMMA GuardInit == Init => GuardInv
BY TypeInit DEF Init, GuardInv, HoldsLocks, GuardedPcs

\* A step that takes no lock: it ends requests with their locks, or leaves the
\* locks alone and moves a request where it is entitled to none it lacks.
LEMMA NoLockTaken ==
    ASSUME GuardInv, TypeOK', NEW r \in Reqs,
           \A q \in Reqs \ {r} : pc'[q] = pc[q] /\ job'[q] = job[q],
           \/ Finish(r)
           \/ /\ UNCHANGED lockVars
              /\ \/ pc'[r] = "queued"
                 \/ pc'[r] = pc[r] /\ job'[r] = job[r]
                 \/ /\ pc[r] \in GuardedPcs /\ pc'[r] \in GuardedPcs
                    /\ job'[r] = job[r]
    PROVE  GuardInv'
<1>0. TypeOK /\ \A q \in Reqs : ConvOf(q) \in Convs /\ UserOf(q) \in Users
  BY WorkflowAssumption DEF GuardInv, TypeOK, Job, ConvOf, UserOf
<1>1. ASSUME NEW q \in Reqs \ {r} PROVE HoldsLocks(q)'
  <2>1. HoldsLocks(q)
    BY DEF GuardInv
  <2>2. UserOf(q)' = UserOf(q) /\ ConvOf(q)' = ConvOf(q) /\ pc'[q] = pc[q]
    BY DEF UserOf, ConvOf
  <2>3. CASE Finish(r)
    BY <1>0, <2>1, <2>2, <2>3 DEF Finish, Release, HoldsLocks
  <2>4. CASE UNCHANGED lockVars
    BY <2>1, <2>2, <2>4 DEF HoldsLocks, lockVars
  <2> QED
    BY <2>3, <2>4
<1>2. HoldsLocks(r)'
  <2>1. HoldsLocks(r)
    BY DEF GuardInv
  <2>2. CASE Finish(r)
    BY <1>0, <2>2 DEF Finish, HoldsLocks, GuardedPcs, TypeOK
  <2>3. CASE UNCHANGED lockVars /\ pc'[r] = "queued"
    BY <2>3 DEF HoldsLocks, GuardedPcs
  <2>4. CASE UNCHANGED lockVars /\ job'[r] = job[r]
             /\ \/ pc'[r] = pc[r]
                \/ pc[r] \in GuardedPcs /\ pc'[r] \in GuardedPcs
    BY <2>1, <2>4 DEF HoldsLocks, UserOf, ConvOf, lockVars
  <2> QED
    BY <2>2, <2>3, <2>4
<1> QED
  BY <1>1, <1>2 DEF GuardInv

\* A lock is taken only when it is free, and nobody past that point lacks it.
LEMMA LockTaken ==
    ASSUME GuardInv, TypeOK', NEW r \in Reqs,
           TakeUserLock(r) \/ TakeConvLock(r)
    PROVE  GuardInv'
<1>0. TypeOK /\ \A q \in Reqs : ConvOf(q) \in Convs /\ UserOf(q) \in Users
  BY WorkflowAssumption DEF GuardInv, TypeOK, Job, ConvOf, UserOf
<1>1. \A q \in Reqs : q # Free
  BY WorkflowAssumption
<1>2. CASE Finish(r)
  <2>1. \A q \in Reqs \ {r} : pc'[q] = pc[q] /\ job'[q] = job[q]
    BY <1>0, <1>2 DEF Finish, TypeOK
  <2> QED
    BY <1>2, <2>1, NoLockTaken
<1>3. CASE TakeUserLock(r) /\ ~Finish(r)
  <2>1. /\ userLock[UserOf(r)] = Free
        /\ userLock' = [userLock EXCEPT ![UserOf(r)] = r]
        /\ pc' = [pc EXCEPT ![r] = "userLocked"]
        /\ UNCHANGED <<convLock, job>>
    BY <1>3 DEF TakeUserLock
  <2>2. \A q \in Reqs : UserOf(q)' = UserOf(q) /\ ConvOf(q)' = ConvOf(q)
    BY <2>1 DEF UserOf, ConvOf
  <2>3. ASSUME NEW q \in Reqs \ {r} PROVE HoldsLocks(q)'
    BY <1>0, <1>1, <2>1, <2>2 DEF GuardInv, HoldsLocks, TypeOK
  <2>4. HoldsLocks(r)'
    BY <1>0, <2>1, <2>2 DEF HoldsLocks, GuardedPcs, TypeOK
  <2> QED
    BY <2>3, <2>4 DEF GuardInv
<1>4. CASE TakeConvLock(r) /\ ~Finish(r)
  <2>1. /\ pc[r] = "userLocked" /\ convLock[ConvOf(r)] = Free
        /\ convLock' = [convLock EXCEPT ![ConvOf(r)] = r]
        /\ pc' = [pc EXCEPT ![r] = "guarded"]
        /\ UNCHANGED <<userLock, job>>
    BY <1>4 DEF TakeConvLock
  <2>2. \A q \in Reqs : UserOf(q)' = UserOf(q) /\ ConvOf(q)' = ConvOf(q)
    BY <2>1 DEF UserOf, ConvOf
  <2>3. ASSUME NEW q \in Reqs \ {r} PROVE HoldsLocks(q)'
    BY <1>0, <1>1, <2>1, <2>2 DEF GuardInv, HoldsLocks, TypeOK
  <2>4. HoldsLocks(r)'
    BY <1>0, <2>1, <2>2 DEF GuardInv, HoldsLocks, GuardedPcs, TypeOK
  <2> QED
    BY <2>3, <2>4 DEF GuardInv
<1> QED
  BY <1>2, <1>3, <1>4

\* The steps of a request past the guard.
LEMMA GuardedStep ==
    ASSUME GuardInv, TypeOK', NEW r \in Reqs,
           \/ StartQuestion(r) \/ CheckReview(r) \/ CheckSource(r)
           \/ ResumeReview(r) \/ TableSelector(r)
           \/ GenerateSql(r) \/ ValidateSql(r) \/ PauseForReview(r)
           \/ Decide(r) \/ StartExecution(r) \/ FinishExecution(r)
           \/ DecideNextStep(r) \/ IncrementRetry(r) \/ SynthesizeAnswer(r)
           \/ PersistAnswer(r)
    PROVE  GuardInv'
<1>0. TypeOK
  BY DEF GuardInv
<1>1. CASE Finish(r)
  <2>1. \A q \in Reqs \ {r} : pc'[q] = pc[q] /\ job'[q] = job[q]
    BY <1>0, <1>1 DEF Finish, TypeOK
  <2> QED
    BY <1>1, <2>1, NoLockTaken
<1>2. CASE ~Finish(r)
  <2>1. CASE CheckReview(r) \/ CheckSource(r)
    BY <1>0, <1>2, <2>1, CheckIsQuiet, NoLockTaken DEF GuardedPcs, CheckedPcs
  <2>2. CASE ResumeReview(r)
    BY <1>0, <2>2, ResumeRuns, NoLockTaken
  <2>3. CASE ~(CheckReview(r) \/ CheckSource(r) \/ ResumeReview(r))
    <3>1. UNCHANGED <<lockVars, job>>
      BY <1>2, <2>3 DEF StartQuestion, TableSelector, GenerateSql, ValidateSql,
         PauseForReview, Decide, StartExecution, FinishExecution, DecideNextStep,
         IncrementRetry, SynthesizeAnswer, PersistAnswer
    <3>2. /\ pc[r] \in GuardedPcs /\ pc'[r] \in GuardedPcs
          /\ \A q \in Reqs \ {r} : pc'[q] = pc[q]
      BY <1>0, <1>2, <2>3 DEF StartQuestion, TableSelector, GenerateSql, ValidateSql,
         PauseForReview, Decide, StartExecution, FinishExecution, DecideNextStep,
         IncrementRetry, SynthesizeAnswer, PersistAnswer, AtNode, GuardedPcs, TypeOK
    <3> QED
      BY <3>1, <3>2, NoLockTaken
  <2> QED
    BY <2>1, <2>2, <2>3
<1> QED
  BY <1>1, <1>2

LEMMA GuardNext ==
    ASSUME ~LockMayDrop
    PROVE  GuardInv /\ [Next]_vars => GuardInv'
<1> SUFFICES ASSUME GuardInv, [Next]_vars PROVE GuardInv'
  OBVIOUS
<1>0. TypeOK /\ TypeOK'
  BY TypeNext DEF GuardInv
<1>1. CASE UNCHANGED vars
  BY <1>0, <1>1 DEF GuardInv, HoldsLocks, UserOf, ConvOf, vars, lockVars
<1>2. CASE Housekeeping
  <2>1. UNCHANGED <<pc, job, userLock, convLock>>
    BY <1>2 DEF Housekeeping, CreateConversation, DeleteConversation,
       DeleteSource, SaveAnalysis, lockVars
  <2> QED
    BY <1>0, <2>1 DEF GuardInv, HoldsLocks, UserOf, ConvOf
<1>3. ASSUME NEW r \in Reqs, Arrive(r) PROVE GuardInv'
  <2>1. /\ UNCHANGED lockVars
        /\ \A q \in Reqs \ {r} : pc'[q] = pc[q] /\ job'[q] = job[q]
        /\ \/ pc'[r] = "queued"
           \/ pc'[r] = pc[r] /\ job'[r] = job[r]
    <3> DEFINE Still  == UNCHANGED <<lockVars, pc, job>>
               Queued == \E j : /\ UNCHANGED lockVars
                                /\ pc' = [pc EXCEPT ![r] = "queued"]
                                /\ job' = [job EXCEPT ![r] = j]
    <3>1. ASSUME NEW c, NEW source, NEW aid, NEW saved, NEW hasKey,
                 AcceptQuestion(r, c, source, aid, saved, hasKey)
          PROVE  Still \/ Queued
      BY <3>1, Zenon DEF AcceptQuestion
    <3>2. ASSUME NEW c, NEW token, NEW approve, SubmitReview(r, c, token, approve)
          PROVE  Still \/ Queued
      BY <3>2, Zenon DEF SubmitReview
    <3>3. Still \/ Queued
      <4> HIDE DEF Still, Queued
      <4> QED
        BY <1>3, <3>1, <3>2, Zenon
           DEF Arrive, AskInNewConversation, AskInConversation, RunAnalysis
    <3> QED
      BY <1>0, <3>3 DEF TypeOK
  <2> QED
    BY <1>0, <2>1, NoLockTaken
<1>4. ASSUME NEW r \in Reqs, Advance(r) PROVE GuardInv'
  BY <1>0, <1>4, LockTaken, GuardedStep DEF Advance
<1>5. ASSUME NEW r \in Reqs, Fail(r) PROVE GuardInv'
  <2>1. Finish(r)
    BY <1>5 DEF Fail, OverBudget, NodeRaises, Abort, LoseLocks
  <2>2. \A q \in Reqs \ {r} : pc'[q] = pc[q] /\ job'[q] = job[q]
    BY <1>0, <2>1 DEF Finish, TypeOK
  <2> QED
    BY <1>0, <2>1, <2>2, NoLockTaken
<1> QED
  BY <1>1, <1>2, <1>3, <1>4, <1>5 DEF Next

\* As long as the database keeps the guard's connection, no two requests of a
\* user, nor two on one thread, are past workflow_guard at once.
THEOREM OneRunAtATime ==
    ASSUME ~LockMayDrop
    PROVE  Spec => []ExclusiveRuns
<1>1. Spec => []GuardInv
  BY GuardInit, GuardNext, PTL DEF Spec
<1>2. GuardInv => ExclusiveRuns
  <2> SUFFICES ASSUME GuardInv PROVE ExclusiveRuns
    OBVIOUS
  <2>1. \A r \in Reqs : HoldsLocks(r)
    BY DEF GuardInv
  <2> QED
    BY <2>1 DEF ExclusiveRuns, HoldsLocks
<1> QED
  BY <1>1, <1>2, PTL

-----------------------------------------------------------------------------
(* Nothing runs unapproved, while requests past the guard hold their locks:    *)
(* what was checked for a review still stands when the thread is resumed.      *)

LEMMA ApprovalInit == Init => ApprovalInv
BY DEF Init, ApprovalInv, CheckStands, ReadyIsApproved, ExecutedAsApproved,
   CheckedPcs, ActivePcs

\* Two requests past the guard are on two threads.
LEMMA OneOnAThread ==
    ASSUME GuardInv, NEW r \in Reqs, NEW q \in Reqs, q # r,
           pc[r] \in GuardedPcs, pc[q] \in GuardedPcs
    PROVE  ConvOf(q) # ConvOf(r)
BY DEF GuardInv, HoldsLocks

\* A step of one request that moves no thread but its own, and only past the
\* guard: whatever others checked or hold still stands.
LEMMA ApprovalStep ==
    ASSUME ApprovalInv, GuardInv, NEW r \in Reqs,
           \A q \in Reqs \ {r} :
              pc'[q] = pc[q] /\ job'[q] = job[q] /\ run'[q] = run[q],
           \A c \in Convs : ckpt'[c] = ckpt[c] \/ (pc[r] \in GuardedPcs /\ c = ConvOf(r)),
           offered \subseteq offered', approved \subseteq approved',
           CheckStands(r)', ReadyIsApproved(r)', ExecutedAsApproved'
    PROVE  ApprovalInv'
<1>1. ASSUME NEW q \in Reqs \ {r} PROVE CheckStands(q)' /\ ReadyIsApproved(q)'
  <2>1. /\ pc'[q] = pc[q] /\ job'[q] = job[q] /\ run'[q] = run[q]
        /\ ConvOf(q)' = ConvOf(q) /\ ConvOf(q) \in Convs
    BY RunType DEF GuardInv, ConvOf
  <2>2. CheckStands(q) /\ ReadyIsApproved(q)
    BY DEF ApprovalInv
  <2>3. CheckStands(q)'
    <3>1. pc[q] \in CheckedPcs => ckpt'[ConvOf(q)] = ckpt[ConvOf(q)]
      BY <2>1, OneOnAThread DEF CheckedPcs, GuardedPcs
    <3> QED
      BY <2>1, <2>2, <3>1 DEF CheckStands
  <2>4. ReadyIsApproved(q)'
    BY <2>1, <2>2 DEF ReadyIsApproved
  <2> QED
    BY <2>3, <2>4
<1> QED
  BY <1>1 DEF ApprovalInv

\* A step after which a request neither has checked a review nor runs.
LEMMA ApprovalQuiet ==
    ASSUME ApprovalInv, GuardInv, NEW r \in Reqs,
           \A q \in Reqs \ {r} :
              pc'[q] = pc[q] /\ job'[q] = job[q] /\ run'[q] = run[q],
           \A c \in Convs : ckpt'[c] = ckpt[c] \/ (pc[r] \in GuardedPcs /\ c = ConvOf(r)),
           offered \subseteq offered', UNCHANGED <<approved, executed>>,
           pc'[r] \notin CheckedPcs \cup ActivePcs
    PROVE  ApprovalInv'
<1>1. CheckStands(r)' /\ ReadyIsApproved(r)'
  BY DEF CheckStands, ReadyIsApproved
<1>2. ExecutedAsApproved'
  BY DEF ApprovalInv, ExecutedAsApproved
<1> QED
  BY <1>1, <1>2, ApprovalStep

\* A superstep leaves the other threads and runs alone.
LEMMA SuperstepMoves ==
    ASSUME TypeOK, NEW r \in Reqs, NEW S, NEW n, Superstep(r, S, n)
    PROVE  /\ \A c \in Convs : ckpt'[c] = ckpt[c] \/ c = ConvOf(r)
           /\ \A q \in Reqs \ {r} : run'[q] = run[q]
           /\ run'[r] = [values |-> S, at |-> n, resume |-> FALSE]
BY DEF Superstep, TypeOK

\* A superstep that does not lead to execute_sql.
LEMMA ApprovalMove ==
    ASSUME ApprovalInv, GuardInv, NEW r \in Reqs, NEW S, NEW n,
           Superstep(r, S, n), n # "execute_sql", pc[r] \in GuardedPcs,
           pc'[r] = "running", \A q \in Reqs \ {r} : pc'[q] = pc[q],
           UNCHANGED <<job, offered, approved, executed>>
    PROVE  ApprovalInv'
<1>1. /\ \A c \in Convs : ckpt'[c] = ckpt[c] \/ c = ConvOf(r)
      /\ \A q \in Reqs \ {r} : run'[q] = run[q]
      /\ run'[r] = [values |-> S, at |-> n, resume |-> FALSE]
  BY SuperstepMoves DEF GuardInv
<1>2. CheckStands(r)'
  BY <1>1 DEF CheckStands, CheckedPcs
<1>3. ReadyIsApproved(r)'
  BY <1>1 DEF ReadyIsApproved
<1>4. ExecutedAsApproved'
  BY DEF ApprovalInv, ExecutedAsApproved
<1> QED
  BY <1>1, <1>2, <1>3, <1>4, ApprovalStep

\* Requests that arrive, enter the guard or end.
LEMMA ApprovalArrive ==
    ASSUME ApprovalInv, GuardInv, NEW r \in Reqs, Arrive(r)
    PROVE  ApprovalInv'
<1>0. TypeOK
  BY DEF GuardInv
<1> DEFINE Still  == UNCHANGED <<pc, job>> /\ pc[r] = "idle"
           Queued == \E j : /\ pc' = [pc EXCEPT ![r] = "queued"]
                            /\ job' = [job EXCEPT ![r] = j]
           Calm == UNCHANGED <<ckpt, run, offered, approved, executed>>
<1>1. ASSUME NEW c, NEW source, NEW aid, NEW saved, NEW hasKey, pc[r] = "idle",
             AcceptQuestion(r, c, source, aid, saved, hasKey)
      PROVE  Calm /\ (Still \/ Queued)
  <2>1. Calm
    BY <1>1 DEF AcceptQuestion, historyVars
  <2>2. Still \/ Queued
    BY <1>1, Zenon DEF AcceptQuestion
  <2> QED
    BY <2>1, <2>2
<1>2. ASSUME NEW c, NEW token, NEW approve, SubmitReview(r, c, token, approve)
      PROVE  Calm /\ (Still \/ Queued)
  <2>1. Calm
    BY <1>2 DEF SubmitReview, historyVars
  <2>2. Still \/ Queued
    BY <1>2, Zenon DEF SubmitReview
  <2> QED
    BY <2>1, <2>2
<1>3. Calm /\ (Still \/ Queued)
  <2> HIDE DEF Calm, Still, Queued
  <2> QED
    BY <1>1, <1>2, Zenon
       DEF Arrive, AskInNewConversation, AskInConversation, RunAnalysis
<1>4. /\ \A q \in Reqs \ {r} : pc'[q] = pc[q] /\ job'[q] = job[q]
      /\ pc'[r] \in {"idle", "queued"}
  BY <1>0, <1>3 DEF TypeOK
<1>5. pc'[r] \notin CheckedPcs \cup ActivePcs
  BY <1>4 DEF CheckedPcs, ActivePcs
<1> QED
  BY <1>3, <1>4, <1>5, ApprovalQuiet

LEMMA FinishLeaves ==
    ASSUME TypeOK, NEW r \in Reqs, Finish(r)
    PROVE  /\ pc'[r] = "idle" /\ pc'[r] \notin CheckedPcs \cup ActivePcs
           /\ \A q \in Reqs \ {r} :
                pc'[q] = pc[q] /\ job'[q] = job[q] /\ run'[q] = run[q]
BY DEF TypeOK, Finish, CheckedPcs, ActivePcs

LEMMA ApprovalGuard ==
    ASSUME ApprovalInv, GuardInv, NEW r \in Reqs,
           TakeUserLock(r) \/ TakeConvLock(r) \/ OverBudget(r) \/ Abort(r)
    PROVE  ApprovalInv'
<1>0. TypeOK
  BY DEF GuardInv
<1>1. UNCHANGED <<ckpt, offered, approved, executed>>
  BY DEF TakeUserLock, TakeConvLock, OverBudget, Abort, historyVars
<1>2. CASE Finish(r)
  BY <1>0, <1>1, <1>2, FinishLeaves, ApprovalQuiet
<1>3. CASE ~Finish(r)
  <2>1. /\ \A q \in Reqs \ {r} : pc'[q] = pc[q]
        /\ pc'[r] \in {"userLocked", "guarded"}
        /\ UNCHANGED <<job, run>>
    BY <1>0, <1>3 DEF TakeUserLock, TakeConvLock, OverBudget, Abort, TypeOK
  <2>2. pc'[r] \notin CheckedPcs \cup ActivePcs
    BY <2>1 DEF CheckedPcs, ActivePcs
  <2> QED
    BY <1>1, <2>1, <2>2, ApprovalQuiet
<1> QED
  BY <1>2, <1>3

\* A question starts its thread over; a review is checked, and what it checked
\* is what it resumes, because nobody else moves the thread meanwhile.
LEMMA ApprovalStart ==
    ASSUME ApprovalInv, GuardInv, NEW r \in Reqs,
           \/ StartQuestion(r) \/ CheckReview(r) \/ CheckSource(r) \/ ResumeReview(r)
    PROVE  ApprovalInv'
<1>0. TypeOK
  BY DEF GuardInv
<1>1. CASE StartQuestion(r)
  <2> DEFINE S == InitialState(ckpt[ConvOf(r)].values, job[r].source,
                               job[r].aid, job[r].saved)
  <2>1. Superstep(r, S, "table_selector")
    BY <1>1 DEF StartQuestion
  <2>2. /\ pc[r] \in GuardedPcs /\ pc'[r] = "running"
        /\ \A q \in Reqs \ {r} : pc'[q] = pc[q]
        /\ UNCHANGED <<job, offered, approved, executed>>
    BY <1>0, <1>1 DEF StartQuestion, TypeOK, GuardedPcs
  <2> HIDE DEF S
  <2> QED
    BY <2>1, <2>2, ApprovalMove
<1>2. CASE CheckReview(r) \/ CheckSource(r)
  <2>1. UNCHANGED <<ckpt, offered, approved, executed>>
    BY <1>2 DEF CheckReview, CheckSource, historyVars
  <2>2. CASE Finish(r)
    BY <1>0, <2>1, <2>2, FinishLeaves, ApprovalQuiet
  <2>3. CASE ~Finish(r)
    <3>1. /\ pc'[r] \in CheckedPcs
          /\ \A q \in Reqs \ {r} : pc'[q] = pc[q] /\ run'[q] = run[q]
          /\ UNCHANGED job
      BY <1>0, <1>2, <2>3, CheckIsQuiet
    <3>2. job[r].kind = "review" /\ Pending(ckpt[ConvOf(r)], job[r].token)
      <4>1. CASE CheckReview(r)
        BY <2>3, <4>1 DEF CheckReview
      <4>2. CASE CheckSource(r)
        BY <4>2 DEF CheckSource, ApprovalInv, CheckStands, CheckedPcs
      <4> QED
        BY <1>2, <4>1, <4>2
    <3>3. CheckStands(r)'
      BY <2>1, <3>1, <3>2 DEF CheckStands, CheckedPcs, ActivePcs, ConvOf
    <3>4. ReadyIsApproved(r)'
      BY <3>1 DEF ReadyIsApproved, CheckedPcs, ActivePcs
    <3>5. ExecutedAsApproved'
      BY <2>1 DEF ApprovalInv, ExecutedAsApproved
    <3> QED
      BY <2>1, <3>1, <3>3, <3>4, <3>5, ApprovalStep
  <2> QED
    BY <2>2, <2>3
<1>3. CASE ResumeReview(r)
  <2>1. UNCHANGED <<ckpt, job, offered, approved, executed>>
    BY <1>3 DEF ResumeReview, historyVars
  <2>2. /\ job[r].kind = "review"
        /\ ckpt[ConvOf(r)].next = "human_review"
        /\ job[r].token = ckpt[ConvOf(r)].values.token
    BY <1>3 DEF ResumeReview, ApprovalInv, CheckStands, CheckedPcs, Pending,
       PendingReview
  <2>3. /\ \A q \in Reqs \ {r} : pc'[q] = pc[q] /\ run'[q] = run[q]
        /\ pc'[r] = "running"
        /\ run'[r] = [values |-> ckpt[ConvOf(r)].values,
                      at |-> ckpt[ConvOf(r)].next, resume |-> TRUE]
    BY <1>0, <1>3, <2>2, ResumeRuns
  <2>4. CheckStands(r)'
    BY <2>1, <2>2, <2>3 DEF CheckStands, CheckedPcs
  <2>5. ReadyIsApproved(r)'
    BY <2>2, <2>3 DEF ReadyIsApproved
  <2>6. ExecutedAsApproved'
    BY <2>1 DEF ApprovalInv, ExecutedAsApproved
  <2> QED
    BY <2>1, <2>3, <2>4, <2>5, <2>6, ApprovalStep
<1> QED
  BY <1>1, <1>2, <1>3

\* No node but human_review leads to execute_sql.
LEMMA ApprovalNodes ==
    ASSUME ApprovalInv, GuardInv, NEW r \in Reqs,
           \/ TableSelector(r) \/ GenerateSql(r) \/ ValidateSql(r)
           \/ FinishExecution(r) \/ DecideNextStep(r) \/ IncrementRetry(r)
    PROVE  ApprovalInv'
<1>0. TypeOK /\ run[r].values \in AgentState
  BY RunType DEF GuardInv
<1>1. /\ UNCHANGED <<job, offered, approved, executed>>
      /\ pc[r] \in GuardedPcs /\ pc'[r] = "running"
      /\ \A q \in Reqs \ {r} : pc'[q] = pc[q]
  BY <1>0 DEF TableSelector, GenerateSql, ValidateSql, FinishExecution,
     DecideNextStep, IncrementRetry, historyVars, AtNode, GuardedPcs, TypeOK
<1>2. ASSUME NEW S, NEW n, Superstep(r, S, n), n # "execute_sql"
      PROVE  ApprovalInv'
  BY <1>1, <1>2, ApprovalMove
<1>3. CASE ValidateSql(r)
  <2> PICK ok \in BOOLEAN :
        LET s == Validated(run[r].values, ok) IN Superstep(r, s, AfterValidate(s))
    BY <1>3 DEF ValidateSql
  <2>1. AfterValidate(Validated(run[r].values, ok)) # "execute_sql"
    BY <1>0, ValidatedType, RouteTypes DEF AfterValidate, RetryOrAnswer, AgentState
  <2> QED
    BY <1>2, <2>1
<1>4. CASE FinishExecution(r)
  <2> PICK ok \in BOOLEAN :
        LET s == Executed(run[r].values, ok) IN Superstep(r, s, AfterExecute(s))
    BY <1>4 DEF FinishExecution
  <2>1. AfterExecute(Executed(run[r].values, ok)) # "execute_sql"
    BY <1>0, ExecutedType DEF AfterExecute, RetryOrAnswer, AgentState
  <2> QED
    BY <1>2, <2>1
<1>5. CASE GenerateSql(r)
  BY <1>2, <1>5 DEF GenerateSql
<1>6. CASE TableSelector(r)
  BY <1>2, <1>6 DEF TableSelector
<1>7. CASE DecideNextStep(r)
  BY <1>2, <1>7 DEF DecideNextStep, AfterDecide
<1>8. CASE IncrementRetry(r)
  BY <1>2, <1>8 DEF IncrementRetry
<1> QED
  BY <1>3, <1>4, <1>5, <1>6, <1>7, <1>8

\* human_review with a resume value: an approval is of the very proposal the
\* run holds, which was shown.
LEMMA ApprovalDecide ==
    ASSUME ReviewInv, ApprovalInv, GuardInv, NEW r \in Reqs, Decide(r)
    PROVE  ApprovalInv'
<1>0. TypeOK /\ ConvOf(r) \in Convs /\ run[r].values \in AgentState
      /\ job[r].approve \in BOOLEAN
  BY RunType DEF GuardInv
<1> DEFINE S == Reviewed(run[r].values, job[r].approve)
           n == AfterReview(S)
           P == ProposalOf(ConvOf(r), run[r].values)
<1>1. /\ Superstep(r, S, n)
      /\ UNCHANGED <<job, offered, executed, pc>>
      /\ approved' = IF job[r].approve THEN approved \cup {job[r].token}
                                       ELSE approved
  BY DEF Decide
<1>2. /\ pc[r] = "running" /\ run[r].at = "human_review" /\ run[r].resume
      /\ pc[r] \in ActivePcs /\ pc[r] \in BusyPcs /\ pc[r] \in GuardedPcs
  BY DEF Decide, AtNode, ActivePcs, BusyPcs, GuardedPcs
<1>3. /\ ProposalOf(ConvOf(r), S) = P /\ S.token = run[r].values.token
      /\ n = "execute_sql" => job[r].approve
  BY <1>0, NodesKeepProposal
<1>4. P \in minted
  BY <1>2 DEF ReviewInv, ThreadsHoldMinted, Proposing
<1>5. job[r].token = run[r].values.token /\ job[r].kind = "review"
  BY <1>2 DEF ApprovalInv, CheckStands
<1>6. P \in offered
  <2>1. PICK o \in offered : o.token = job[r].token
    BY <1>2, <1>5 DEF ReviewInv, ReviewsNameOffers
  <2>2. o \in minted /\ o.token = P.token
    BY <1>5, <2>1, ProposalFields DEF ReviewInv
  <2>3. o = P
    BY <1>4, <2>2 DEF ReviewInv, TokensAreUnique
  <2> QED
    BY <2>1, <2>3
<1>7. approved \subseteq approved'
  BY <1>1
<1>8. n = "execute_sql" => S.token \in approved'
  BY <1>1, <1>3, <1>5
<1> HIDE DEF S, n, P
<1>9. /\ \A c \in Convs : ckpt'[c] = ckpt[c] \/ c = ConvOf(r)
      /\ \A q \in Reqs \ {r} : run'[q] = run[q]
      /\ run'[r] = [values |-> S, at |-> n, resume |-> FALSE]
  BY <1>0, <1>1, SuperstepMoves
<1>10. CheckStands(r)'
  BY <1>1, <1>2, <1>9 DEF CheckStands, CheckedPcs
<1>11. ConvOf(r)' = ConvOf(r)
  BY <1>1 DEF ConvOf
<1>12. ReadyIsApproved(r)'
  BY <1>1, <1>3, <1>6, <1>8, <1>9, <1>11 DEF ReadyIsApproved
<1>13. ExecutedAsApproved'
  BY <1>1, <1>7 DEF ApprovalInv, ExecutedAsApproved
<1> QED
  BY <1>1, <1>2, <1>7, <1>9, <1>10, <1>12, <1>13, ApprovalStep

\* What is sent to a database was ready.
LEMMA ApprovalExecute ==
    ASSUME ApprovalInv, GuardInv, NEW r \in Reqs, StartExecution(r)
    PROVE  ApprovalInv'
<1>0. TypeOK
  BY DEF GuardInv
<1> DEFINE P == ProposalOf(ConvOf(r), run[r].values)
<1>1. P \in offered /\ P.token \in approved
  BY ProposalFields DEF StartExecution, AtNode, ApprovalInv, ReadyIsApproved, ActivePcs
<1>2. /\ UNCHANGED <<ckpt, job, run, offered, approved>>
      /\ executed' = executed \cup {P}
      /\ pc[r] = "running" /\ pc'[r] = "executing"
      /\ \A q \in Reqs \ {r} : pc'[q] = pc[q]
  BY <1>0 DEF StartExecution, AtNode, TypeOK
<1> HIDE DEF P
<1>3. ExecutedAsApproved'
  BY <1>1, <1>2 DEF ApprovalInv, ExecutedAsApproved
<1>4. CheckStands(r) /\ ReadyIsApproved(r)
  BY DEF ApprovalInv
<1>5. CheckStands(r)'
  BY <1>2, <1>4 DEF CheckStands, CheckedPcs, ActivePcs
<1>6. ReadyIsApproved(r)'
  BY <1>2, <1>4 DEF ReadyIsApproved, ActivePcs, ConvOf
<1> QED
  BY <1>2, <1>3, <1>5, <1>6, ApprovalStep

\* The ends of a stream.
LEMMA ApprovalEnds ==
    ASSUME ApprovalInv, GuardInv, NEW r \in Reqs,
           \/ PauseForReview(r) \/ NodeRaises(r)
           \/ SynthesizeAnswer(r) \/ PersistAnswer(r)
    PROVE  ApprovalInv'
<1>0. TypeOK /\ ConvOf(r) \in Convs
  BY RunType DEF GuardInv
<1>1. UNCHANGED <<approved, executed>> /\ offered \subseteq offered'
  BY DEF PauseForReview, NodeRaises, SynthesizeAnswer, PersistAnswer, historyVars
<1>2. pc[r] \in GuardedPcs
  BY DEF PauseForReview, NodeRaises, SynthesizeAnswer, PersistAnswer, AtNode,
     GuardedPcs
<1>3. \A c \in Convs : ckpt'[c] = ckpt[c] \/ c = ConvOf(r)
  BY <1>0 DEF PauseForReview, NodeRaises, SynthesizeAnswer, PersistAnswer, Flush,
     TypeOK
<1>4. CASE Finish(r)
  BY <1>0, <1>1, <1>2, <1>3, <1>4, FinishLeaves, ApprovalQuiet
<1>5. CASE SynthesizeAnswer(r)
  <2>1. /\ \A q \in Reqs \ {r} : pc'[q] = pc[q] /\ run'[q] = run[q]
        /\ pc'[r] = "answering" /\ UNCHANGED job
    BY <1>0, <1>5 DEF SynthesizeAnswer, TypeOK
  <2>2. pc'[r] \notin CheckedPcs \cup ActivePcs
    BY <2>1 DEF CheckedPcs, ActivePcs
  <2> QED
    BY <1>1, <1>2, <1>3, <2>1, <2>2, ApprovalQuiet
<1> QED
  BY <1>4, <1>5 DEF PauseForReview, NodeRaises, PersistAnswer

LEMMA ApprovalNext ==
    ASSUME ~LockMayDrop, ReviewInv, GuardInv, ApprovalInv, [Next]_vars
    PROVE  ApprovalInv'
<1>1. CASE UNCHANGED vars \/ Housekeeping
  <2>1. UNCHANGED <<pc, job, run, ckpt, offered, approved, executed>>
    <3>1. CASE UNCHANGED vars
      BY <3>1 DEF vars, historyVars
    <3>2. CASE Housekeeping
      BY <3>2 DEF Housekeeping, CreateConversation, DeleteConversation,
         DeleteSource, SaveAnalysis, historyVars
    <3> QED
      BY <1>1, <3>1, <3>2
  <2> QED
    BY <2>1 DEF ApprovalInv, CheckStands, ReadyIsApproved, ExecutedAsApproved, ConvOf
<1>2. ASSUME NEW r \in Reqs, Arrive(r) \/ Advance(r) \/ Fail(r) PROVE ApprovalInv'
  <2>1. ~LoseLocks(r)
    BY DEF LoseLocks
  <2> QED
    BY <1>2, <2>1, ApprovalArrive, ApprovalGuard, ApprovalStart, ApprovalNodes,
       ApprovalDecide, ApprovalExecute, ApprovalEnds DEF Advance, Fail
<1> QED
  BY <1>1, <1>2 DEF Next

\* The inductive invariants hold together.
LEMMA AlwaysApprovalInv ==
    ASSUME ~LockMayDrop
    PROVE  Spec => [](ReviewInv /\ GuardInv /\ ApprovalInv)
<1>1. Init => ReviewInv /\ GuardInv /\ ApprovalInv
  BY ReviewInit, GuardInit, ApprovalInit
<1>2. ReviewInv /\ GuardInv /\ ApprovalInv /\ [Next]_vars
      => (ReviewInv /\ GuardInv /\ ApprovalInv)'
  BY ReviewNext, GuardNext, ApprovalNext
<1> QED
  BY <1>1, <1>2, PTL DEF Spec

\* As long as the guard keeps its locks, execute_sql sends nothing that was not
\* shown to the user of its conversation and approved under its own token: for
\* any number of users, conversations, requests and retries, and although a
\* review is checked on one snapshot of the thread and resumes a later one.
THEOREM NothingRunsUnapproved ==
    ASSUME ~LockMayDrop
    PROVE  Spec => []ExecutedAsApproved
BY AlwaysApprovalInv, PTL DEF ApprovalInv

-----------------------------------------------------------------------------
(* What a thread carries from node to node, whatever is lost or repeated:    *)
(* where stored answers and saved analyses come from.                        *)

(* The inductive invariant of what a thread carries *)

Finished == {"decide_next_step", "synthesize_answer", "end"}
CarryPcs == ActivePcs \cup {"answering"}

\* A question about a saved analysis carries that analysis' SQL and source.
BoundTo(c, aid, saved, source, rows) ==
    IF aid = NoAnalysis THEN saved = NoSql
    ELSE /\ aid \in Analyses /\ saved # NoSql /\ rows[aid] # Unsaved
         /\ rows[aid].user = Owner[c] /\ rows[aid].sql = saved
         /\ rows[aid].source \in {source, Gone}

\* A state that c's thread carries to node n: rows are those of its proposal, and
\* saved SQL is never retried.
Sound(c, s, n, ran, rows) ==
    /\ s.rows => n \in Finished /\ ProposalOf(c, s) \in ran
    /\ BoundTo(c, s.aid, s.saved, s.source, rows)
    /\ s.saved # NoSql => s.retry = 0 /\ n # "increment_retry"

ThreadsAreSound ==
    /\ \A c \in Convs : Sound(c, ckpt[c].values, ckpt[c].next, executed, analyses)
    /\ \A r \in Reqs : pc[r] \in CarryPcs =>
           Sound(ConvOf(r), run[r].values, run[r].at, executed, analyses)

ExecutingIsExecuted ==
    \A r \in Reqs : pc[r] = "executing" =>
        ProposalOf(ConvOf(r), run[r].values) \in executed

JobsAreBound ==
    \A r \in Reqs : pc[r] \in BusyPcs /\ job[r].kind = "chat" =>
        BoundTo(job[r].conv, job[r].aid, job[r].saved, job[r].source, analyses)

\* The proposals of saved analyses, and the answers and rows kept of executions.
MintedAsSaved(proposals, rows) ==
    \A p \in proposals : p.saved # NoSql =>
        /\ p.sql = p.saved
        /\ \E a \in Analyses : /\ rows[a] # Unsaved /\ rows[a].sql = p.saved
                               /\ rows[a].source \in {p.source, Gone}

AnswerHolds(c, m, ran) ==
    m.ok => \E p \in ran : /\ p.conv = c /\ p.sql = m.sql /\ p.source = m.source
                           /\ p.token = m.run

AnalysisHolds(row, ran) ==
    row # Unsaved =>
        \E p \in ran : /\ Owner[p.conv] = row.user /\ p.sql = row.sql
                       /\ p.token = row.run /\ row.source \in {p.source, Gone}

\* AnswersMatchExecution but for the approvals, which are ApprovalInv's.
AnswersOfRuns ==
    /\ \A c \in Convs : \A i \in DOMAIN messages[c] :
           AnswerHolds(c, messages[c][i], executed)
    /\ \A a \in Analyses : AnalysisHolds(analyses[a], executed)

SavedHasSql == \A a \in Analyses : analyses[a] # Unsaved => analyses[a].sql # NoSql

ThreadInv == ThreadsAreSound /\ ExecutingIsExecuted /\ JobsAreBound

RowsInv == SavedHasSql /\ AnswersOfRuns /\ SavedSqlIsImmutable

ProvInv == ReviewInv /\ ThreadInv /\ RowsInv

-----------------------------------------------------------------------------
(* Saved analyses *)

\* What happens to a saved analysis: its source is cleared, its rows replaced.
Kept(old, new) ==
    \A a \in Analyses : old[a] # Unsaved =>
        /\ new[a] # Unsaved /\ new[a].user = old[a].user /\ new[a].sql = old[a].sql
        /\ new[a].source \in {old[a].source, Gone}

LEMMA BoundStays ==
    ASSUME NEW old, NEW new, Kept(old, new),
           NEW c, NEW aid, NEW saved, NEW source, BoundTo(c, aid, saved, source, old)
    PROVE  BoundTo(c, aid, saved, source, new)
BY DEF Kept, BoundTo

LEMMA SoundStays ==
    ASSUME NEW old, NEW new, Kept(old, new), NEW ran, NEW now, ran \subseteq now,
           NEW c, NEW s, NEW n, Sound(c, s, n, ran, old)
    PROVE  Sound(c, s, n, now, new)
BY BoundStays DEF Sound

LEMMA KeptItself == Kept(analyses, analyses)
BY DEF Kept

LEMMA SavedSqlParts ==
    SavedSqlIsImmutable <=>
      /\ MintedAsSaved(minted, analyses)
      /\ \A c \in Convs : ckpt[c].values.saved # NoSql => ckpt[c].values.retry = 0
BY DEF SavedSqlIsImmutable, MintedAsSaved

LEMMA HoldsStays ==
    ASSUME NEW ran, NEW now, ran \subseteq now
    PROVE  /\ \A c, m : AnswerHolds(c, m, ran) => AnswerHolds(c, m, now)
           /\ \A row : AnalysisHolds(row, ran) => AnalysisHolds(row, now)
BY DEF AnswerHolds, AnalysisHolds

LEMMA MintedStays ==
    ASSUME NEW old, NEW new, Kept(old, new), NEW proposals, MintedAsSaved(proposals, old)
    PROVE  MintedAsSaved(proposals, new)
BY DEF Kept, MintedAsSaved

\* A step that stores neither answers nor analyses.
LEMMA RowsStay ==
    ASSUME ProvInv, UNCHANGED <<messages, analyses>>, executed \subseteq executed',
           MintedAsSaved(minted' \ minted, analyses),
           ThreadsAreSound'
    PROVE  RowsInv'
<1>1. SavedHasSql'
  BY DEF ProvInv, RowsInv, SavedHasSql
<1>2. MintedAsSaved(minted', analyses')
  BY SavedSqlParts DEF ProvInv, RowsInv, MintedAsSaved
<1>3. AnswersOfRuns'
  <2>1. \A c \in Convs : \A i \in DOMAIN messages[c] :
            AnswerHolds(c, messages[c][i], executed')
    BY HoldsStays DEF ProvInv, RowsInv, AnswersOfRuns
  <2>2. \A a \in Analyses : AnalysisHolds(analyses[a], executed')
    BY HoldsStays DEF ProvInv, RowsInv, AnswersOfRuns
  <2> QED
    BY <2>1, <2>2 DEF AnswersOfRuns
<1>4. SavedSqlIsImmutable'
  BY <1>2 DEF SavedSqlIsImmutable, MintedAsSaved, ThreadsAreSound, Sound
<1> QED
  BY <1>1, <1>3, <1>4 DEF RowsInv

-----------------------------------------------------------------------------
(* Threads *)

LEMMA ProvInit == Init => ProvInv
<1> SUFFICES ASSUME Init PROVE ProvInv
  OBVIOUS
<1>1. ThreadInv
  BY DEF Init, ThreadInv, ThreadsAreSound, ExecutingIsExecuted, JobsAreBound,
     Sound, BoundTo, EmptyState, CarryPcs, ActivePcs, BusyPcs, GuardedPcs
<1>2. AnswersOfRuns
  BY DEF Init, AnswersOfRuns, AnalysisHolds
<1>3. RowsInv
  BY <1>2 DEF Init, RowsInv, SavedHasSql, SavedSqlIsImmutable, EmptyState
<1> QED
  BY <1>1, <1>3, ReviewInit DEF ProvInv

\* A step that leaves threads alone, and only ends requests or moves them among
\* the states before the graph runs.
LEMMA ThreadsStay ==
    ASSUME ProvInv, TypeOK', Kept(analyses, analyses'), UNCHANGED <<ckpt, executed>>,
           \A r \in Reqs :
              \/ pc'[r] = "idle"
              \/ pc'[r] = pc[r] /\ job'[r] = job[r] /\ run'[r] = run[r]
              \/ /\ pc'[r] \notin CarryPcs /\ pc[r] \in BusyPcs
                 /\ job'[r] = job[r]
              \/ /\ pc'[r] = "queued"
                 /\ job'[r].kind = "chat" =>
                      BoundTo(job'[r].conv, job'[r].aid, job'[r].saved, job'[r].source,
                              analyses')
    PROVE  ThreadInv'
<1>1. /\ \A c \in Convs : Sound(c, ckpt[c].values, ckpt[c].next, executed, analyses)
      /\ \A r \in Reqs : pc[r] \in CarryPcs =>
             Sound(ConvOf(r), run[r].values, run[r].at, executed, analyses)
  BY DEF ProvInv, ThreadInv, ThreadsAreSound
<1>2. ThreadsAreSound'
  <2>1. \A c \in Convs : Sound(c, ckpt[c].values, ckpt[c].next, executed, analyses')
    BY <1>1, SoundStays
  <2>2. ASSUME NEW r \in Reqs, pc'[r] \in CarryPcs
        PROVE  Sound(job'[r].conv, run'[r].values, run'[r].at, executed, analyses')
    <3>1. pc'[r] = pc[r] /\ job'[r] = job[r] /\ run'[r] = run[r]
      BY <2>2 DEF CarryPcs, ActivePcs
    <3>2. Sound(job[r].conv, run[r].values, run[r].at, executed, analyses)
      BY <1>1, <2>2, <3>1 DEF ConvOf
    <3> QED
      BY <3>1, <3>2, SoundStays
  <2> QED
    BY <2>1, <2>2 DEF ThreadsAreSound, ConvOf
<1>3. ExecutingIsExecuted'
  BY DEF ProvInv, ThreadInv, ExecutingIsExecuted, CarryPcs, ActivePcs, ConvOf
<1>4. JobsAreBound'
  <2> SUFFICES ASSUME NEW r \in Reqs, pc'[r] \in BusyPcs, job'[r].kind = "chat"
               PROVE  BoundTo(job'[r].conv, job'[r].aid, job'[r].saved,
                              job'[r].source, analyses')
    BY DEF JobsAreBound
  <2>1. CASE pc[r] \in BusyPcs /\ job'[r] = job[r]
    <3>1. BoundTo(job[r].conv, job[r].aid, job[r].saved, job[r].source, analyses)
      BY <2>1 DEF ProvInv, ThreadInv, JobsAreBound
    <3> QED
      BY <2>1, <3>1, BoundStays
  <2> QED
    BY <2>1 DEF BusyPcs, GuardedPcs
<1> QED
  BY <1>2, <1>3, <1>4 DEF ThreadInv

\* A superstep of a running request, to a sound state.
LEMMA ThreadStep ==
    ASSUME ProvInv, ReviewInv', NEW r \in Reqs, NEW S, NEW n,
           Superstep(r, S, n), UNCHANGED <<messages, analyses, job, executed>>,
           pc[r] \in GuardedPcs, pc' = [pc EXCEPT ![r] = "running"],
           MintedAsSaved(minted' \ minted, analyses),
           Sound(ConvOf(r), S, n, executed, analyses)
    PROVE  ProvInv'
<1>0. TypeOK /\ ConvOf(r) \in Convs
  BY RunType DEF ProvInv, ReviewInv
<1>1. /\ run'[r] = [values |-> S, at |-> n, resume |-> FALSE]
      /\ \A q \in Reqs \ {r} : run'[q] = run[q] /\ pc'[q] = pc[q]
      /\ pc'[r] = "running"
  BY <1>0 DEF Superstep, TypeOK
<1>2. /\ \A c \in Convs \ {ConvOf(r)} : ckpt'[c] = ckpt[c]
      /\ \/ ckpt'[ConvOf(r)] = [values |-> S, next |-> n]
         \/ ckpt'[ConvOf(r)] = ckpt[ConvOf(r)]
  BY <1>0 DEF Superstep, TypeOK
<1>3. ThreadsAreSound'
  <2>1. \A c \in Convs : Sound(c, ckpt'[c].values, ckpt'[c].next, executed, analyses)
    BY <1>2 DEF ProvInv, ThreadInv, ThreadsAreSound
  <2>2. \A q \in Reqs : pc'[q] \in CarryPcs =>
            Sound(job[q].conv, run'[q].values, run'[q].at, executed, analyses)
    BY <1>1 DEF ProvInv, ThreadInv, ThreadsAreSound, ConvOf
  <2> QED
    BY <2>1, <2>2 DEF ThreadsAreSound, ConvOf
<1>4. ExecutingIsExecuted'
  BY <1>1 DEF ProvInv, ThreadInv, ExecutingIsExecuted, ConvOf
<1>5. JobsAreBound'
  <2>1. \A q \in Reqs : pc'[q] \in BusyPcs => pc[q] \in BusyPcs
    BY <1>1 DEF BusyPcs
  <2> QED
    BY <2>1 DEF ProvInv, ThreadInv, JobsAreBound
<1>6. RowsInv'
  BY <1>3, RowsStay
<1> QED
  BY <1>3, <1>4, <1>5, <1>6 DEF ProvInv, ThreadInv

-----------------------------------------------------------------------------
(* Housekeeping, requests that arrive, and the guard *)

LEMMA SourceGoneKept ==
    ASSUME TypeOK, NEW s \in Sources, DeleteSource(s)
    PROVE  Kept(analyses, analyses')
<1>1. \A a \in Analyses : analyses[a] # Unsaved =>
          /\ [analyses[a] EXCEPT !.source = Gone] \in Analysis
          /\ analyses[a] \in Analysis
  BY DEF TypeOK, Analysis
<1> QED
  BY <1>1, UnsavedAssumption DEF DeleteSource, Kept, Analysis

LEMMA ProvHousekeeping ==
    ASSUME ProvInv, ReviewInv', Housekeeping
    PROVE  ProvInv'
<1>0. TypeOK /\ TypeOK'
  BY DEF ProvInv, ReviewInv
<1>1. /\ UNCHANGED <<ckpt, executed, minted, pc, job, run>>
      /\ minted' \ minted = {}
  BY DEF Housekeeping, CreateConversation, DeleteConversation, DeleteSource,
         SaveAnalysis, historyVars
<1>2. CASE \E c \in Convs : CreateConversation(c)
  <2>1. UNCHANGED <<messages, analyses>>
    BY <1>2 DEF CreateConversation
  <2>2. ThreadInv'
    BY <1>0, <1>1, <2>1, KeptItself, ThreadsStay
  <2>3. RowsInv'
    BY <1>1, <2>1, <2>2, RowsStay DEF ThreadInv, MintedAsSaved
  <2> QED
    BY <2>2, <2>3 DEF ProvInv
<1>3. CASE \E c \in Convs : DeleteConversation(c)
  <2> PICK c \in Convs : DeleteConversation(c)
    BY <1>3
  <2>1. UNCHANGED analyses /\ messages' = [messages EXCEPT ![c] = <<>>]
    BY DEF DeleteConversation
  <2>2. ThreadInv'
    BY <1>0, <1>1, <2>1, KeptItself, ThreadsStay
  <2>3. \A d \in Convs : \A i \in DOMAIN messages'[d] :
            i \in DOMAIN messages[d] /\ messages'[d][i] = messages[d][i]
    BY <1>0, <2>1 DEF TypeOK
  <2>4. AnswersOfRuns' /\ SavedHasSql'
    BY <1>1, <2>1, <2>3 DEF ProvInv, RowsInv, AnswersOfRuns, SavedHasSql
  <2>5. SavedSqlIsImmutable'
    BY <1>1, <2>1 DEF ProvInv, RowsInv, SavedSqlIsImmutable
  <2> QED
    BY <2>2, <2>4, <2>5 DEF ProvInv, RowsInv
<1>4. CASE \E s \in Sources : DeleteSource(s)
  <2> PICK s \in Sources : DeleteSource(s)
    BY <1>4
  <2>1. Kept(analyses, analyses') /\ UNCHANGED messages
    BY <1>0, SourceGoneKept DEF DeleteSource
  <2>2. ThreadInv'
    BY <1>0, <1>1, <2>1, ThreadsStay
  <2>3. ASSUME NEW a \in Analyses, analyses'[a] # Unsaved
        PROVE  /\ analyses[a] # Unsaved
               /\ analyses'[a].run = analyses[a].run
               /\ analyses'[a].user = analyses[a].user
               /\ analyses'[a].sql = analyses[a].sql
               /\ analyses'[a].source \in {analyses[a].source, Gone}
    BY <1>0, <2>3 DEF DeleteSource, TypeOK, Analysis
  <2>4. SavedHasSql'
    BY <2>3 DEF ProvInv, RowsInv, SavedHasSql
  <2>5. AnswersOfRuns'
    <3>1. \A a \in Analyses : AnalysisHolds(analyses'[a], executed)
      BY <2>3 DEF ProvInv, RowsInv, AnswersOfRuns, AnalysisHolds
    <3>2. \A c \in Convs : \A i \in DOMAIN messages[c] :
              AnswerHolds(c, messages[c][i], executed)
      BY DEF ProvInv, RowsInv, AnswersOfRuns
    <3> QED
      BY <1>1, <2>1, <3>1, <3>2 DEF AnswersOfRuns
  <2>6. SavedSqlIsImmutable'
    <3>1. MintedAsSaved(minted, analyses')
      BY <2>1, SavedSqlParts, MintedStays DEF ProvInv, RowsInv
    <3>2. \A c \in Convs : ckpt[c].values.saved # NoSql => ckpt[c].values.retry = 0
      BY SavedSqlParts DEF ProvInv, RowsInv
    <3> QED
      BY <1>1, <3>1, <3>2 DEF SavedSqlIsImmutable, MintedAsSaved
  <2> QED
    BY <2>2, <2>4, <2>5, <2>6 DEF ProvInv, RowsInv
<1>5. CASE \E c \in Convs, a \in Analyses :
             \E i \in DOMAIN messages[c] : SaveAnalysis(c, i, a)
  <2> PICK c \in Convs, a \in Analyses :
             \E i \in DOMAIN messages[c] : SaveAnalysis(c, i, a)
    BY <1>5
  <2> PICK i \in DOMAIN messages[c] : SaveAnalysis(c, i, a)
    OBVIOUS
  <2> DEFINE m == messages[c][i]
  <2>1. /\ analyses[a] = Unsaved /\ m.ok /\ m.sql # NoSql
        /\ analyses' = [analyses EXCEPT ![a] =
                [user |-> Owner[c], sql |-> m.sql, source |-> m.source, run |-> m.run]]
        /\ UNCHANGED messages
    BY DEF SaveAnalysis
  <2>2. \A b \in Analyses \ {a} : analyses'[b] = analyses[b]
    BY <1>0, <2>1 DEF TypeOK
  <2>3. analyses'[a] = [user |-> Owner[c], sql |-> m.sql, source |-> m.source,
                        run |-> m.run]
    BY <1>0, <2>1 DEF TypeOK
  <2>4. AnswerHolds(c, m, executed)
    BY DEF ProvInv, RowsInv, AnswersOfRuns
  <2> HIDE DEF m
  <2>5. AnalysisHolds(analyses'[a], executed)
    BY <2>1, <2>3, <2>4 DEF AnswerHolds, AnalysisHolds
  <2>6. Kept(analyses, analyses')
    BY <2>1, <2>2 DEF Kept
  <2>7. ThreadInv'
    BY <1>0, <1>1, <2>6, ThreadsStay
  <2>8. SavedHasSql'
    BY <2>1, <2>2, <2>3 DEF ProvInv, RowsInv, SavedHasSql
  <2>9. AnswersOfRuns'
    <3>1. \A b \in Analyses : AnalysisHolds(analyses'[b], executed)
      BY <2>2, <2>5 DEF ProvInv, RowsInv, AnswersOfRuns
    <3>2. \A d \in Convs : \A j \in DOMAIN messages[d] :
              AnswerHolds(d, messages[d][j], executed)
      BY DEF ProvInv, RowsInv, AnswersOfRuns
    <3> QED
      BY <1>1, <2>1, <3>1, <3>2 DEF AnswersOfRuns
  <2>10. SavedSqlIsImmutable'
    <3>1. MintedAsSaved(minted, analyses')
      BY <2>6, SavedSqlParts, MintedStays DEF ProvInv, RowsInv
    <3>2. \A d \in Convs : ckpt[d].values.saved # NoSql => ckpt[d].values.retry = 0
      BY SavedSqlParts DEF ProvInv, RowsInv
    <3> QED
      BY <1>1, <3>1, <3>2 DEF SavedSqlIsImmutable, MintedAsSaved
  <2> QED
    BY <2>7, <2>8, <2>9, <2>10 DEF ProvInv, RowsInv
<1> QED
  BY <1>2, <1>3, <1>4, <1>5 DEF Housekeeping

LEMMA ProvAccept ==
    ASSUME ProvInv, ReviewInv', NEW r \in Reqs, pc[r] = "idle", NEW c \in Convs,
           NEW source, NEW aid, NEW saved, NEW hasKey \in BOOLEAN,
           BoundTo(c, aid, saved, source, analyses),
           AcceptQuestion(r, c, source, aid, saved, hasKey)
    PROVE  ProvInv'
<1>0. TypeOK /\ TypeOK'
  BY DEF ProvInv, ReviewInv
<1>1. /\ UNCHANGED <<ckpt, executed, minted, analyses, run>>
      /\ minted' \ minted = {}
  BY DEF AcceptQuestion, historyVars
<1>2. CASE hasKey
  <2>1. pc' = [pc EXCEPT ![r] = "queued"]
    BY <1>2 DEF AcceptQuestion
  <2>2. /\ job'[r] = [NoJob EXCEPT !.kind = "chat", !.conv = c, !.source = source,
                                   !.aid = aid, !.saved = saved]
        /\ \A q \in Reqs \ {r} : job'[q] = job[q]
    BY <1>0, <1>2 DEF AcceptQuestion, TypeOK
  <2>3. BoundTo(job'[r].conv, job'[r].aid, job'[r].saved, job'[r].source, analyses')
    BY <1>1, <2>2 DEF NoJob
  <2>4. ThreadInv'
    BY <1>0, <1>1, <2>1, <2>2, <2>3, KeptItself, ThreadsStay DEF TypeOK
  <2>5. \A d \in Convs : \A i \in DOMAIN messages'[d] :
            AnswerHolds(d, messages'[d][i], executed)
    <3>1. messages' = [messages EXCEPT ![c] = Append(@, UserMessage)]
      BY <1>2 DEF AcceptQuestion
    <3>2. \A d \in Convs \ {c} : messages'[d] = messages[d]
      BY <1>0, <3>1 DEF TypeOK
    <3>3. messages[c] \in Seq(Message) /\ messages'[c] = Append(messages[c], UserMessage)
      BY <1>0, <3>1 DEF TypeOK
    <3>4. \A i \in DOMAIN messages'[c] :
              \/ i \in DOMAIN messages[c] /\ messages'[c][i] = messages[c][i]
              \/ messages'[c][i] = UserMessage
      BY <3>3
    <3>5. AnswerHolds(c, UserMessage, executed)
      BY DEF AnswerHolds, UserMessage
    <3>6. \A d \in Convs : \A i \in DOMAIN messages[d] :
              AnswerHolds(d, messages[d][i], executed)
      BY DEF ProvInv, RowsInv, AnswersOfRuns
    <3> QED
      BY <3>2, <3>4, <3>5, <3>6
  <2>6. AnswersOfRuns' /\ SavedHasSql'
    <3>1. \A a \in Analyses : AnalysisHolds(analyses[a], executed)
      BY DEF ProvInv, RowsInv, AnswersOfRuns
    <3> QED
      BY <1>1, <2>5, <3>1 DEF AnswersOfRuns,
         ProvInv, RowsInv, SavedHasSql
  <2>7. SavedSqlIsImmutable'
    BY <1>1 DEF ProvInv, RowsInv, SavedSqlIsImmutable
  <2> QED
    BY <2>4, <2>6, <2>7 DEF ProvInv, RowsInv
<1>3. CASE ~hasKey
  <2>1. UNCHANGED <<messages, pc, job>>
    BY <1>3 DEF AcceptQuestion
  <2>2. ThreadInv'
    BY <1>0, <1>1, <2>1, KeptItself, ThreadsStay
  <2>3. RowsInv'
    BY <1>1, <2>1, <2>2, RowsStay DEF ThreadInv, MintedAsSaved
  <2> QED
    BY <2>2, <2>3 DEF ProvInv
<1> QED
  BY <1>2, <1>3

\* A step that stores nothing and moves a request as ThreadsStay allows.
LEMMA ProvQuiet ==
    ASSUME ProvInv, ReviewInv',
           UNCHANGED <<ckpt, messages, analyses, executed, minted>>,
           \A r \in Reqs :
              \/ pc'[r] = "idle"
              \/ pc'[r] = pc[r] /\ job'[r] = job[r] /\ run'[r] = run[r]
              \/ /\ pc'[r] \notin CarryPcs /\ pc[r] \in BusyPcs
                 /\ job'[r] = job[r]
              \/ /\ pc'[r] = "queued"
                 /\ job'[r].kind = "chat" =>
                      BoundTo(job'[r].conv, job'[r].aid, job'[r].saved, job'[r].source,
                              analyses')
    PROVE  ProvInv'
<1>1. ThreadInv'
  BY KeptItself, ThreadsStay DEF ReviewInv
<1>2. minted' \ minted = {}
  OBVIOUS
<1>3. RowsInv'
  BY <1>1, <1>2, RowsStay DEF ThreadInv, MintedAsSaved
<1> QED
  BY <1>1, <1>3 DEF ProvInv

LEMMA ProvArrive ==
    ASSUME ProvInv, ReviewInv', NEW r \in Reqs, Arrive(r)
    PROVE  ProvInv'
<1>0. TypeOK
  BY DEF ProvInv, ReviewInv
<1>1. \A c, source : BoundTo(c, NoAnalysis, NoSql, source, analyses)
  BY DEF BoundTo
<1>2. CASE \E c \in Convs, hasKey \in BOOLEAN :
             \/ \E source \in AnySource : AskInNewConversation(r, c, source, hasKey)
             \/ AskInConversation(r, c, hasKey)
  BY <1>1, <1>2, ProvAccept DEF AskInNewConversation, AskInConversation
<1>3. CASE \E c \in Convs, hasKey \in BOOLEAN, a \in Analyses :
             RunAnalysis(r, c, a, hasKey)
  <2> PICK c \in Convs, hasKey \in BOOLEAN, a \in Analyses : RunAnalysis(r, c, a, hasKey)
    BY <1>3
  <2>1. a # NoAnalysis /\ analyses[a].sql # NoSql
    BY GraphAssumption DEF RunAnalysis, ProvInv, RowsInv, SavedHasSql
  <2>2. BoundTo(c, a, analyses[a].sql, analyses[a].source, analyses)
    BY <2>1 DEF RunAnalysis, BoundTo
  <2> QED
    BY <2>2, ProvAccept DEF RunAnalysis
<1>4. CASE \E p \in offered, approve \in BOOLEAN :
             SubmitReview(r, p.conv, p.token, approve)
  <2> PICK p \in offered, approve \in BOOLEAN :
             SubmitReview(r, p.conv, p.token, approve)
    BY <1>4
  <2>1. UNCHANGED <<ckpt, messages, analyses, executed, minted, run>>
    BY DEF SubmitReview, dbVars, historyVars
  <2>2. pc' = [pc EXCEPT ![r] = "queued"] /\ job'[r].kind = "review"
    BY <1>0 DEF SubmitReview, TypeOK, NoJob
  <2>3. \A q \in Reqs \ {r} : job'[q] = job[q]
    BY <1>0 DEF SubmitReview, TypeOK
  <2> QED
    BY <1>0, <2>1, <2>2, <2>3, ProvQuiet DEF TypeOK
<1> QED
  BY <1>2, <1>3, <1>4 DEF Arrive

LEMMA ProvGuard ==
    ASSUME ProvInv, ReviewInv', NEW r \in Reqs,
           \/ TakeUserLock(r) \/ TakeConvLock(r) \/ LoseLocks(r)
           \/ OverBudget(r) \/ Abort(r)
    PROVE  ProvInv'
<1>0. TypeOK
  BY DEF ProvInv, ReviewInv
<1>1. UNCHANGED <<ckpt, messages, analyses, executed, minted>>
  BY DEF TakeUserLock, TakeConvLock, LoseLocks, OverBudget, Abort, dbVars, historyVars
<1>2. CASE Finish(r)
  BY <1>0, <1>1, <1>2, FinishIsQuiet, ProvQuiet
<1>3. CASE LoseLocks(r)
  BY <1>1, <1>3, ProvQuiet DEF LoseLocks
<1>4. CASE (TakeUserLock(r) \/ TakeConvLock(r)) /\ ~Finish(r)
  <2>1. /\ pc[r] \in BusyPcs
        /\ pc' = [pc EXCEPT ![r] = "userLocked"] \/ pc' = [pc EXCEPT ![r] = "guarded"]
        /\ UNCHANGED <<job, run>>
    BY <1>4 DEF TakeUserLock, TakeConvLock, BusyPcs, GuardedPcs
  <2> QED
    BY <1>0, <1>1, <2>1, ProvQuiet DEF TypeOK, CarryPcs, ActivePcs
<1> QED
  BY <1>2, <1>3, <1>4 DEF OverBudget, Abort

-----------------------------------------------------------------------------
(* The nodes *)

\* What a node makes of a sound state is sound at the node it leads to.
LEMMA NodesAreSound ==
    ASSUME NEW c \in Convs, NEW s \in AgentState, NEW n, NEW ran, NEW rows,
           Sound(c, s, n, ran, rows)
    PROVE  /\ \A to \in Nodes \ {"increment_retry"} :
                  n \in Finished /\ to \in Finished => Sound(c, s, to, ran, rows)
           /\ n = "table_selector" => Sound(c, s, "generate_sql", ran, rows)
           /\ \A answer, token : n = "generate_sql" =>
                  Sound(c, Generated(s, answer, token), "validate_sql", ran, rows)
           /\ \A ok \in BOOLEAN : n = "validate_sql" =>
                  LET t == Validated(s, ok) IN Sound(c, t, AfterValidate(t), ran, rows)
           /\ \A ok \in BOOLEAN : n = "human_review" =>
                  LET t == Reviewed(s, ok) IN Sound(c, t, AfterReview(t), ran, rows)
           /\ \A ok \in BOOLEAN : ProposalOf(c, s) \in ran =>
                  LET t == Executed(s, ok) IN Sound(c, t, AfterExecute(t), ran, rows)
           /\ n = "increment_retry" => Sound(c, Retried(s), "generate_sql", ran, rows)
<1>1. \A to \in Nodes \ {"increment_retry"} :
          n \in Finished /\ to \in Finished => Sound(c, s, to, ran, rows)
  BY DEF Sound, Finished
<1>2. n = "table_selector" => Sound(c, s, "generate_sql", ran, rows)
  BY DEF Sound, Finished
<1>3. ASSUME NEW answer, NEW token, n = "generate_sql"
      PROVE  Sound(c, Generated(s, answer, token), "validate_sql", ran, rows)
  BY <1>3 DEF Sound, Finished, Generated, AgentState
<1>4. ASSUME NEW ok \in BOOLEAN, n = "validate_sql"
      PROVE  Sound(c, Validated(s, ok), AfterValidate(Validated(s, ok)), ran, rows)
  <2> DEFINE t == Validated(s, ok)
  <2>0. t \in AgentState
    BY ValidatedType
  <2>1. /\ t.rows = s.rows /\ t.aid = s.aid /\ t.saved = s.saved
        /\ t.source = s.source /\ t.retry = s.retry
    BY DEF Validated, AgentState
  <2>2. t.saved # NoSql => AfterValidate(t) # "increment_retry"
    BY <2>0 DEF AfterValidate, HasSavedSql, AgentState
  <2> HIDE DEF t
  <2>3. Sound(c, t, AfterValidate(t), ran, rows)
    BY <1>4, <2>1, <2>2 DEF Sound, Finished
  <2> QED
    BY <2>3 DEF t
<1>5. ASSUME NEW ok \in BOOLEAN, n = "human_review"
      PROVE  Sound(c, Reviewed(s, ok), AfterReview(Reviewed(s, ok)), ran, rows)
  <2> DEFINE t == Reviewed(s, ok)
  <2>0. t \in AgentState
    BY ReviewedType
  <2>1. /\ t.rows = s.rows /\ t.aid = s.aid /\ t.saved = s.saved
        /\ t.source = s.source /\ t.retry = s.retry
    BY DEF Reviewed, AgentState
  <2>2. t.saved # NoSql => AfterReview(t) # "increment_retry"
    BY <2>0 DEF AfterReview, HasSavedSql, AgentState
  <2> HIDE DEF t
  <2>3. Sound(c, t, AfterReview(t), ran, rows)
    BY <1>5, <2>1, <2>2 DEF Sound, Finished
  <2> QED
    BY <2>3 DEF t
<1>6. ASSUME NEW ok \in BOOLEAN, ProposalOf(c, s) \in ran
      PROVE  Sound(c, Executed(s, ok), AfterExecute(Executed(s, ok)), ran, rows)
  <2> DEFINE t == Executed(s, ok)
  <2>1. /\ t \in AgentState /\ t.rows = ok /\ t.eerr = ~ok /\ t.aid = s.aid
        /\ t.saved = s.saved /\ t.source = s.source /\ t.retry = s.retry
    BY ZenonT(30), ExecutedType DEF Executed, AgentState
  <2>2. ProposalOf(c, t) = ProposalOf(c, s)
    BY DEF ProposalOf, Executed, AgentState
  <2>3. t.saved # NoSql => AfterExecute(t) # "increment_retry"
    BY <2>1 DEF AfterExecute, HasSavedSql, AgentState
  <2>4. ok => AfterExecute(t) = "decide_next_step"
    BY <2>1 DEF AfterExecute, AgentState
  <2> HIDE DEF t
  <2>5. Sound(c, t, AfterExecute(t), ran, rows)
    BY <1>6, <2>1, <2>2, <2>3, <2>4 DEF Sound, Finished
  <2> QED
    BY <2>5 DEF t
<1>7. ASSUME n = "increment_retry" PROVE Sound(c, Retried(s), "generate_sql", ran, rows)
  BY <1>7 DEF Sound, Finished, Retried, AgentState
<1> QED
  BY <1>1, <1>2, <1>3, <1>4, <1>5, <1>6, <1>7

LEMMA ProvStart ==
    ASSUME ProvInv, ReviewInv', NEW r \in Reqs,
           \/ StartQuestion(r) \/ CheckReview(r) \/ CheckSource(r) \/ ResumeReview(r)
    PROVE  ProvInv'
<1>0. TypeOK /\ TypeOK' /\ ConvOf(r) \in Convs
  BY RunType DEF ProvInv, ReviewInv
<1>1. CASE StartQuestion(r)
  <2> DEFINE S == InitialState(ckpt[ConvOf(r)].values, job[r].source,
                               job[r].aid, job[r].saved)
  <2>1. /\ Superstep(r, S, "table_selector")
        /\ UNCHANGED <<messages, analyses, job, executed, minted>>
        /\ pc[r] \in GuardedPcs /\ pc' = [pc EXCEPT ![r] = "running"]
        /\ minted' \ minted = {}
    BY <1>1 DEF StartQuestion, dbVars, GuardedPcs
  <2>2. BoundTo(ConvOf(r), job[r].aid, job[r].saved, job[r].source, analyses)
    BY <1>1 DEF StartQuestion, ProvInv, ThreadInv, JobsAreBound, ConvOf, BusyPcs, GuardedPcs
  <2>3. Sound(ConvOf(r), S, "table_selector", executed, analyses)
    BY <2>2 DEF Sound, InitialState, EmptyState
  <2>4. MintedAsSaved(minted' \ minted, analyses)
    BY <2>1 DEF MintedAsSaved
  <2> HIDE DEF S
  <2> QED
    BY <2>1, <2>3, <2>4, ThreadStep
<1>2. CASE CheckReview(r) \/ CheckSource(r)
  <2>1. UNCHANGED <<ckpt, messages, analyses, executed, minted>>
    BY <1>2 DEF CheckReview, CheckSource, dbVars, historyVars
  <2>2. CASE Finish(r)
    BY <1>0, <2>1, <2>2, FinishIsQuiet, ProvQuiet
  <2>3. CASE ~Finish(r)
    <3>1. /\ pc[r] \in GuardedPcs /\ pc'[r] \in CheckedPcs
          /\ \A q \in Reqs \ {r} : pc'[q] = pc[q] /\ run'[q] = run[q]
          /\ UNCHANGED job
      BY <1>0, <1>2, <2>3, CheckIsQuiet
    <3>2. pc[r] \in BusyPcs /\ pc'[r] \notin CarryPcs
      BY <3>1 DEF BusyPcs, CarryPcs, ActivePcs, CheckedPcs
    <3> QED
      BY <2>1, <3>1, <3>2, ProvQuiet
  <2> QED
    BY <2>2, <2>3
<1>3. CASE ResumeReview(r)
  <2>1. UNCHANGED <<ckpt, job, messages, analyses, executed, minted>>
    BY <1>3 DEF ResumeReview, dbVars, historyVars
  <2>2. /\ \A q \in Reqs \ {r} : run'[q] = run[q] /\ pc'[q] = pc[q]
        /\ pc[r] \in GuardedPcs /\ pc'[r] \in {"running", "answering"}
        /\ \/ run'[r] = NoRun
           \/ run'[r] = [values |-> ckpt[ConvOf(r)].values,
                         at |-> ckpt[ConvOf(r)].next, resume |-> TRUE]
    BY <1>0, <1>3, ResumeRuns
  <2>3. Sound(ConvOf(r), run'[r].values, run'[r].at, executed, analyses)
    <3>1. CASE run'[r] = NoRun
      BY <3>1 DEF NoRun, Sound, BoundTo, EmptyState
    <3>2. CASE run'[r] = [values |-> ckpt[ConvOf(r)].values,
                          at |-> ckpt[ConvOf(r)].next, resume |-> TRUE]
      BY <1>0, <3>2 DEF ProvInv, ThreadInv, ThreadsAreSound
    <3> QED
      BY <2>2, <3>1, <3>2
  <2>4. ThreadsAreSound'
    <3>1. \A q \in Reqs : pc'[q] \in CarryPcs =>
              Sound(job[q].conv, run'[q].values, run'[q].at, executed, analyses)
      BY <2>2, <2>3 DEF ProvInv, ThreadInv, ThreadsAreSound, ConvOf
    <3>2. \A c \in Convs : Sound(c, ckpt[c].values, ckpt[c].next, executed, analyses)
      BY DEF ProvInv, ThreadInv, ThreadsAreSound
    <3> QED
      BY <2>1, <3>1, <3>2 DEF ThreadsAreSound, ConvOf
  <2>5. ExecutingIsExecuted'
    BY <2>1, <2>2 DEF ProvInv, ThreadInv, ExecutingIsExecuted, ConvOf
  <2>6. JobsAreBound'
    <3>1. \A q \in Reqs : pc'[q] \in BusyPcs => pc[q] \in BusyPcs
      BY <2>1, <2>2 DEF BusyPcs
    <3> QED
      BY <2>1, <3>1 DEF ProvInv, ThreadInv, JobsAreBound
  <2>7. RowsInv'
    <3>1. minted' \ minted = {}
      BY <2>1
    <3> QED
      BY <2>1, <2>4, <3>1, RowsStay DEF MintedAsSaved
  <2> QED
    BY <2>4, <2>5, <2>6, <2>7 DEF ProvInv, ThreadInv
<1> QED
  BY <1>1, <1>2, <1>3

LEMMA ProvGenerate ==
    ASSUME ProvInv, ReviewInv', NEW r \in Reqs, GenerateSql(r)
    PROVE  ProvInv'
<1>0. TypeOK /\ ConvOf(r) \in Convs /\ run[r].values \in AgentState
  BY RunType DEF ProvInv, ReviewInv
<1> PICK answer \in Queries \cup {CannotAnswer} :
       LET s == Generated(run[r].values, answer, issued + 1) IN
       /\ Superstep(r, s, "validate_sql")
       /\ minted' = minted \cup {ProposalOf(ConvOf(r), s)}
  BY DEF GenerateSql
<1> DEFINE s == run[r].values
           S == Generated(s, answer, issued + 1)
           P == ProposalOf(ConvOf(r), S)
<1>1. /\ UNCHANGED <<messages, analyses, job, executed>>
      /\ pc[r] = "running" /\ run[r].at = "generate_sql"
      /\ UNCHANGED pc
  BY DEF GenerateSql, dbVars, AtNode
<1>2. Sound(ConvOf(r), s, "generate_sql", executed, analyses)
  BY <1>1 DEF ProvInv, ThreadInv, ThreadsAreSound, CarryPcs, ActivePcs
<1>3. Sound(ConvOf(r), S, "validate_sql", executed, analyses)
  BY <1>0, <1>2, NodesAreSound
<1>4. /\ P.saved = s.saved /\ P.source = s.source
      /\ P.saved # NoSql => P.sql = P.saved
  BY <1>0 DEF Generated, ProposalOf, AgentState, HasSavedSql
<1>5. Superstep(r, S, "validate_sql") /\ minted' = minted \cup {P}
  OBVIOUS
<1> HIDE DEF s, S, P
<1>6. MintedAsSaved(minted' \ minted, analyses)
  BY <1>2, <1>4, <1>5 DEF MintedAsSaved, Sound, BoundTo
<1>7. pc' = [pc EXCEPT ![r] = "running"] /\ pc[r] \in GuardedPcs
  BY <1>0, <1>1 DEF TypeOK, GuardedPcs
<1> QED
  BY <1>1, <1>3, <1>5, <1>6, <1>7, ThreadStep

LEMMA ProvNodes ==
    ASSUME ProvInv, ReviewInv', NEW r \in Reqs,
           \/ TableSelector(r) \/ ValidateSql(r) \/ Decide(r) \/ FinishExecution(r)
           \/ DecideNextStep(r) \/ IncrementRetry(r)
    PROVE  ProvInv'
<1> DEFINE s == run[r].values
<1>0. TypeOK /\ ConvOf(r) \in Convs /\ s \in AgentState /\ job[r].approve \in BOOLEAN
  BY RunType DEF ProvInv, ReviewInv
<1>1. /\ UNCHANGED <<messages, analyses, job, executed, minted>>
      /\ minted' \ minted = {}
      /\ pc[r] \in {"running", "executing"} /\ pc' = [pc EXCEPT ![r] = "running"]
  BY <1>0 DEF TableSelector, ValidateSql, Decide, FinishExecution, DecideNextStep,
     IncrementRetry, dbVars, historyVars, AtNode, TypeOK
<1>2. Sound(ConvOf(r), s, run[r].at, executed, analyses)
  BY <1>1 DEF ProvInv, ThreadInv, ThreadsAreSound, CarryPcs, ActivePcs
<1>3. ASSUME NEW S, NEW n, Superstep(r, S, n),
             Sound(ConvOf(r), S, n, executed, analyses)
      PROVE  ProvInv'
  BY <1>1, <1>3, ThreadStep DEF MintedAsSaved, GuardedPcs
<1> HIDE DEF s
<1>4. CASE TableSelector(r)
  BY <1>0, <1>2, <1>3, <1>4, NodesAreSound DEF TableSelector, AtNode, s
<1>5. CASE ValidateSql(r)
  <2> PICK ok \in BOOLEAN : Superstep(r, Validated(s, ok), AfterValidate(Validated(s, ok)))
    BY <1>5 DEF ValidateSql, s
  <2>1. run[r].at = "validate_sql"
    BY <1>5 DEF ValidateSql, AtNode
  <2>2. Sound(ConvOf(r), Validated(s, ok), AfterValidate(Validated(s, ok)), executed, analyses)
    BY <1>0, <1>2, <2>1, NodesAreSound
  <2> QED
    BY <1>3, <2>2
<1>6. CASE Decide(r)
  <2> DEFINE S == Reviewed(s, job[r].approve)
  <2>1. Superstep(r, S, AfterReview(S)) /\ run[r].at = "human_review"
    BY <1>6 DEF Decide, AtNode, s
  <2>2. Sound(ConvOf(r), S, AfterReview(S), executed, analyses)
    BY <1>0, <1>2, <2>1, NodesAreSound
  <2> QED
    BY <1>3, <2>1, <2>2
<1>7. CASE FinishExecution(r)
  <2> PICK ok \in BOOLEAN : Superstep(r, Executed(s, ok), AfterExecute(Executed(s, ok)))
    BY <1>7 DEF FinishExecution, s
  <2>1. ProposalOf(ConvOf(r), s) \in executed
    BY <1>7 DEF FinishExecution, ProvInv, ThreadInv, ExecutingIsExecuted, s
  <2>2. Sound(ConvOf(r), Executed(s, ok), AfterExecute(Executed(s, ok)), executed, analyses)
    BY <1>0, <1>2, <2>1, NodesAreSound
  <2> QED
    BY <1>3, <2>2
<1>8. CASE DecideNextStep(r)
  <2>1. Superstep(r, s, "synthesize_answer") /\ run[r].at = "decide_next_step"
    BY <1>8 DEF DecideNextStep, AfterDecide, AtNode, s
  <2>2. Sound(ConvOf(r), s, "synthesize_answer", executed, analyses)
    BY <1>0, <1>2, <2>1, NodesAreSound DEF Finished, Nodes
  <2> QED
    BY <1>3, <2>1, <2>2
<1>9. CASE IncrementRetry(r)
  <2>1. Superstep(r, Retried(s), "generate_sql") /\ run[r].at = "increment_retry"
    BY <1>9 DEF IncrementRetry, AtNode, s
  <2>2. Sound(ConvOf(r), Retried(s), "generate_sql", executed, analyses)
    BY <1>0, <1>2, <2>1, NodesAreSound
  <2> QED
    BY <1>3, <2>1, <2>2
<1> QED
  BY <1>4, <1>5, <1>6, <1>7, <1>8, <1>9

\* A request that leaves its stream: the thread keeps the run's last state.
LEMMA ProvLeave ==
    ASSUME ProvInv, ReviewInv', NEW r \in Reqs, PauseForReview(r) \/ NodeRaises(r)
    PROVE  ProvInv'
<1>0. TypeOK /\ TypeOK' /\ ConvOf(r) \in Convs
  BY RunType DEF ProvInv, ReviewInv
<1>1. /\ Flush(r) /\ Finish(r) /\ pc[r] = "running"
      /\ UNCHANGED <<messages, analyses, executed, minted>>
      /\ minted' \ minted = {}
  BY DEF PauseForReview, NodeRaises, AtNode, dbVars, historyVars
<1>2. \A q \in Reqs : \/ pc'[q] = "idle"
                      \/ pc'[q] = pc[q] /\ job'[q] = job[q] /\ run'[q] = run[q]
  BY <1>0, <1>1, FinishIsQuiet
<1>3. /\ \A c \in Convs \ {ConvOf(r)} : ckpt'[c] = ckpt[c]
      /\ ckpt'[ConvOf(r)] = [values |-> run[r].values, next |-> run[r].at]
  BY <1>0, <1>1 DEF Flush, CheckpointOf, TypeOK
<1>4. ThreadsAreSound'
  <2>1. Sound(ConvOf(r), run[r].values, run[r].at, executed, analyses)
    BY <1>1 DEF ProvInv, ThreadInv, ThreadsAreSound, CarryPcs, ActivePcs
  <2>2. \A c \in Convs : Sound(c, ckpt'[c].values, ckpt'[c].next, executed, analyses)
    BY <1>3, <2>1 DEF ProvInv, ThreadInv, ThreadsAreSound
  <2>3. \A q \in Reqs : pc'[q] \in CarryPcs =>
            Sound(job'[q].conv, run'[q].values, run'[q].at, executed, analyses)
    BY <1>2 DEF ProvInv, ThreadInv, ThreadsAreSound, ConvOf, CarryPcs, ActivePcs
  <2> QED
    BY <1>1, <2>2, <2>3 DEF ThreadsAreSound, ConvOf
<1>5. ExecutingIsExecuted' /\ JobsAreBound'
  BY <1>1, <1>2 DEF ProvInv, ThreadInv, ExecutingIsExecuted, JobsAreBound, ConvOf,
     BusyPcs, GuardedPcs
<1>6. RowsInv'
  BY <1>1, <1>4, RowsStay DEF MintedAsSaved
<1> QED
  BY <1>4, <1>5, <1>6 DEF ProvInv, ThreadInv

LEMMA ProvExecute ==
    ASSUME ProvInv, ReviewInv', NEW r \in Reqs, StartExecution(r)
    PROVE  ProvInv'
<1>0. TypeOK
  BY DEF ProvInv, ReviewInv
<1>1. /\ UNCHANGED <<ckpt, job, run, messages, analyses, minted>>
      /\ minted' \ minted = {}
      /\ executed' = executed \cup {ProposalOf(ConvOf(r), run[r].values)}
      /\ pc[r] = "running" /\ pc'[r] = "executing"
      /\ \A q \in Reqs \ {r} : pc'[q] = pc[q]
  BY <1>0 DEF StartExecution, AtNode, dbVars, TypeOK
<1>2. \A c, s, n : Sound(c, s, n, executed, analyses) => Sound(c, s, n, executed', analyses)
  BY <1>1, KeptItself, SoundStays
<1>3. ThreadsAreSound'
  <2>1. \A c \in Convs : Sound(c, ckpt[c].values, ckpt[c].next, executed', analyses)
    BY <1>2 DEF ProvInv, ThreadInv, ThreadsAreSound
  <2>2. \A q \in Reqs : pc'[q] \in CarryPcs =>
            Sound(job[q].conv, run[q].values, run[q].at, executed', analyses)
    BY <1>1, <1>2 DEF ProvInv, ThreadInv, ThreadsAreSound, ConvOf, CarryPcs, ActivePcs
  <2> QED
    BY <1>1, <2>1, <2>2 DEF ThreadsAreSound, ConvOf
<1>4. ExecutingIsExecuted'
  BY <1>1 DEF ProvInv, ThreadInv, ExecutingIsExecuted, ConvOf
<1>5. JobsAreBound'
  BY <1>1 DEF ProvInv, ThreadInv, JobsAreBound, BusyPcs, GuardedPcs
<1>6. RowsInv'
  BY <1>1, <1>3, RowsStay DEF MintedAsSaved
<1> QED
  BY <1>3, <1>4, <1>5, <1>6 DEF ProvInv, ThreadInv

LEMMA ProvSynthesize ==
    ASSUME ProvInv, ReviewInv', NEW r \in Reqs, SynthesizeAnswer(r)
    PROVE  ProvInv'
<1> DEFINE s == run[r].values
<1>0. TypeOK /\ ConvOf(r) \in Convs /\ s \in AgentState
  BY RunType DEF ProvInv, ReviewInv
<1>1. /\ UNCHANGED <<job, messages, analyses, executed, minted>>
      /\ minted' \ minted = {}
      /\ pc[r] = "running" /\ run[r].at = "synthesize_answer" /\ pc'[r] = "answering"
      /\ \A q \in Reqs \ {r} : pc'[q] = pc[q]
  BY <1>0 DEF SynthesizeAnswer, AtNode, dbVars, historyVars, TypeOK
<1>2. /\ \A c \in Convs \ {ConvOf(r)} : ckpt'[c] = ckpt[c]
      /\ ckpt'[ConvOf(r)] = [values |-> s, next |-> "end"]
      /\ \A q \in Reqs \ {r} : run'[q] = run[q]
      /\ run'[r].values = s /\ run'[r].at = "end"
  BY <1>0 DEF SynthesizeAnswer, TypeOK, Run
<1>3. Sound(ConvOf(r), s, "end", executed, analyses)
  <2>1. Sound(ConvOf(r), s, "synthesize_answer", executed, analyses)
    BY <1>1 DEF ProvInv, ThreadInv, ThreadsAreSound, CarryPcs, ActivePcs
  <2> QED
    BY <1>0, <2>1, NodesAreSound DEF Finished, Nodes
<1> HIDE DEF s
<1>4. ThreadsAreSound'
  <2>1. \A c \in Convs : Sound(c, ckpt'[c].values, ckpt'[c].next, executed, analyses)
    BY <1>2, <1>3 DEF ProvInv, ThreadInv, ThreadsAreSound
  <2>2. \A q \in Reqs : pc'[q] \in CarryPcs =>
            Sound(job[q].conv, run'[q].values, run'[q].at, executed, analyses)
    BY <1>1, <1>2, <1>3 DEF ProvInv, ThreadInv, ThreadsAreSound, ConvOf
  <2> QED
    BY <1>1, <2>1, <2>2 DEF ThreadsAreSound, ConvOf
<1>5. ExecutingIsExecuted'
  BY <1>1, <1>2 DEF ProvInv, ThreadInv, ExecutingIsExecuted, ConvOf
<1>6. JobsAreBound'
  BY <1>1 DEF ProvInv, ThreadInv, JobsAreBound, BusyPcs, GuardedPcs
<1>7. RowsInv'
  BY <1>1, <1>4, RowsStay DEF MintedAsSaved
<1> QED
  BY <1>4, <1>5, <1>6, <1>7 DEF ProvInv, ThreadInv

\* The answer and the rows of its analysis: stored as successful only with rows,
\* which are those of an execution.
LEMMA ProvAnswer ==
    ASSUME ProvInv, ReviewInv', NEW r \in Reqs, PersistAnswer(r)
    PROVE  ProvInv'
<1> DEFINE c == ConvOf(r)
           s == run[r].values
           p == ProposalOf(c, s)
<1>0. TypeOK /\ TypeOK' /\ c \in Convs /\ s \in AgentState
  BY RunType DEF ProvInv, ReviewInv
<1>1. /\ pc[r] = "answering" /\ Finish(r)
      /\ UNCHANGED <<ckpt, executed, minted>>
      /\ minted' \ minted = {}
  BY DEF PersistAnswer, historyVars
<1>2. CASE UNCHANGED <<messages, analyses>>
  BY <1>0, <1>1, <1>2, FinishIsQuiet, ProvQuiet
<1>3. CASE /\ messages' = [messages EXCEPT ![c] = Append(@, AnswerOf(s))]
           /\ analyses' = [a \in Analyses |->
                    IF Succeeded(s) /\ s.aid = a /\ analyses[a] # Unsaved
                    THEN [analyses[a] EXCEPT !.run = s.token]
                    ELSE analyses[a]]
  <2>1. Sound(c, s, run[r].at, executed, analyses)
    BY <1>1 DEF ProvInv, ThreadInv, ThreadsAreSound, CarryPcs
  <2>2. Succeeded(s) => /\ p \in executed /\ p \in minted
                        /\ p.conv = c /\ p.sql = s.sql /\ p.source = s.source
                        /\ p.token = s.token /\ p.saved = s.saved
    BY <2>1 DEF Succeeded, Sound, ProvInv, ReviewInv, ProposalOf
  <2>3. AnswerHolds(c, AnswerOf(s), executed)
    BY <2>2 DEF AnswerHolds, AnswerOf
  <2>4. /\ \A d \in Convs \ {c} : messages'[d] = messages[d]
        /\ messages[c] \in Seq(Message) /\ messages'[c] = Append(messages[c], AnswerOf(s))
    BY <1>0, <1>3 DEF TypeOK
  <2>5. \A a \in Analyses : analyses[a] # Unsaved => analyses[a] \in Analysis
    BY <1>0 DEF TypeOK
  <2>6. ASSUME NEW a \in Analyses
        PROVE  \/ analyses'[a] = analyses[a]
               \/ /\ analyses[a] # Unsaved /\ s.aid = a /\ Succeeded(s)
                  /\ analyses'[a] \in Analysis
                  /\ analyses'[a].user = analyses[a].user
                  /\ analyses'[a].sql = analyses[a].sql
                  /\ analyses'[a].source = analyses[a].source
                  /\ analyses'[a].run = s.token
    <3>1. s.token \in Nat
      BY <1>0 DEF AgentState
    <3>2. CASE Succeeded(s) /\ s.aid = a /\ analyses[a] # Unsaved
      <4>1. analyses'[a] = [analyses[a] EXCEPT !.run = s.token] /\ analyses[a] \in Analysis
        BY <1>3, <2>5, <3>2
      <4> QED
        BY <3>1, <3>2, <4>1 DEF Analysis
    <3> QED
      BY <1>3, <3>2
  <2> HIDE DEF c, s, p
  <2>7. Kept(analyses, analyses')
    BY <2>6, UnsavedAssumption DEF Kept
  <2>8. ThreadInv'
    BY <1>0, <1>1, <2>7, FinishIsQuiet, ThreadsStay
  <2>9. SavedHasSql'
    BY <2>6 DEF ProvInv, RowsInv, SavedHasSql
  <2>10. \A d \in Convs : \A i \in DOMAIN messages'[d] :
             AnswerHolds(d, messages'[d][i], executed)
    <3>1. \A i \in DOMAIN messages'[c] :
              \/ i \in DOMAIN messages[c] /\ messages'[c][i] = messages[c][i]
              \/ messages'[c][i] = AnswerOf(s)
      <4> DEFINE m == AnswerOf(s)
      <4> HIDE DEF m
      <4>1. messages'[c] = Append(messages[c], m)
        BY <2>4 DEF m
      <4>2. \A i \in DOMAIN messages'[c] :
              \/ i \in DOMAIN messages[c] /\ messages'[c][i] = messages[c][i]
              \/ messages'[c][i] = m
        BY <2>4, <4>1
      <4> QED
        BY <4>2 DEF m
    <3>2. \A d \in Convs : \A i \in DOMAIN messages[d] :
              AnswerHolds(d, messages[d][i], executed)
      BY DEF ProvInv, RowsInv, AnswersOfRuns
    <3> QED
      BY <2>3, <2>4, <3>1, <3>2
  <2>11. \A a \in Analyses : AnalysisHolds(analyses'[a], executed)
    <3> SUFFICES ASSUME NEW a \in Analyses
                 PROVE  AnalysisHolds(analyses'[a], executed)
      OBVIOUS
    <3>1. AnalysisHolds(analyses[a], executed)
      BY DEF ProvInv, RowsInv, AnswersOfRuns
    <3>2. CASE analyses'[a] # analyses[a]
      <4>1. /\ analyses[a] # Unsaved /\ s.aid = a /\ Succeeded(s)
            /\ analyses'[a].user = analyses[a].user
            /\ analyses'[a].sql = analyses[a].sql
            /\ analyses'[a].source = analyses[a].source
            /\ analyses'[a].run = s.token
        BY <2>6, <3>2
      <4>2. /\ s.saved # NoSql /\ analyses[a].user = Owner[c] /\ analyses[a].sql = s.saved
            /\ analyses[a].source \in {s.source, Gone}
        BY <2>1, <4>1, GraphAssumption DEF Sound, BoundTo
      <4>3. p.sql = p.saved
        <5>1. MintedAsSaved(minted, analyses)
          BY SavedSqlParts DEF ProvInv, RowsInv
        <5> QED
          BY <2>2, <4>1, <4>2, <5>1 DEF MintedAsSaved
      <4> QED
        BY <2>2, <4>1, <4>2, <4>3 DEF AnalysisHolds
    <3> QED
      BY <3>1, <3>2
  <2>12. AnswersOfRuns'
    BY <1>1, <2>10, <2>11 DEF AnswersOfRuns
  <2>13. SavedSqlIsImmutable'
    <3>1. MintedAsSaved(minted, analyses')
      BY <2>7, SavedSqlParts, MintedStays DEF ProvInv, RowsInv
    <3>2. \A d \in Convs : ckpt[d].values.saved # NoSql => ckpt[d].values.retry = 0
      BY SavedSqlParts DEF ProvInv, RowsInv
    <3> QED
      BY <1>1, <3>1, <3>2 DEF SavedSqlIsImmutable, MintedAsSaved
  <2> QED
    BY <2>8, <2>9, <2>12, <2>13 DEF ProvInv, RowsInv
<1> QED
  BY <1>2, <1>3 DEF PersistAnswer

LEMMA ProvNext == ProvInv /\ [Next]_vars => ProvInv'
<1> SUFFICES ASSUME ProvInv, [Next]_vars PROVE ProvInv'
  OBVIOUS
<1>1. ReviewInv'
  BY ReviewNext DEF ProvInv
<1>2. CASE UNCHANGED vars
  <2>1. UNCHANGED <<ckpt, messages, analyses, executed, minted, pc, job, run>>
    BY <1>2 DEF vars, dbVars, historyVars
  <2> QED
    BY <1>1, <2>1, ProvQuiet
<1>3. CASE Next
  BY <1>1, <1>3, ProvHousekeeping, ProvArrive, ProvGuard, ProvStart, ProvGenerate,
     ProvNodes, ProvLeave, ProvExecute, ProvSynthesize, ProvAnswer DEF Next, Advance, Fail
<1> QED
  BY <1>2, <1>3

LEMMA AlwaysProvInv == Spec => []ProvInv
BY ProvInit, ProvNext, PTL DEF Spec

\* As long as the guard keeps its locks, an answer stored as successful, and a
\* saved analysis, carry the SQL, source and rows of an approved execution in
\* their own conversation, whatever is repeated, deleted, interleaved or lost of
\* the checkpoints.  That they are of an execution at all holds without locks.
THEOREM AnswersAreOfApprovedRuns ==
    ASSUME ~LockMayDrop
    PROVE  Spec => []AnswersMatchExecution
<1>1. ProvInv /\ ApprovalInv => AnswersMatchExecution
  <2> SUFFICES ASSUME ProvInv, ApprovalInv PROVE AnswersMatchExecution
    OBVIOUS
  <2>1. \A p \in executed : p.token \in approved
    BY DEF ApprovalInv, ExecutedAsApproved
  <2>2. AnswersOfRuns
    BY DEF ProvInv, RowsInv
  <2> QED
    BY <2>1, <2>2 DEF AnswersMatchExecution, AnswersOfRuns, AnswerHolds, AnalysisHolds
<1> QED
  BY <1>1, AlwaysProvInv, AlwaysApprovalInv, PTL

\* Whatever is proposed for a saved analysis is its own SQL on its own source, and
\* no question about one is ever retried: with lost locks and checkpoints too.
THEOREM SavedSqlStays == Spec => []SavedSqlIsImmutable
<1>1. ProvInv => SavedSqlIsImmutable
  BY DEF ProvInv, RowsInv
<1> QED
  BY <1>1, AlwaysProvInv, PTL

-----------------------------------------------------------------------------
(* The flow of a thread whose checkpoints are durable and whose guard holds *)

\* n proposals of a question before a node: as many as its retries allow.
Budgeted(s, at, n) ==
    /\ n <= MaxRetries + 1
    /\ at = "table_selector" => n = 0 /\ s.retry = 0
    /\ at = "generate_sql" => n <= s.retry /\ s.retry <= MaxRetries
    /\ at \in Proposing \cup {"increment_retry"} => n <= s.retry + 1 /\ s.retry <= MaxRetries
    /\ at = "increment_retry" => s.retry < MaxRetries

\* A thread offers what it has validated, and executes what it has offered, once.
Flows(c, k, n, shown, ran) ==
    /\ Budgeted(k.values, k.next, n)
    /\ k.next = "validate_sql" => ProposalOf(c, k.values) \notin shown
    /\ k.next = "human_review" => /\ ProposalOf(c, k.values) \notin ran
                                  /\ k.values.sql # CannotAnswer

ThreadsFlow == \A c \in Convs : Flows(c, ckpt[c], attempts[c], offered, executed)

\* A run and its thread agree.
RunFlows(r) ==
    LET p == ProposalOf(ConvOf(r), run[r].values) IN
    /\ pc[r] \in ActivePcs => ckpt[ConvOf(r)] = CheckpointOf(r)
    /\ pc[r] = "running" /\ run[r].at = "human_review" /\ ~run[r].resume => p \notin offered
    /\ pc[r] = "running" /\ run[r].at = "execute_sql" => p \notin executed
    /\ pc[r] = "executing" => run[r].at = "execute_sql"

MintedWell ==
    /\ issued <= MaxTokens
    /\ \A p \in minted : /\ p.token \in 1 .. MaxTokens
                         /\ p.saved = NoSql => p.sql \in Queries \cup {CannotAnswer}

FlowInv ==
    /\ ProvInv /\ GuardInv /\ ApprovalInv
    /\ ThreadsFlow /\ \A r \in Reqs : RunFlows(r)
    /\ MintedWell /\ offered \subseteq Showable

-----------------------------------------------------------------------------
(* The contract *)

Opened == [c \in Convs |-> ToReview(c)]
Granted == [c \in Convs |-> ToRun(c)]

OpenAt(c, k, shown) ==
    IF k.next = "human_review" /\ ProposalOf(c, k.values) \in shown
    THEN {ProposalOf(c, k.values)} ELSE {}
GrantAt(c, k, ran) ==
    IF k.next = "execute_sql" /\ ProposalOf(c, k.values) \notin ran
    THEN {ProposalOf(c, k.values)} ELSE {}

LEMMA MappingNow ==
    /\ \A c \in Convs : /\ Opened[c] = OpenAt(c, ckpt[c], offered)
                        /\ Granted[c] = GrantAt(c, ckpt[c], executed)
    /\ Opened = [c \in Convs |-> OpenAt(c, ckpt[c], offered)]
    /\ Granted = [c \in Convs |-> GrantAt(c, ckpt[c], executed)]
BY DEF Opened, Granted, ToReview, ToRun, OpenAt, GrantAt

LEMMA MappingNext ==
    /\ Opened' = [c \in Convs |-> OpenAt(c, ckpt'[c], offered')]
    /\ Granted' = [c \in Convs |-> GrantAt(c, ckpt'[c], executed')]
BY DEF Opened, Granted, ToReview, ToRun, OpenAt, GrantAt

ContractStep == [Contract!Next]_(Contract!contractVars)

\* Nothing of a thread is shown, granted or run.
LEMMA ContractStutters ==
    ASSUME UNCHANGED <<offered, executed>>,
           \A c \in Convs : /\ OpenAt(c, ckpt'[c], offered) = OpenAt(c, ckpt[c], offered)
                            /\ GrantAt(c, ckpt'[c], executed) = GrantAt(c, ckpt[c], executed)
    PROVE  ContractStep
<1>1. UNCHANGED <<Opened, Granted>>
  BY MappingNow, MappingNext
<1> QED
  BY <1>1 DEF ContractStep, Contract!contractVars, Opened, Granted

\* One thread moves.
LEMMA MappingMoves ==
    ASSUME NEW c \in Convs, \A d \in Convs \ {c} : ckpt'[d] = ckpt[d],
           \/ offered' = offered
           \/ \E s : offered' = offered \cup {ProposalOf(c, s)},
           \/ executed' = executed
           \/ \E s : executed' = executed \cup {ProposalOf(c, s)}
    PROVE  /\ Opened' = [Opened EXCEPT ![c] = OpenAt(c, ckpt'[c], offered')]
           /\ Granted' = [Granted EXCEPT ![c] = GrantAt(c, ckpt'[c], executed')]
<1>1. \A d \in Convs \ {c} : /\ OpenAt(d, ckpt'[d], offered') = OpenAt(d, ckpt[d], offered)
                             /\ GrantAt(d, ckpt'[d], executed') = GrantAt(d, ckpt[d], executed)
  BY DEF OpenAt, GrantAt, ProposalOf
<1> QED
  BY <1>1, MappingNow, MappingNext

LEMMA ContractInit == Init => Contract!Init
BY DEF Init, Contract!Init, ToReview, ToRun

LEMMA ContractProposes ==
    ASSUME NEW c \in Convs, NEW p \in Showable, p.conv = c,
           p.token \notin {q.token : q \in offered},
           Opened[c] = {}, Granted[c] = {}, Opened' = [Opened EXCEPT ![c] = {p}],
           Granted' = Granted, executed' = executed, offered' = offered \cup {p}
    PROVE  ContractStep
<1>1. {q.token : q \in offered'} = {q.token : q \in offered} \cup {p.token}
  OBVIOUS
<1>2. Contract!Propose(c)
  BY <1>1 DEF Contract!Propose, Opened, Granted
<1> QED
  BY <1>2 DEF ContractStep, Contract!Next

LEMMA ContractApproves ==
    ASSUME NEW c \in Convs, Opened[c] # {}, Opened' = [Opened EXCEPT ![c] = {}],
           Granted' = [Granted EXCEPT ![c] = Opened[c]],
           UNCHANGED <<offered, executed>>
    PROVE  ContractStep
<1>1. Contract!Approve(c)
  BY DEF Contract!Approve, Opened, Granted
<1> QED
  BY <1>1 DEF ContractStep, Contract!Next

LEMMA ContractWithdraws ==
    ASSUME NEW c \in Convs, Opened' = [Opened EXCEPT ![c] = {}],
           Granted' = [Granted EXCEPT ![c] = {}],
           UNCHANGED <<offered, executed>>
    PROVE  ContractStep
<1>1. CASE Opened[c] # {} \/ Granted[c] # {}
  <2>1. Contract!Withdraw(c)
    BY <1>1 DEF Contract!Withdraw, Opened, Granted
  <2> QED
    BY <2>1 DEF ContractStep, Contract!Next
<1>2. CASE Opened[c] = {} /\ Granted[c] = {}
  <2>1. UNCHANGED <<Opened, Granted>>
    BY <1>2, MappingNow, MappingNext
  <2> QED
    BY <2>1 DEF ContractStep, Contract!contractVars, Opened, Granted
<1> QED
  BY <1>1, <1>2

LEMMA ContractRuns ==
    ASSUME NEW c \in Convs, Granted[c] # {}, Granted[c] \cap executed = {},
           Granted' = [Granted EXCEPT ![c] = {}], Opened' = Opened,
           executed' = executed \cup Granted[c], offered' = offered
    PROVE  ContractStep
<1>1. Contract!Run(c)
  BY DEF Contract!Run, Opened, Granted
<1> QED
  BY <1>1 DEF ContractStep, Contract!Next

-----------------------------------------------------------------------------
(* Steps that keep the flow *)

LEMMA FlowInit == Init => FlowInv
<1> SUFFICES ASSUME Init PROVE FlowInv
  OBVIOUS
<1>1. ThreadsFlow
  BY GraphAssumption DEF Init, ThreadsFlow, Flows, Budgeted, Proposing, EmptyState
<1>2. \A r \in Reqs : RunFlows(r)
  BY DEF Init, RunFlows, ActivePcs
<1>3. MintedWell /\ offered \subseteq Showable
  BY WorkflowAssumption DEF Init, MintedWell
<1> QED
  BY <1>1, <1>2, <1>3, ProvInit, GuardInit, ApprovalInit DEF FlowInv

\* A step that leaves threads alone and starts no run.
LEMMA FlowQuiet ==
    ASSUME FlowInv, ProvInv', GuardInv', ApprovalInv',
           UNCHANGED <<ckpt, attempts, offered, executed, minted, issued>>,
           \A r \in Reqs : \/ pc'[r] \notin ActivePcs
                           \/ pc'[r] = pc[r] /\ job'[r] = job[r] /\ run'[r] = run[r]
    PROVE  FlowInv' /\ ContractStep
<1>1. ThreadsFlow' /\ MintedWell' /\ (offered \subseteq Showable)'
  BY DEF FlowInv, ThreadsFlow, MintedWell, Showable
<1>2. ASSUME NEW r \in Reqs PROVE RunFlows(r)'
  BY DEF FlowInv, RunFlows, ActivePcs, ConvOf, CheckpointOf
<1>3. ContractStep
  BY ContractStutters
<1> QED
  BY <1>1, <1>2, <1>3 DEF FlowInv

\* A state that may be carried to node n by thread c: the flow goes on.
Carries(c, s, n, count, shown, ran) ==
    /\ Budgeted(s, n, count)
    /\ n \in {"validate_sql", "human_review"} => ProposalOf(c, s) \notin shown
    /\ n = "human_review" => s.sql # CannotAnswer
    /\ n = "execute_sql" => ProposalOf(c, s) \notin ran

\* A superstep of a running request.
LEMMA FlowStep ==
    ASSUME ~SaverMayLag, FlowInv, ProvInv', GuardInv', ApprovalInv',
           NEW r \in Reqs, NEW S, NEW n, NEW count,
           Superstep(r, S, n), UNCHANGED <<job, offered, executed>>,
           pc[r] \in GuardedPcs, pc' = [pc EXCEPT ![r] = "running"],
           attempts' = [attempts EXCEPT ![ConvOf(r)] = count],
           Carries(ConvOf(r), S, n, count, offered, executed), MintedWell'
    PROVE  FlowInv'
<1>0. TypeOK /\ ConvOf(r) \in Convs /\ executed \subseteq offered
  BY RunType DEF FlowInv, GuardInv, ApprovalInv, ExecutedAsApproved
<1>1. /\ run'[r] = [values |-> S, at |-> n, resume |-> FALSE]
      /\ \A q \in Reqs \ {r} : run'[q] = run[q] /\ pc'[q] = pc[q]
      /\ pc'[r] = "running"
  BY <1>0 DEF Superstep, TypeOK
<1>2. /\ \A c \in Convs \ {ConvOf(r)} : ckpt'[c] = ckpt[c] /\ attempts'[c] = attempts[c]
      /\ ckpt'[ConvOf(r)] = [values |-> S, next |-> n]
      /\ attempts'[ConvOf(r)] = count
  BY <1>0 DEF Superstep, TypeOK
<1>3. ThreadsFlow'
  <2>1. ASSUME NEW c \in Convs PROVE Flows(c, ckpt'[c], attempts'[c], offered, executed)
    <3>1. CASE c = ConvOf(r)
      BY <1>0, <1>2, <3>1 DEF Flows, Carries
    <3>2. CASE c # ConvOf(r)
      BY <1>2, <3>2 DEF FlowInv, ThreadsFlow
    <3> QED
      BY <3>1, <3>2
  <2> QED
    BY <2>1 DEF ThreadsFlow
<1>4. ASSUME NEW q \in Reqs \ {r} PROVE RunFlows(q)'
  <2>1. pc[q] \in ActivePcs => ConvOf(q) # ConvOf(r) /\ ConvOf(q) \in Convs
    BY <1>0, OneOnAThread, RunType DEF FlowInv, ActivePcs, GuardedPcs
  <2>2. pc[q] \in ActivePcs => ckpt'[ConvOf(q)] = ckpt[ConvOf(q)]
    BY <1>2, <2>1
  <2> QED
    BY <1>1, <2>2 DEF FlowInv, RunFlows, ConvOf, CheckpointOf
<1>5. RunFlows(r)'
  BY <1>1, <1>2 DEF RunFlows, ConvOf, CheckpointOf, Carries
<1> QED
  BY <1>0, <1>3, <1>4, <1>5 DEF FlowInv, Showable

\* What that superstep does to the contract's variables: the thread opens or
\* grants nothing, or only its own.
LEMMA ThreadMoves ==
    ASSUME ~SaverMayLag, FlowInv, NEW r \in Reqs, NEW S, NEW n, Superstep(r, S, n),
           UNCHANGED <<offered, executed>>
    PROVE  LET c == ConvOf(r)
               k == [values |-> S, next |-> n] IN
           /\ c \in Convs
           /\ Opened' = [Opened EXCEPT ![c] = OpenAt(c, k, offered)]
           /\ Granted' = [Granted EXCEPT ![c] = GrantAt(c, k, executed)]
<1> DEFINE c == ConvOf(r)
           k == [values |-> S, next |-> n]
<1>0. TypeOK /\ c \in Convs
  BY RunType DEF FlowInv, GuardInv
<1>1. ckpt'[c] = k /\ \A d \in Convs \ {c} : ckpt'[d] = ckpt[d]
  BY <1>0 DEF Superstep, TypeOK
<1> HIDE DEF c, k
<1>2. /\ Opened' = [Opened EXCEPT ![c] = OpenAt(c, k, offered)]
      /\ Granted' = [Granted EXCEPT ![c] = GrantAt(c, k, executed)]
  BY <1>0, <1>1, MappingMoves
<1> QED
  BY <1>0, <1>2 DEF c, k

-----------------------------------------------------------------------------
(* Actions *)

LEMMA FlowElsewhere ==
    ASSUME FlowInv, ProvInv', GuardInv', ApprovalInv',
           \/ Housekeeping
           \/ \E r \in Reqs : \/ Arrive(r) \/ TakeUserLock(r) \/ TakeConvLock(r)
                              \/ OverBudget(r) \/ Abort(r) \/ PersistAnswer(r)
                              \/ LoseLocks(r)
    PROVE  FlowInv' /\ ContractStep
<1>0. TypeOK
  BY DEF FlowInv, GuardInv
<1>1. CASE Housekeeping
  <2>1. UNCHANGED <<ckpt, attempts, offered, executed, minted, issued, pc, job, run>>
    BY <1>1 DEF Housekeeping, CreateConversation, DeleteConversation, DeleteSource,
       SaveAnalysis, historyVars
  <2> QED
    BY <2>1, FlowQuiet
<1>2. ASSUME NEW r \in Reqs, Arrive(r) PROVE FlowInv' /\ ContractStep
  <2> DEFINE Still == UNCHANGED <<ckpt, attempts, offered, executed, minted, issued, run>>
             Queued == \/ UNCHANGED <<pc, job>>
                       \/ \E j : /\ pc' = [pc EXCEPT ![r] = "queued"]
                                 /\ job' = [job EXCEPT ![r] = j]
  <2>1. ASSUME NEW c, NEW source, NEW aid, NEW saved, NEW hasKey,
               AcceptQuestion(r, c, source, aid, saved, hasKey)
        PROVE  Still /\ Queued
    <3>1. Still
      BY <2>1 DEF AcceptQuestion, historyVars
    <3>2. Queued
      BY <2>1, Zenon DEF AcceptQuestion
    <3> QED
      BY <3>1, <3>2
  <2>2. ASSUME NEW c, NEW token, NEW approve, SubmitReview(r, c, token, approve)
        PROVE  Still /\ Queued
    <3>1. Still
      BY <2>2 DEF SubmitReview, historyVars
    <3>2. Queued
      BY <2>2, Zenon DEF SubmitReview
    <3> QED
      BY <3>1, <3>2
  <2>3. Still /\ Queued
    <3> HIDE DEF Still, Queued
    <3> QED
      BY <1>2, <2>1, <2>2, Zenon
         DEF Arrive, AskInNewConversation, AskInConversation, RunAnalysis
  <2>4. \A q \in Reqs : \/ pc'[q] \notin ActivePcs
                        \/ pc'[q] = pc[q] /\ job'[q] = job[q] /\ run'[q] = run[q]
    BY <1>0, <2>3 DEF TypeOK, ActivePcs
  <2> QED
    BY <2>3, <2>4, FlowQuiet
<1>3. ASSUME NEW r \in Reqs,
             \/ TakeUserLock(r) \/ TakeConvLock(r) \/ LoseLocks(r)
             \/ OverBudget(r) \/ Abort(r) \/ PersistAnswer(r)
      PROVE  FlowInv' /\ ContractStep
  <2>1. UNCHANGED <<ckpt, attempts, offered, executed, minted, issued>>
    BY <1>3 DEF TakeUserLock, TakeConvLock, LoseLocks, OverBudget, Abort, PersistAnswer,
       historyVars
  <2>2. CASE Finish(r)
    BY <1>0, <2>1, <2>2, FinishIsQuiet, FlowQuiet DEF ActivePcs
  <2>3. CASE LoseLocks(r)
    BY <2>1, <2>3, FlowQuiet DEF LoseLocks
  <2>4. CASE (TakeUserLock(r) \/ TakeConvLock(r)) /\ ~Finish(r)
    <3>1. /\ pc' = [pc EXCEPT ![r] = "userLocked"] \/ pc' = [pc EXCEPT ![r] = "guarded"]
          /\ UNCHANGED <<job, run>>
      BY <2>4 DEF TakeUserLock, TakeConvLock
    <3> QED
      BY <1>0, <2>1, <3>1, FlowQuiet DEF TypeOK, ActivePcs
  <2> QED
    BY <1>3, <2>2, <2>3, <2>4 DEF OverBudget, Abort, PersistAnswer
<1> QED
  BY <1>1, <1>2, <1>3

LEMMA FlowStart ==
    ASSUME ~SaverMayLag, FlowInv, ProvInv', GuardInv', ApprovalInv',
           NEW r \in Reqs,
           \/ StartQuestion(r) \/ CheckReview(r) \/ CheckSource(r) \/ ResumeReview(r)
    PROVE  FlowInv' /\ ContractStep
<1> DEFINE c == ConvOf(r)
<1>0. TypeOK /\ c \in Convs
  BY RunType DEF FlowInv, GuardInv
<1>1. CASE StartQuestion(r)
  <2> DEFINE S == InitialState(ckpt[c].values, job[r].source, job[r].aid, job[r].saved)
  <2>1. /\ Superstep(r, S, "table_selector")
        /\ UNCHANGED <<job, offered, executed, minted, issued>>
        /\ pc[r] \in GuardedPcs /\ pc' = [pc EXCEPT ![r] = "running"]
        /\ attempts' = [attempts EXCEPT ![c] = 0]
    BY <1>1 DEF StartQuestion, GuardedPcs
  <2>2. Carries(c, S, "table_selector", 0, offered, executed)
    BY GraphAssumption DEF Carries, Budgeted, Proposing, InitialState, EmptyState
  <2>3. MintedWell'
    BY <2>1 DEF FlowInv, MintedWell
  <2> HIDE DEF S
  <2>4. FlowInv'
    BY <2>1, <2>2, <2>3, FlowStep
  <2>5. Opened' = [Opened EXCEPT ![c] = {}] /\ Granted' = [Granted EXCEPT ![c] = {}]
    BY <2>1, ThreadMoves DEF OpenAt, GrantAt
  <2> HIDE DEF c
  <2> QED
    BY <1>0, <2>1, <2>4, <2>5, ContractWithdraws
<1>2. CASE CheckReview(r) \/ CheckSource(r)
  <2>1. UNCHANGED <<ckpt, attempts, offered, executed, minted, issued>>
    BY <1>2 DEF CheckReview, CheckSource, historyVars
  <2>2. CASE Finish(r)
    BY <1>0, <2>1, <2>2, FinishIsQuiet, FlowQuiet DEF ActivePcs
  <2>3. CASE ~Finish(r)
    <3>1. /\ pc'[r] \in CheckedPcs
          /\ \A q \in Reqs \ {r} : pc'[q] = pc[q] /\ run'[q] = run[q]
          /\ UNCHANGED job
      BY <1>0, <1>2, <2>3, CheckIsQuiet
    <3>2. pc'[r] \notin ActivePcs
      BY <3>1 DEF CheckedPcs, ActivePcs
    <3> QED
      BY <2>1, <3>1, <3>2, FlowQuiet
  <2> QED
    BY <2>2, <2>3
<1>3. CASE ResumeReview(r)
  <2>1. UNCHANGED <<job, ckpt, attempts, offered, executed, minted, issued>>
    BY <1>3 DEF ResumeReview, historyVars
  <2>2. ckpt[c].next = "human_review" /\ ckpt[c] \in Checkpoint
    BY <1>0, <1>3 DEF ResumeReview, FlowInv, ApprovalInv, CheckStands, CheckedPcs,
       Pending, TypeOK
  <2>3. /\ run'[r] = [values |-> ckpt[c].values, at |-> ckpt[c].next, resume |-> TRUE]
        /\ pc'[r] = "running"
        /\ \A q \in Reqs \ {r} : run'[q] = run[q] /\ pc'[q] = pc[q]
    BY <1>0, <1>3, <2>2, ResumeRuns
  <2>4. RunFlows(r)'
    BY <2>1, <2>2, <2>3 DEF RunFlows, CheckpointOf, ConvOf, Checkpoint
  <2>5. ASSUME NEW q \in Reqs \ {r} PROVE RunFlows(q)'
    BY <2>1, <2>3 DEF FlowInv, RunFlows, CheckpointOf, ConvOf
  <2>6. ThreadsFlow' /\ MintedWell' /\ (offered \subseteq Showable)'
    BY <2>1 DEF FlowInv, ThreadsFlow, MintedWell, Showable
  <2>7. ContractStep
    BY <2>1, ContractStutters
  <2> QED
    BY <2>4, <2>5, <2>6, <2>7 DEF FlowInv
<1> QED
  BY <1>1, <1>2, <1>3

\* A superstep to any node but execute_sql opens and grants nothing.
LEMMA FlowMove ==
    ASSUME ~SaverMayLag, FlowInv, ProvInv', GuardInv', ApprovalInv',
           NEW r \in Reqs, NEW S, NEW n, NEW count,
           Superstep(r, S, n), UNCHANGED <<job, offered, executed>>,
           pc[r] \in GuardedPcs, pc' = [pc EXCEPT ![r] = "running"],
           attempts' = [attempts EXCEPT ![ConvOf(r)] = count],
           Carries(ConvOf(r), S, n, count, offered, executed), n # "execute_sql",
           MintedWell'
    PROVE  FlowInv' /\ ContractStep
<1> DEFINE c == ConvOf(r)
           k == [values |-> S, next |-> n]
<1>1. FlowInv'
  BY FlowStep
<1>2. OpenAt(c, k, offered) = {} /\ GrantAt(c, k, executed) = {}
  BY DEF OpenAt, GrantAt, Carries
<1>3. /\ c \in Convs
      /\ Opened' = [Opened EXCEPT ![c] = OpenAt(c, k, offered)]
      /\ Granted' = [Granted EXCEPT ![c] = GrantAt(c, k, executed)]
  BY ThreadMoves
<1> HIDE DEF c, k
<1> QED
  BY <1>1, <1>2, <1>3, ContractWithdraws

\* What a run that is in the graph knows of its thread.
LEMMA RunKnows ==
    ASSUME FlowInv, NEW r \in Reqs, pc[r] \in ActivePcs
    PROVE  /\ TypeOK /\ ConvOf(r) \in Convs /\ run[r].values \in AgentState
           /\ attempts[ConvOf(r)] \in Nat
           /\ ckpt[ConvOf(r)] = CheckpointOf(r)
           /\ Budgeted(run[r].values, run[r].at, attempts[ConvOf(r)])
           /\ run[r].at = "validate_sql" =>
                ProposalOf(ConvOf(r), run[r].values) \notin offered
           /\ run[r].at = "human_review" =>
                /\ ProposalOf(ConvOf(r), run[r].values) \notin executed
                /\ run[r].values.sql # CannotAnswer
           /\ run[r].at \in Proposing => ProposalOf(ConvOf(r), run[r].values) \in minted
<1>1. /\ TypeOK /\ ConvOf(r) \in Convs /\ run[r].values \in AgentState
      /\ attempts[ConvOf(r)] \in Nat
  BY RunType DEF FlowInv, GuardInv, TypeOK
<1>2. ckpt[ConvOf(r)] = CheckpointOf(r)
  BY DEF FlowInv, RunFlows
<1>3. Flows(ConvOf(r), CheckpointOf(r), attempts[ConvOf(r)], offered, executed)
  BY <1>1, <1>2 DEF FlowInv, ThreadsFlow
<1>4. run[r].at \in Proposing => ProposalOf(ConvOf(r), run[r].values) \in minted
  BY DEF FlowInv, ProvInv, ReviewInv, ThreadsHoldMinted
<1> QED
  BY <1>1, <1>2, <1>3, <1>4 DEF Flows, CheckpointOf

LEMMA FlowGenerate ==
    ASSUME ~SaverMayLag, FlowInv, ProvInv', GuardInv', ApprovalInv',
           NEW r \in Reqs, GenerateSql(r)
    PROVE  FlowInv' /\ ContractStep
<1> PICK answer \in Queries \cup {CannotAnswer} :
       LET s == Generated(run[r].values, answer, issued + 1) IN
       /\ Superstep(r, s, "validate_sql")
       /\ minted' = minted \cup {ProposalOf(ConvOf(r), s)}
  BY DEF GenerateSql
<1> DEFINE s == run[r].values
           S == Generated(s, answer, issued + 1)
           P == ProposalOf(ConvOf(r), S)
           count == attempts[ConvOf(r)] + 1
<1>1. /\ pc[r] = "running" /\ run[r].at = "generate_sql"
      /\ UNCHANGED <<job, offered, executed, pc>>
      /\ issued < MaxTokens /\ issued' = issued + 1
      /\ attempts' = [attempts EXCEPT ![ConvOf(r)] = @ + 1]
  BY DEF GenerateSql, AtNode
<1>2. /\ TypeOK /\ ConvOf(r) \in Convs /\ s \in AgentState
      /\ attempts[ConvOf(r)] \in Nat
      /\ Budgeted(s, "generate_sql", attempts[ConvOf(r)])
  BY <1>1, RunKnows DEF ActivePcs
<1>3. /\ P.token = issued + 1 /\ S.retry = s.retry
      /\ P.saved = NoSql => P.sql \in Queries \cup {CannotAnswer}
  BY <1>2 DEF Generated, ProposalOf, AgentState, HasSavedSql
<1>4. Superstep(r, S, "validate_sql") /\ minted' = minted \cup {P}
  OBVIOUS
<1>5. issued \in Nat /\ MaxTokens \in Nat
  BY <1>2, WorkflowAssumption DEF TypeOK
<1>6. s.retry \in Nat
  BY <1>2 DEF AgentState
<1>7. attempts' = [attempts EXCEPT ![ConvOf(r)] = count] /\ count = attempts[ConvOf(r)] + 1
  BY <1>1
<1>8. pc[r] \in GuardedPcs /\ pc' = [pc EXCEPT ![r] = "running"]
  BY <1>1, <1>2 DEF TypeOK, GuardedPcs
<1> HIDE DEF s, S, count
<1>9. Budgeted(S, "validate_sql", count)
  BY <1>2, <1>3, <1>6, <1>7, GraphAssumption DEF Budgeted, Proposing
<1>10. P \notin offered
  <2>1. \A p \in offered : p.token <= issued
    BY DEF FlowInv, ProvInv, ReviewInv, TokensAreUnique
  <2> QED
    BY <1>3, <1>5, <2>1
<1>11. Carries(ConvOf(r), S, "validate_sql", count, offered, executed)
  BY <1>9, <1>10 DEF Carries
<1> HIDE DEF P
<1>12. MintedWell'
  BY <1>1, <1>3, <1>4, <1>5 DEF FlowInv, MintedWell
<1> QED
  BY <1>1, <1>4, <1>7, <1>8, <1>11, <1>12, FlowMove

\* The retry budget through the routers.
LEMMA RoutesKeepBudget ==
    ASSUME NEW s \in AgentState, NEW count \in Nat, NEW at, Budgeted(s, at, count)
    PROVE  /\ at = "table_selector" => Budgeted(s, "generate_sql", count)
           /\ at = "increment_retry" => Budgeted(Retried(s), "generate_sql", count)
           /\ Budgeted(s, "synthesize_answer", count)
           /\ \A t \in AgentState : at \in Proposing /\ t.retry = s.retry =>
                /\ Budgeted(t, AfterValidate(t), count)
                /\ Budgeted(t, AfterReview(t), count)
                /\ Budgeted(t, AfterExecute(t), count)
<1>0. s.retry \in Nat /\ MaxRetries \in Nat
  BY GraphAssumption DEF AgentState
<1>1. at = "table_selector" => Budgeted(s, "generate_sql", count)
  BY <1>0 DEF Budgeted, Proposing
<1>2. ASSUME at = "increment_retry" PROVE Budgeted(Retried(s), "generate_sql", count)
  <2>1. Retried(s).retry = s.retry + 1
    BY DEF Retried, AgentState
  <2> QED
    BY <1>0, <1>2, <2>1 DEF Budgeted, Proposing
<1>3. Budgeted(s, "synthesize_answer", count)
  BY DEF Budgeted, Proposing
<1>4. ASSUME NEW t \in AgentState, at \in Proposing, t.retry = s.retry
      PROVE  /\ Budgeted(t, AfterValidate(t), count)
             /\ Budgeted(t, AfterReview(t), count)
             /\ Budgeted(t, AfterExecute(t), count)
  <2>1. count <= MaxRetries + 1 /\ count <= t.retry + 1 /\ t.retry <= MaxRetries
    BY <1>4 DEF Budgeted
  <2>2. ASSUME NEW n \in {"human_review", "execute_sql", "decide_next_step",
                          "synthesize_answer"}
        PROVE  Budgeted(t, n, count)
    BY <2>1, <2>2 DEF Budgeted, Proposing
  <2>3. t.retry < MaxRetries => Budgeted(t, "increment_retry", count)
    BY <2>1 DEF Budgeted, Proposing
  <2>4. Budgeted(t, RetryOrAnswer(t), count)
    BY <2>2, <2>3 DEF RetryOrAnswer
  <2>5. /\ AfterValidate(t) \in {"human_review", "synthesize_answer", RetryOrAnswer(t)}
        /\ AfterReview(t) \in {"execute_sql", "synthesize_answer", RetryOrAnswer(t)}
        /\ AfterExecute(t) \in {"decide_next_step", "synthesize_answer", RetryOrAnswer(t)}
    BY DEF AfterValidate, AfterReview, AfterExecute, AgentState
  <2> QED
    BY <2>2, <2>4, <2>5
<1> QED
  BY <1>1, <1>2, <1>3, <1>4

\* Nodes that decide nothing.
LEMMA FlowNodes ==
    ASSUME ~SaverMayLag, FlowInv, ProvInv', GuardInv', ApprovalInv',
           NEW r \in Reqs,
           \/ TableSelector(r) \/ ValidateSql(r) \/ FinishExecution(r)
           \/ DecideNextStep(r) \/ IncrementRetry(r)
    PROVE  FlowInv' /\ ContractStep
<1> DEFINE c == ConvOf(r)
           s == run[r].values
           count == attempts[c]
<1>0. pc[r] \in ActivePcs
  BY DEF TableSelector, ValidateSql, FinishExecution, DecideNextStep, IncrementRetry,
     AtNode, ActivePcs
<1>1. /\ TypeOK /\ c \in Convs /\ s \in AgentState /\ count \in Nat
      /\ Budgeted(s, run[r].at, count)
      /\ run[r].at = "validate_sql" => ProposalOf(c, s) \notin offered
  BY <1>0, RunKnows
<1>2. /\ UNCHANGED <<job, issued, minted, offered, executed, attempts>>
      /\ pc[r] \in GuardedPcs /\ pc' = [pc EXCEPT ![r] = "running"]
  BY <1>1 DEF TableSelector, ValidateSql, FinishExecution, DecideNextStep,
     IncrementRetry, historyVars, AtNode, GuardedPcs, TypeOK
<1>3. attempts' = [attempts EXCEPT ![ConvOf(r)] = count]
  BY <1>1, <1>2 DEF TypeOK
<1>4. MintedWell'
  BY <1>2 DEF FlowInv, MintedWell
<1> HIDE DEF s, count
<1>5. ASSUME NEW S, NEW n, Superstep(r, S, n), Budgeted(S, n, count),
             n \notin {"validate_sql", "execute_sql"},
             n = "human_review" => ProposalOf(c, S) \notin offered /\ S.sql # CannotAnswer
      PROVE  FlowInv' /\ ContractStep
  <2>1. Carries(ConvOf(r), S, n, count, offered, executed) /\ n # "execute_sql"
    BY <1>5 DEF Carries
  <2> QED
    BY <1>2, <1>3, <1>4, <1>5, <2>1, FlowMove
<1>6. CASE TableSelector(r)
  <2>1. Superstep(r, s, "generate_sql") /\ run[r].at = "table_selector"
    BY <1>6 DEF TableSelector, AtNode, s
  <2>2. Budgeted(s, "generate_sql", count)
    BY <1>1, <2>1, RoutesKeepBudget
  <2> QED
    BY <1>5, <2>1, <2>2
<1>7. CASE ValidateSql(r)
  <2> PICK ok \in BOOLEAN : Superstep(r, Validated(s, ok), AfterValidate(Validated(s, ok)))
    BY <1>7 DEF ValidateSql, s
  <2> DEFINE S == Validated(s, ok)
             n == AfterValidate(S)
  <2>1. Superstep(r, S, n) /\ run[r].at = "validate_sql"
    BY <1>7 DEF ValidateSql, AtNode
  <2>2. S \in AgentState /\ S.retry = s.retry /\ ProposalOf(c, S) = ProposalOf(c, s)
    <3>1. S.retry = s.retry
      BY <1>1 DEF Validated, AgentState
    <3>2. S \in AgentState /\ ProposalOf(c, S) = ProposalOf(c, s)
      BY <1>1, ValidatedType, NodesKeepProposal
    <3> QED
      BY <3>1, <3>2
  <2>3. Budgeted(S, n, count)
    BY <1>1, <2>1, <2>2, RoutesKeepBudget DEF Proposing
  <2>4. n \in {"human_review", "increment_retry", "synthesize_answer"}
    BY <2>2, RouteTypes
  <2>5. n = "human_review" => S.sql # CannotAnswer
    <3>1. n = "human_review" => S.valid
      BY <2>2 DEF AfterValidate, RetryOrAnswer, AgentState
    <3>2. S.sql = s.sql /\ (s.sql = CannotAnswer => ~S.valid)
      BY <1>1 DEF Validated, AgentState
    <3> QED
      BY <3>1, <3>2
  <2>6. ProposalOf(c, S) \notin offered
    BY <1>1, <2>1, <2>2
  <2> HIDE DEF S, n
  <2> QED
    BY <1>5, <2>1, <2>3, <2>4, <2>5, <2>6
<1>8. CASE FinishExecution(r)
  <2> PICK ok \in BOOLEAN : Superstep(r, Executed(s, ok), AfterExecute(Executed(s, ok)))
    BY <1>8 DEF FinishExecution, s
  <2> DEFINE S == Executed(s, ok)
             n == AfterExecute(S)
  <2>1. Superstep(r, S, n) /\ run[r].at = "execute_sql"
    BY <1>8 DEF FinishExecution, FlowInv, RunFlows
  <2>2. S \in AgentState /\ S.retry = s.retry
    <3>1. S.retry = s.retry
      BY <1>1 DEF Executed, AgentState
    <3>2. S \in AgentState
      BY <1>1, ExecutedType
    <3> QED
      BY <3>1, <3>2
  <2>3. Budgeted(S, n, count)
    BY <1>1, <2>1, <2>2, RoutesKeepBudget DEF Proposing
  <2>4. n \in {"decide_next_step", "increment_retry", "synthesize_answer"}
    BY <2>2, RouteTypes
  <2> HIDE DEF S, n
  <2> QED
    BY <1>5, <2>1, <2>3, <2>4
<1>9. CASE DecideNextStep(r)
  <2>1. Superstep(r, s, "synthesize_answer")
    BY <1>9 DEF DecideNextStep, AfterDecide, s
  <2>2. Budgeted(s, "synthesize_answer", count)
    BY <1>1, RoutesKeepBudget
  <2> QED
    BY <1>5, <2>1, <2>2
<1>10. CASE IncrementRetry(r)
  <2>1. Superstep(r, Retried(s), "generate_sql") /\ run[r].at = "increment_retry"
    BY <1>10 DEF IncrementRetry, AtNode, s
  <2>2. Budgeted(Retried(s), "generate_sql", count)
    BY <1>1, <2>1, RoutesKeepBudget
  <2> QED
    BY <1>5, <2>1, <2>2
<1> QED
  BY <1>6, <1>7, <1>8, <1>9, <1>10

\* The decision: the contract approves the proposal the thread has open, or
\* withdraws it.
LEMMA FlowDecide ==
    ASSUME ~SaverMayLag, FlowInv, ProvInv', GuardInv', ApprovalInv',
           NEW r \in Reqs, Decide(r)
    PROVE  FlowInv' /\ ContractStep
<1> DEFINE c == ConvOf(r)
           s == run[r].values
           S == Reviewed(s, job[r].approve)
           n == AfterReview(S)
           P == ProposalOf(c, s)
           count == attempts[c]
<1>0. pc[r] = "running" /\ run[r].at = "human_review" /\ run[r].resume
  BY DEF Decide, AtNode
<1>1. /\ TypeOK /\ c \in Convs /\ s \in AgentState /\ count \in Nat
      /\ ckpt[c] = CheckpointOf(r) /\ Budgeted(s, "human_review", count)
      /\ P \notin executed /\ P \in minted
  BY <1>0, RunKnows DEF ActivePcs, Proposing
<1>2. /\ Superstep(r, S, n)
      /\ UNCHANGED <<job, pc, issued, minted, offered, executed, attempts>>
  BY DEF Decide
<1>3. /\ attempts' = [attempts EXCEPT ![ConvOf(r)] = count]
      /\ pc[r] \in GuardedPcs /\ pc' = [pc EXCEPT ![r] = "running"]
  BY <1>0, <1>1, <1>2 DEF TypeOK, GuardedPcs
<1>4. MintedWell'
  BY <1>2 DEF FlowInv, MintedWell
<1>5. job[r].approve \in BOOLEAN
  BY <1>1, RunType
<1>6. /\ S \in AgentState /\ S.retry = s.retry /\ ProposalOf(c, S) = P
      /\ n \in {"execute_sql", "increment_retry", "synthesize_answer"}
  <2>1. S \in AgentState /\ ProposalOf(c, S) = P
    BY <1>1, <1>5, ReviewedType, NodesKeepProposal
  <2>2. S.retry = s.retry
    BY <1>1 DEF Reviewed, AgentState
  <2> QED
    BY <2>1, <2>2, RouteTypes
<1>7. P \in offered
  <2>1. job[r].token = s.token /\ job[r].kind = "review"
    BY <1>0 DEF FlowInv, ApprovalInv, CheckStands, ActivePcs
  <2>2. PICK o \in offered : o.token = s.token
    BY <1>0, <2>1 DEF FlowInv, ProvInv, ReviewInv, ReviewsNameOffers, BusyPcs, GuardedPcs
  <2>3. o \in minted /\ o.token = P.token
    BY <2>2, ProposalFields DEF FlowInv, ProvInv, ReviewInv
  <2> QED
    BY <1>1, <2>2, <2>3 DEF FlowInv, ProvInv, ReviewInv, TokensAreUnique
<1>8. Carries(c, S, n, count, offered, executed)
  <2>1. Budgeted(S, n, count)
    BY <1>1, <1>6, RoutesKeepBudget DEF Proposing
  <2> QED
    BY <1>1, <1>6, <2>1 DEF Carries
<1>9. CASE n # "execute_sql"
  <2> HIDE DEF S, n, count
  <2> QED
    BY <1>2, <1>3, <1>4, <1>8, <1>9, FlowMove
<1>10. CASE n = "execute_sql"
  <2>1. Opened[c] = {P}
    BY <1>0, <1>1, <1>7, MappingNow DEF OpenAt, CheckpointOf
  <2> DEFINE k == [values |-> S, next |-> n]
  <2>2. OpenAt(c, k, offered) = {} /\ GrantAt(c, k, executed) = {P}
    <3>1. k.values = S /\ k.next = "execute_sql"
      BY <1>10
    <3> HIDE DEF k, S, P
    <3> QED
      BY <1>1, <1>6, <3>1 DEF OpenAt, GrantAt
  <2> HIDE DEF S, n, count
  <2>3. FlowInv'
    BY <1>2, <1>3, <1>4, <1>8, FlowStep
  <2>4. Opened' = [Opened EXCEPT ![c] = {}] /\ Granted' = [Granted EXCEPT ![c] = {P}]
    <3>1. /\ Opened' = [Opened EXCEPT ![c] = OpenAt(c, k, offered)]
          /\ Granted' = [Granted EXCEPT ![c] = GrantAt(c, k, executed)]
      BY <1>2, ThreadMoves
    <3> QED
      BY <2>2, <3>1
  <2> HIDE DEF c, P
  <2>5. Opened[c] # {} /\ Granted' = [Granted EXCEPT ![c] = Opened[c]]
    BY <2>1, <2>4
  <2> QED
    BY <1>1, <1>2, <2>3, <2>4, <2>5, ContractApproves
<1> QED
  BY <1>9, <1>10

\* A proposal that is not a refusal can be shown: a saved analysis' SQL was shown
\* before it was saved.
LEMMA ProposalsAreShowable ==
    ASSUME FlowInv, NEW c \in Convs, NEW s \in AgentState,
           ProposalOf(c, s) \in minted, s.sql # CannotAnswer
    PROVE  ProposalOf(c, s) \in Showable
<1> DEFINE P == ProposalOf(c, s)
<1>1. /\ P.conv = c /\ P.source = s.source /\ P.sql = s.sql /\ P.saved = s.saved
      /\ P = [conv |-> c, token |-> P.token, source |-> P.source, sql |-> P.sql,
              saved |-> P.saved]
  BY DEF ProposalOf
<1>2. P.source \in AnySource
  BY <1>1 DEF AgentState, AnySource
<1> HIDE DEF P
<1>3. P \in minted /\ P.token \in 1 .. MaxTokens
  BY DEF P, FlowInv, MintedWell
<1>4. P.sql \in Queries /\ P.saved \in Queries \cup {NoSql}
  <2>1. CASE P.saved = NoSql
    BY <1>1, <1>3, <2>1 DEF FlowInv, MintedWell
  <2>2. CASE P.saved # NoSql
    <3>1. MintedAsSaved(minted, analyses)
      BY SavedSqlParts DEF FlowInv, ProvInv, RowsInv
    <3>2. PICK a \in Analyses : analyses[a] # Unsaved /\ analyses[a].sql = P.saved
      BY <1>3, <2>2, <3>1 DEF MintedAsSaved
    <3>3. AnalysisHolds(analyses[a], executed)
      BY DEF FlowInv, ProvInv, RowsInv, AnswersOfRuns
    <3>4. PICK q \in executed : q.sql = P.saved
      BY <3>2, <3>3 DEF AnalysisHolds
    <3>5. q \in Showable
      BY DEF FlowInv, ApprovalInv, ExecutedAsApproved
    <3> QED
      BY <1>3, <2>2, <3>1, <3>4, <3>5 DEF MintedAsSaved, Showable
  <2> QED
    BY <2>1, <2>2
<1>5. P \in Showable
  BY <1>1, <1>2, <1>3, <1>4 DEF Showable
<1> QED
  BY <1>5 DEF P

\* Leaving the stream changes no thread whose saver keeps up.
LEMMA FlushIsQuiet ==
    ASSUME FlowInv, NEW r \in Reqs, pc[r] \in ActivePcs, Flush(r)
    PROVE  ckpt' = ckpt
<1>1. TypeOK /\ ConvOf(r) \in Convs /\ ckpt[ConvOf(r)] = CheckpointOf(r)
  BY RunKnows
<1> QED
  BY <1>1 DEF Flush, TypeOK

LEMMA FlowRaises ==
    ASSUME FlowInv, ProvInv', GuardInv', ApprovalInv',
           NEW r \in Reqs, NodeRaises(r)
    PROVE  FlowInv' /\ ContractStep
<1>1. /\ TypeOK /\ Finish(r) /\ ckpt' = ckpt
      /\ UNCHANGED <<attempts, offered, executed, minted, issued>>
  BY FlushIsQuiet DEF NodeRaises, ActivePcs, historyVars, FlowInv, GuardInv
<1> QED
  BY <1>1, FinishIsQuiet, FlowQuiet DEF ActivePcs

\* The pause: the contract proposes, under a token no proposal was shown with.
LEMMA FlowPause ==
    ASSUME FlowInv, ProvInv', GuardInv', ApprovalInv',
           NEW r \in Reqs, PauseForReview(r)
    PROVE  FlowInv' /\ ContractStep
<1> DEFINE c == ConvOf(r)
           P == ProposalOf(c, run[r].values)
<1>0. pc[r] = "running" /\ run[r].at = "human_review" /\ ~run[r].resume
  BY DEF PauseForReview, AtNode
<1>1. /\ TypeOK /\ c \in Convs /\ run[r].values \in AgentState
      /\ ckpt[c] = CheckpointOf(r) /\ P \in minted
      /\ run[r].values.sql # CannotAnswer
  BY <1>0, RunKnows DEF ActivePcs, Proposing
<1>2. P \notin offered /\ P.conv = c
  BY <1>0, ProposalFields DEF FlowInv, RunFlows
<1>3. /\ offered' = offered \cup {P} /\ ckpt' = ckpt /\ Finish(r)
      /\ UNCHANGED <<issued, minted, executed, attempts>>
  BY <1>0, FlushIsQuiet DEF PauseForReview, ActivePcs
<1>4. P \in Showable
  BY <1>1, ProposalsAreShowable
<1>5. ckpt[c].next = "human_review" /\ ckpt[c].values = run[r].values
  BY <1>0, <1>1 DEF CheckpointOf
<1>6. ThreadsFlow'
  <2>1. ASSUME NEW d \in Convs PROVE Flows(d, ckpt[d], attempts[d], offered', executed)
    <3>1. Flows(d, ckpt[d], attempts[d], offered, executed)
      BY DEF FlowInv, ThreadsFlow
    <3>2. ckpt[d].next = "validate_sql" => ProposalOf(d, ckpt[d].values) # P
      BY <1>2, <1>5, ProposalFields
    <3> QED
      BY <1>3, <3>1, <3>2 DEF Flows
  <2> QED
    BY <1>3, <2>1 DEF ThreadsFlow
<1>7. ASSUME NEW q \in Reqs PROVE RunFlows(q)'
  <2>1. \/ pc'[q] = "idle"
        \/ q # r /\ pc'[q] = pc[q] /\ job'[q] = job[q] /\ run'[q] = run[q]
    BY <1>1, <1>3, FinishIsQuiet DEF Finish, TypeOK
  <2>2. q # r /\ pc[q] = "running" => ProposalOf(ConvOf(q), run[q].values) # P
    BY <1>0, <1>2, OneOnAThread, ProposalFields DEF FlowInv, GuardedPcs
  <2>3. RunFlows(q)
    BY DEF FlowInv
  <2> HIDE DEF c, P
  <2> QED
    BY <1>3, <2>1, <2>2, <2>3 DEF RunFlows, ActivePcs, ConvOf, CheckpointOf
<1>8. MintedWell' /\ (offered \subseteq Showable)'
  BY <1>3, <1>4 DEF FlowInv, MintedWell, Showable
<1>9. P.token \notin {q.token : q \in offered}
  BY <1>1, <1>2 DEF FlowInv, ProvInv, ReviewInv, TokensAreUnique
<1>10. /\ Opened[c] = {} /\ Granted[c] = {}
       /\ Opened' = [Opened EXCEPT ![c] = {P}] /\ Granted' = Granted
  <2>1. /\ OpenAt(c, ckpt[c], offered) = {} /\ GrantAt(c, ckpt[c], executed) = {}
        /\ OpenAt(c, ckpt'[c], offered') = {P} /\ GrantAt(c, ckpt'[c], executed') = {}
    BY <1>2, <1>3, <1>5 DEF OpenAt, GrantAt
  <2>2. /\ Opened' = [Opened EXCEPT ![c] = OpenAt(c, ckpt'[c], offered')]
        /\ Granted' = [Granted EXCEPT ![c] = GrantAt(c, ckpt'[c], executed')]
    BY <1>1, <1>3, MappingMoves
  <2>3. Opened[c] = OpenAt(c, ckpt[c], offered) /\ Granted[c] = GrantAt(c, ckpt[c], executed)
    BY <1>1, MappingNow
  <2>4. Granted' = Granted
    BY <1>3, MappingNow, MappingNext
  <2> QED
    BY <2>1, <2>2, <2>3, <2>4
<1> HIDE DEF c, P
<1>11. ContractStep
  BY <1>1, <1>2, <1>3, <1>4, <1>9, <1>10, ContractProposes
<1> QED
  BY <1>6, <1>7, <1>8, <1>11 DEF FlowInv

\* The execution: the contract runs what it granted.
LEMMA FlowExecute ==
    ASSUME FlowInv, ProvInv', GuardInv', ApprovalInv',
           NEW r \in Reqs, StartExecution(r)
    PROVE  FlowInv' /\ ContractStep
<1> DEFINE c == ConvOf(r)
           P == ProposalOf(c, run[r].values)
<1>0. pc[r] = "running" /\ run[r].at = "execute_sql"
  BY DEF StartExecution, AtNode
<1>1. TypeOK /\ c \in Convs /\ ckpt[c] = CheckpointOf(r)
  BY <1>0, RunKnows DEF ActivePcs
<1>2. P \notin executed /\ P.conv = c
  BY <1>0, ProposalFields DEF FlowInv, RunFlows
<1>3. /\ executed' = executed \cup {P}
      /\ UNCHANGED <<ckpt, job, run, issued, minted, offered, attempts>>
      /\ pc'[r] = "executing" /\ \A q \in Reqs \ {r} : pc'[q] = pc[q]
  BY <1>1 DEF StartExecution, TypeOK
<1>4. ckpt[c].next = "execute_sql" /\ ckpt[c].values = run[r].values
  BY <1>0, <1>1 DEF CheckpointOf
<1>5. ThreadsFlow'
  <2>1. ASSUME NEW d \in Convs PROVE Flows(d, ckpt[d], attempts[d], offered, executed')
    <3>1. Flows(d, ckpt[d], attempts[d], offered, executed)
      BY DEF FlowInv, ThreadsFlow
    <3>2. ckpt[d].next = "human_review" => ProposalOf(d, ckpt[d].values) # P
      BY <1>2, <1>4, ProposalFields
    <3> QED
      BY <1>3, <3>1, <3>2 DEF Flows
  <2> QED
    BY <1>3, <2>1 DEF ThreadsFlow
<1>6. ASSUME NEW q \in Reqs PROVE RunFlows(q)'
  <2>1. RunFlows(q)
    BY DEF FlowInv
  <2>2. q # r /\ pc[q] = "running" => ProposalOf(ConvOf(q), run[q].values) # P
    BY <1>0, <1>2, OneOnAThread, ProposalFields DEF FlowInv, GuardedPcs
  <2>3. CASE q = r
    BY <1>0, <1>1, <1>3, <2>3 DEF RunFlows, ActivePcs, ConvOf, CheckpointOf
  <2>4. CASE q # r
    <3> HIDE DEF c, P
    <3> QED
      BY <1>3, <2>1, <2>2, <2>4 DEF RunFlows, ActivePcs, ConvOf, CheckpointOf
  <2> QED
    BY <2>3, <2>4
<1>7. MintedWell' /\ (offered \subseteq Showable)'
  BY <1>3 DEF FlowInv, MintedWell, Showable
<1>8. /\ Granted[c] = {P} /\ Granted' = [Granted EXCEPT ![c] = {}] /\ Opened' = Opened
  <2>1. GrantAt(c, ckpt[c], executed) = {P} /\ GrantAt(c, ckpt'[c], executed') = {}
    BY <1>2, <1>3, <1>4 DEF GrantAt
  <2>2. Granted' = [Granted EXCEPT ![c] = GrantAt(c, ckpt'[c], executed')]
    BY <1>1, <1>3, MappingMoves
  <2>3. Granted[c] = GrantAt(c, ckpt[c], executed)
    BY <1>1, MappingNow
  <2>4. Opened' = Opened
    BY <1>3, MappingNow, MappingNext
  <2> QED
    BY <2>1, <2>2, <2>3, <2>4
<1> HIDE DEF c, P
<1>9. /\ Granted[c] # {} /\ Granted[c] \cap executed = {}
      /\ executed' = executed \cup Granted[c] /\ offered' = offered
  BY <1>2, <1>3, <1>8
<1>10. ContractStep
  BY <1>1, <1>8, <1>9, ContractRuns
<1> QED
  BY <1>5, <1>6, <1>7, <1>10 DEF FlowInv

LEMMA FlowSynthesize ==
    ASSUME FlowInv, ProvInv', GuardInv', ApprovalInv',
           NEW r \in Reqs, SynthesizeAnswer(r)
    PROVE  FlowInv' /\ ContractStep
<1> DEFINE c == ConvOf(r)
<1>0. pc[r] = "running" /\ run[r].at = "synthesize_answer"
  BY DEF SynthesizeAnswer, AtNode
<1>1. /\ TypeOK /\ c \in Convs
      /\ Budgeted(run[r].values, run[r].at, attempts[c])
  BY <1>0, RunKnows DEF ActivePcs
<1>2. /\ UNCHANGED <<job, issued, minted, offered, executed, attempts>>
      /\ pc'[r] = "answering"
      /\ \A q \in Reqs \ {r} : pc'[q] = pc[q] /\ run'[q] = run[q]
      /\ ckpt'[c].next = "end" /\ \A d \in Convs \ {c} : ckpt'[d] = ckpt[d]
  BY <1>1 DEF SynthesizeAnswer, historyVars, TypeOK
<1>3. ThreadsFlow'
  <2>1. Flows(c, ckpt'[c], attempts[c], offered, executed)
    BY <1>1, <1>2 DEF Flows, Budgeted, Proposing
  <2>2. \A d \in Convs \ {c} : Flows(d, ckpt'[d], attempts[d], offered, executed)
    BY <1>2 DEF FlowInv, ThreadsFlow
  <2> QED
    BY <1>2, <2>1, <2>2 DEF ThreadsFlow
<1>4. ASSUME NEW q \in Reqs PROVE RunFlows(q)'
  <2>1. RunFlows(q)
    BY DEF FlowInv
  <2>2. q # r /\ pc[q] \in ActivePcs => ckpt'[ConvOf(q)] = ckpt[ConvOf(q)]
    BY <1>0, <1>1, <1>2, OneOnAThread, RunType DEF FlowInv, ActivePcs, GuardedPcs
  <2> HIDE DEF c
  <2> QED
    BY <1>2, <2>1, <2>2 DEF RunFlows, ActivePcs, ConvOf, CheckpointOf
<1>5. MintedWell' /\ (offered \subseteq Showable)'
  BY <1>2 DEF FlowInv, MintedWell, Showable
<1>6. Opened' = [Opened EXCEPT ![c] = {}] /\ Granted' = [Granted EXCEPT ![c] = {}]
  <2>1. /\ OpenAt(c, ckpt'[c], offered') = {} /\ GrantAt(c, ckpt'[c], executed') = {}
    BY <1>2 DEF OpenAt, GrantAt
  <2>2. /\ Opened' = [Opened EXCEPT ![c] = OpenAt(c, ckpt'[c], offered')]
        /\ Granted' = [Granted EXCEPT ![c] = GrantAt(c, ckpt'[c], executed')]
    BY <1>1, <1>2, MappingMoves
  <2> QED
    BY <2>1, <2>2
<1> HIDE DEF c
<1>7. ContractStep
  BY <1>1, <1>2, <1>6, ContractWithdraws
<1> QED
  BY <1>3, <1>4, <1>5, <1>7 DEF FlowInv

LEMMA FlowNext ==
    ASSUME ~LockMayDrop, ~SaverMayLag
    PROVE  FlowInv /\ [Next]_vars => FlowInv' /\ ContractStep
<1> SUFFICES ASSUME FlowInv, [Next]_vars PROVE FlowInv' /\ ContractStep
  OBVIOUS
<1>1. ProvInv' /\ GuardInv' /\ ApprovalInv'
  BY ProvNext, GuardNext, ApprovalNext DEF FlowInv, ProvInv
<1>2. CASE UNCHANGED vars
  <2>1. UNCHANGED <<ckpt, attempts, offered, executed, minted, issued, pc, job, run>>
    BY <1>2 DEF vars, historyVars
  <2> QED
    BY <1>1, <2>1, FlowQuiet
<1>3. CASE Next
  BY <1>1, <1>3, FlowElsewhere, FlowStart, FlowNodes, FlowGenerate, FlowDecide,
     FlowPause, FlowRaises, FlowExecute, FlowSynthesize DEF Next, Advance, Fail
<1> QED
  BY <1>2, <1>3

\* With durable checkpoints and a guard that holds, generate_sql runs at most
\* MaxRetries + 1 times for a question, through pauses, reviews, failures, crashes
\* and questions that supersede it.
THEOREM RetriesAreBounded ==
    ASSUME ~LockMayDrop, ~SaverMayLag
    PROVE  Spec => []RetryBudget
<1>1. FlowInv /\ [Next]_vars => FlowInv'
  BY FlowNext
<1>2. FlowInv => RetryBudget
  BY DEF FlowInv, ThreadsFlow, Flows, Budgeted, RetryBudget
<1> QED
  BY <1>1, <1>2, FlowInit, PTL DEF Spec

\* Under the same conditions every step of the workflow is a step of ReviewContract
\* or none: review and execution of the agent implement the contract.
THEOREM ContractImplemented ==
    ASSUME ~LockMayDrop, ~SaverMayLag
    PROVE  Spec => ImplementsContract
<1>1. FlowInv /\ [Next]_vars => FlowInv'
  BY FlowNext
<1>2. FlowInv /\ [Next]_vars => [Contract!Next]_(Contract!contractVars)
  BY FlowNext DEF ContractStep
<1> QED
  BY <1>1, <1>2, FlowInit, ContractInit, PTL DEF Spec, ImplementsContract, Contract!Spec
=============================================================================
