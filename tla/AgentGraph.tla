----------------------------- MODULE AgentGraph -----------------------------
(***************************************************************************)
(* The LangGraph agent of backend/app/graph.py as pure operators: what     *)
(* each node returns (nodes/*.py) and which node the router picks next     *)
(* (graph_routing.py).  QueryWorkflow drives these operators.              *)
(*                                                                         *)
(* An AgentState keeps the fields that routing, review and provenance read *)
(* or write.  The question, the prompt context, the node path, the chart   *)
(* and the answer text are payload no decision depends on and are left     *)
(* out, and so is needs_python_tool, which decide_next_step always clears. *)
(***************************************************************************)
EXTENDS Integers

CONSTANTS
    Queries,      \* SQL texts the model, or a saved analysis, may propose
    Sources,      \* saved customer connections (UserConnection ids)
    Analyses,     \* saved analyses (SavedAnalysis ids)
    MaxRetries    \* settings.max_retries

NoSql        == "no_sql"         \* generated_sql / saved_sql is None
CannotAnswer == "CANNOT_ANSWER"  \* the model declined
Chinook      == "chinook"        \* connection_id is None: the sample database
NoAnalysis   == "no_analysis"    \* saved_analysis_id is None
NoToken      == 0                \* no review_token has been written yet

ASSUME GraphAssumption ==
    /\ MaxRetries \in Nat
    /\ {NoSql, CannotAnswer} \cap Queries = {}
    /\ Chinook \notin Sources
    /\ NoAnalysis \notin Analyses

Nodes == {"table_selector", "generate_sql", "validate_sql", "human_review",
          "execute_sql", "decide_next_step", "increment_retry",
          "synthesize_answer", "end"}

SqlText == Queries \cup {NoSql, CannotAnswer}

AgentState ==
    [source : Sources \cup {Chinook},       \* connection_id
     aid    : Analyses \cup {NoAnalysis},   \* saved_analysis_id
     saved  : SqlText,                      \* saved_sql
     sql    : SqlText,                      \* generated_sql
     valid  : BOOLEAN,                      \* sql_valid
     verr   : {"none", "invalid", "cannot", "rejected"},
     eerr   : BOOLEAN,                      \* execution_error is set
     rows   : BOOLEAN,                      \* sql_results is not None
     retry  : Nat,
     token  : Nat,                          \* review_token
     hitl   : {"none", "yes", "no"}]        \* hitl_approved

EmptyState ==
    [source |-> Chinook, aid |-> NoAnalysis, saved |-> NoSql, sql |-> NoSql,
     valid |-> FALSE, verr |-> "none", eerr |-> FALSE, rows |-> FALSE,
     retry |-> 0, token |-> NoToken, hitl |-> "none"]

(***************************************************************************)
(* The state a new question starts from: the input of /chat overwrites the *)
(* checkpointed channels, except review_token, which it does not name.     *)
(***************************************************************************)
InitialState(old, source, aid, saved) ==
    [EmptyState EXCEPT !.source = source, !.aid = aid, !.saved = saved,
                       !.token = old.token]

HasSavedSql(s) == s.saved # NoSql

-----------------------------------------------------------------------------
(* What the nodes return *)

\* Mutant of Generated: a saved analysis is handed to the model as well.
GeneratedByModelAlways(s, answer, token) ==
    [s EXCEPT !.sql = answer, !.token = token, !.valid = FALSE,
              !.verr = "none", !.eerr = FALSE, !.hitl = "none"]

\* generate_sql: a fresh token for every proposal; the errors of the previous
\* attempt and its review are cleared.
Generated(s, answer, token) ==
    [s EXCEPT !.sql = IF HasSavedSql(s) THEN s.saved ELSE answer,
              !.token = token, !.valid = FALSE,
              !.verr = "none", !.eerr = FALSE, !.hitl = "none"]

\* validate_sql: a refusal of the model is never valid; any other text may pass
\* the parser, the policy and the allowlist (ok) or fail one of them.
Validated(s, ok) ==
    IF s.sql = CannotAnswer
    THEN [s EXCEPT !.valid = FALSE, !.verr = "cannot"]
    ELSE [s EXCEPT !.valid = ok, !.verr = IF ok THEN "none" ELSE "invalid"]

\* human_review, resumed with the payload of POST /chat/review.
Reviewed(s, approved) ==
    [s EXCEPT !.hitl = IF approved THEN "yes" ELSE "no",
              !.verr = IF approved THEN "none" ELSE "rejected"]

\* execute_sql: rows, or any exception turned into execution_error.
Executed(s, ok) == [s EXCEPT !.rows = ok, !.eerr = ~ok]

\* Mutant of Retried: the counter is left where it was.
RetriedForFree(s) == [s EXCEPT !.hitl = "none"]

\* increment_retry
Retried(s) == [s EXCEPT !.retry = @ + 1, !.hitl = "none"]

-----------------------------------------------------------------------------
(* Routing *)

RetryOrAnswer(s) ==
    IF s.retry < MaxRetries THEN "increment_retry" ELSE "synthesize_answer"

\* Mutant of AfterValidate: the retry budget is never consulted.
AfterValidateUnbounded(s) ==
    CASE s.valid                                    -> "human_review"
      [] ~s.valid /\ (HasSavedSql(s) \/ s.verr = "cannot")
                                                    -> "synthesize_answer"
      [] OTHER                                      -> "increment_retry"

AfterValidate(s) ==
    CASE s.valid                                    -> "human_review"
      [] ~s.valid /\ (HasSavedSql(s) \/ s.verr = "cannot")
                                                    -> "synthesize_answer"
      [] OTHER                                      -> RetryOrAnswer(s)

AfterReview(s) ==
    CASE s.hitl = "yes"                             -> "execute_sql"
      [] s.hitl # "yes" /\ HasSavedSql(s)           -> "synthesize_answer"
      [] OTHER                                      -> RetryOrAnswer(s)

AfterExecute(s) ==
    CASE ~s.eerr                                    -> "decide_next_step"
      [] s.eerr /\ HasSavedSql(s)                   -> "synthesize_answer"
      [] OTHER                                      -> RetryOrAnswer(s)

\* needs_python_tool is FALSE here: decide_next_step has just cleared it.
AfterDecide(s) == "synthesize_answer"

\* The nodes that may raise: they resolve the account's model key and call the
\* model (or introspect the customer's schema) outside any try block, and the
\* tokenizer's errors are not the ParseError validate_sql catches.
MayRaise(node, s) ==
    \/ node \in {"table_selector", "generate_sql"} /\ ~HasSavedSql(s)
    \/ node = "validate_sql" /\ s.sql # CannotAnswer
    \/ /\ node = "synthesize_answer"
       /\ ~(HasSavedSql(s) /\ (s.verr # "none" \/ s.eerr))

\* Mutant of Succeeded: the validation error of a rejected text is forgotten.
SucceededWithSql(s) == s.sql # NoSql /\ ~s.eerr

\* _emit_answer_and_done: the answer may be saved and shown as a result.
Succeeded(s) == s.rows /\ ~s.eerr /\ s.verr = "none" /\ s.hitl = "yes"
=============================================================================
