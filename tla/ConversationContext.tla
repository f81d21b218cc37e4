------------------------- MODULE ConversationContext -------------------------
(***************************************************************************)
(* What a conversation remembers: the transcript in the order of           *)
(* created_at, which get_messages shows and get_conversation_context       *)
(* reads, and the context each question takes from it.  A question is      *)
(* stored, and its context read, before the guard admits its run           *)
(* (QueryWorkflow has that as one step, here it is what happens between).  *)
(* created_at is the time a message's transaction began, so the transcript *)
(* is not in the order of commits.  One conversation, whose guard is kept: *)
(* losing it is QueryWorkflow's LoseLocks.                                 *)
(***************************************************************************)
EXTENDS Integers, Sequences, FiniteSets, SequencesExt

CONSTANTS
    Reqs,       \* requests of /chat for this conversation, one question each
    Lengths,    \* lengths of a message as a block of the context
    Limit,      \* messages read for a context: 12
    Budget      \* characters of a context: 16000

ASSUME ContextAssumption ==
    /\ Limit \in Nat \ {0} /\ Budget \in Nat
    /\ Lengths \subseteq 1 .. Budget     \* a block is cut to some 8000 characters
    /\ "other" \notin Reqs

VARIABLES
    convo,      \* "none", "there" or "deleted"
    title,      \* its title: the request it is named after, or "other"
    messages,   \* its committed messages
    req,        \* what each request holds
    now         \* the application database's clock

convoVars == <<convo, title, messages, req, now>>

\* The two parts a block is joined to the next by: "\n\n".
Separator == 2

Message == [by : Reqs, role : {"user", "assistant"}, at : Nat, length : Lengths]

Pcs == {"unsent", "created", "open", "read", "stored", "running", "paused",
        "answering", "over"}

\* at: when its transaction began.  context: what it has read.  met: history,
\* the requests in flight when it was sent.  answered: history, those whose
\* answers were stored before it was admitted.
Request == [pc : Pcs, creator : BOOLEAN, at : Nat, context : SUBSET Message,
            met : SUBSET Reqs, answered : SUBSET Reqs]

NewRequest == [pc |-> "unsent", creator |-> FALSE, at |-> 0, context |-> {},
               met |-> {}, answered |-> {}]

Init ==
    /\ convo = "none"
    /\ title = "other"
    /\ messages = {}
    /\ req = [r \in Reqs |-> NewRequest]
    /\ now = 1

InFlight == {r \in Reqs : req[r].pc \notin {"unsent", "over"}}

\* A run is under the conversation's guard.
Admitted(r) == req[r].pc \in {"running", "answering"}

GuardFree == \A r \in Reqs : ~Admitted(r)

ContextTypeOK ==
    /\ convo \in {"none", "there", "deleted"}
    /\ title \in Reqs \cup {"other"}
    /\ messages \subseteq Message
    /\ req \in [Reqs -> Request]
    /\ now \in Nat
    /\ Cardinality({r \in Reqs : Admitted(r)}) <= 1

Goes(r, pc) == req' = [req EXCEPT ![r].pc = pc]

\* Answered, or not: then it leaves nothing but its question, if that is stored.
Ends(r) == Goes(r, "over")
Over(q) == [NewRequest EXCEPT !.pc = "over", !.met = req[q].met]
Fails(r) == req' = [req EXCEPT ![r] = Over(r)]

-----------------------------------------------------------------------------
(* get_conversation_context *)

\* Mutant of NewestFirst: ORDER BY created_at.
OldestFirst(S) ==
    [i \in 1 .. Cardinality(S) |->
        CHOOSE m \in S : Cardinality({n \in S : n.at < m.at}) = i - 1]

\* ORDER BY created_at DESC: the i-th has i - 1 newer ones.
NewestFirst(S) ==
    [i \in 1 .. Cardinality(S) |->
        CHOOSE m \in S : Cardinality({n \in S : n.at > m.at}) = i - 1]

\* Mutant of Take: a block too long is left out and older ones still tried.
TakeSkipping(acc, m) ==
    IF m.length > acc.left THEN acc
    ELSE [acc EXCEPT !.blocks = @ \cup {m}, !.left = @ - (m.length + Separator)]

\* One turn of the loop, which a block that does not fit ends.
Take(acc, m) ==
    IF acc.full \/ m.length > acc.left THEN [acc EXCEPT !.full = TRUE]
    ELSE [acc EXCEPT !.blocks = @ \cup {m}, !.left = @ - (m.length + Separator)]

GetConversationContext(S) ==
    LET newest == NewestFirst(S)
        read == SubSeq(newest, 1, IF Len(newest) < Limit THEN Len(newest) ELSE Limit)
    IN FoldLeft(Take, [blocks |-> {}, left |-> Budget, full |-> FALSE], read).blocks

-----------------------------------------------------------------------------
(* POST /chat until the stream begins *)

Sends(r, pc, creator) ==
    /\ req[r].pc = "unsent"
    /\ req' = [req EXCEPT ![r] = [NewRequest EXCEPT
                 !.pc = pc, !.creator = creator, !.at = now, !.met = InFlight]]

\* Without a conversation_id: the conversation is committed first, so others can
\* find it, and the rest is a transaction that begins after.
AskInNew(r) ==
    /\ convo = "none" /\ Sends(r, "created", TRUE)
    /\ convo' = "there"
    /\ UNCHANGED <<title, messages, now>>

\* Nothing to read in a conversation of one's own.
BeginQuestion(r) ==
    /\ req[r].pc = "created"
    /\ req' = [req EXCEPT ![r].pc = "read", ![r].at = now]
    /\ now' = now + 1
    /\ UNCHANGED <<convo, title, messages>>

AskInOpen(r) ==
    /\ convo = "there" /\ Sends(r, "open", FALSE)
    /\ now' = now + 1
    /\ UNCHANGED <<convo, title, messages>>

ReadContext(r) ==
    /\ req[r].pc = "open"
    /\ req' = [req EXCEPT ![r].pc = "read",
                          ![r].context = GetConversationContext(messages)]
    /\ UNCHANGED <<convo, title, messages, now>>

\* created_at: now(), the time the transaction began.
Created(at) == at

\* Mutant of Titled: every question names the conversation.
TitledByAny(r) == r

Titled(r) == IF req[r].creator THEN r ELSE title

\* The question, and the title of a new conversation; a deleted conversation
\* fails the insert.
StoreQuestion(r) ==
    /\ req[r].pc = "read"
    /\ IF convo = "there"
         THEN /\ \E l \in Lengths :
                   messages' = messages \cup {[by |-> r, role |-> "user",
                                               at |-> Created(req[r].at), length |-> l]}
              /\ title' = Titled(r)
              /\ Goes(r, "stored")
         ELSE Fails(r) /\ UNCHANGED <<messages, title>>
    /\ UNCHANGED <<convo, now>>

-----------------------------------------------------------------------------
(* The run *)

Answered == {m.by : m \in {m \in messages : m.role = "assistant"}}

\* Mutant of Superseded: a new question leaves the pending review as it is.
NoneSuperseded(r) == {}

\* A new question starts the thread over: what waits for a review is lost.
Superseded(r) == {q \in Reqs \ {r} : req[q].pc = "paused"}

Admit(r) ==
    /\ req[r].pc = "stored" /\ GuardFree
    /\ req' = [q \in Reqs |->
         IF q = r THEN [req[r] EXCEPT !.pc = "running", !.answered = Answered]
         ELSE IF q \in Superseded(r) THEN Over(q)
         ELSE req[q]]
    /\ UNCHANGED <<convo, title, messages, now>>

PauseForReview(r) ==
    /\ req[r].pc = "running" /\ Goes(r, "paused")
    /\ UNCHANGED <<convo, title, messages, now>>

\* /chat/review: the context is that of the checkpoint.
ResumeReview(r) ==
    /\ req[r].pc = "paused" /\ GuardFree /\ Goes(r, "running")
    /\ UNCHANGED <<convo, title, messages, now>>

\* The answer is inserted by a transaction of its own, which begins here ...
BeginAnswer(r) ==
    /\ req[r].pc = "running"
    /\ req' = [req EXCEPT ![r].pc = "answering", ![r].at = now]
    /\ now' = now + 1
    /\ UNCHANGED <<convo, title, messages>>

\* ... and is committed while the guard is still held.
StoreAnswer(r) ==
    /\ req[r].pc = "answering"
    /\ IF convo = "there"
         THEN /\ \E l \in Lengths :
                   messages' = messages \cup {[by |-> r, role |-> "assistant",
                                               at |-> Created(req[r].at), length |-> l]}
              /\ Ends(r)
         ELSE Fails(r) /\ UNCHANGED messages
    /\ UNCHANGED <<convo, title, now>>

\* Refused: no key, over the quota, another query of the user running.  Failed:
\* a node raises, the client or the worker goes away.  (A run so lost after its
\* review was resumed may find it pending still: as PauseForReview.)
Fail(r) ==
    /\ r \in InFlight /\ req[r].pc # "paused"
    /\ Fails(r)
    /\ UNCHANGED <<convo, title, messages, now>>

-----------------------------------------------------------------------------
(* /conversations *)

RenameConvo ==
    /\ convo = "there" /\ title' = "other"
    /\ UNCHANGED <<convo, messages, req, now>>

\* Its messages are deleted with it.
DeleteConvo ==
    /\ convo = "there" /\ convo' = "deleted" /\ messages' = {}
    /\ UNCHANGED <<title, req, now>>

Next ==
    \/ \E r \in Reqs :
         \/ AskInNew(r) \/ BeginQuestion(r) \/ AskInOpen(r) \/ ReadContext(r)
         \/ StoreQuestion(r) \/ Admit(r) \/ PauseForReview(r) \/ ResumeReview(r)
         \/ BeginAnswer(r) \/ StoreAnswer(r) \/ Fail(r)
    \/ RenameConvo \/ DeleteConvo

Spec == Init /\ [][Next]_convoVars

-----------------------------------------------------------------------------
(* Properties *)

StoredQuestions == {m \in messages : m.role = "user"}
StoredAnswers == {m \in messages : m.role = "assistant"}

\* One of the two was in flight when the other was sent.
Together(q, r) == q = r \/ q \in req[r].met \/ r \in req[q].met

\* The text of these blocks, joined.
JoinedLength(T) == IF T = {} THEN 0
    ELSE MapThenSumSet(LAMBDA m : m.length + Separator, T) - Separator

\* What could be a context: the end of the transcript, within both limits.
FitsAsEnd(S, T) ==
    /\ \A m \in T, n \in S \ T : n.at < m.at
    /\ Cardinality(T) <= Limit /\ JoinedLength(T) <= Budget

\* A question's context is the longest end of the transcript that fits: it has
\* no gap, its text is within the budget with its separators, and no message
\* that fits is left out.
ContextIsLongestTail ==
    [][\A r \in Reqs : ReadContext(r) =>
         /\ FitsAsEnd(messages, req'[r].context)
         /\ \A T \in SUBSET messages : FitsAsEnd(messages, T) => T \subseteq req'[r].context]_convoVars

\* What an answered run did not know of the transcript before its question is
\* older than all it knew, or was in flight together with it.
UnknownIsOldOrOverlapped ==
    \A a \in StoredAnswers, q \in StoredQuestions : a.by = q.by =>
        \A m \in messages : m.at < q.at =>
            \/ m \in req[a.by].context
            \/ req[a.by].context # {} /\ \A n \in req[a.by].context : m.at < n.at
            \/ Together(m.by, a.by)

\* Another answer stands between a question and its own only if it was stored
\* before that question was admitted: no run is admitted, or resumed after its
\* review, once a later one has answered.
NoAnswerCutsIn ==
    \A a, b \in StoredAnswers, q \in StoredQuestions :
        (q.by = a.by /\ b.by # a.by /\ q.at < b.at /\ b.at < a.at)
            => b.by \in req[a.by].answered

\* A title taken from a question is that of the first in the transcript, unless
\* another tab found the new conversation before its question was stored.
TitleIsOfFirstQuestion ==
    title \in Reqs => \A m \in messages :
        (\A n \in messages : m.at <= n.at) => Together(m.by, title)
=============================================================================
