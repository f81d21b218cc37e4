-------------------------- MODULE ConversationProofs --------------------------
(***************************************************************************)
(* What a conversation remembers, for any number of requests and any       *)
(* limits: in which order its transcript keeps answers, which question     *)
(* names it, and what a question learns from it.  The last is about        *)
(* get_conversation_context, a loop over the sorted transcript: what it    *)
(* returns for every transcript is proved by induction over the naturals,  *)
(* stated of a set so that it needs no operator as a parameter.            *)
(***************************************************************************)
EXTENDS ConversationContext, FiniteSetTheorems, SequenceTheorems, TLAPS

-----------------------------------------------------------------------------
(* The transcript: its inductive invariant *)

\* Whatever get_conversation_context returns.
Contexts == {{}} \cup {GetConversationContext(S) : S \in SUBSET Message}

Held == [pc : Pcs, creator : BOOLEAN, at : Nat, context : Contexts,
         met : SUBSET Reqs, answered : SUBSET Reqs]

HeldTypeOK ==
    /\ convo \in {"none", "there", "deleted"}
    /\ title \in Reqs \cup {"other"}
    /\ messages \subseteq Message
    /\ req \in [Reqs -> Held]
    /\ now \in Nat \ {0}

\* The clock has passed every transaction that has begun, except that of a
\* question whose conversation is being created.
PastOnly ==
    /\ \A m \in messages : m.at < now
    /\ \A r \in Reqs : req[r].pc # "created" => req[r].at < now

Live(s) == s.pc \in {"running", "paused", "answering"}

\* One run of the conversation is under way or waits for its review.
OneLive == \A r, q \in Reqs : (Live(req[r]) /\ Live(req[q])) => r = q

\* Who has answered is over; who is still to answer has seen every answer when it
\* was admitted, and stamps its own after them.
AnswersInOrder ==
    /\ \A a \in StoredAnswers : req[a.by].pc = "over"
    /\ \A r \in Reqs : Live(req[r]) => \A b \in StoredAnswers : b.by \in req[r].answered
    /\ \A r \in Reqs : req[r].pc = "answering" => \A b \in StoredAnswers : b.at < req[r].at

TranscriptInv ==
    /\ HeldTypeOK
    /\ PastOnly
    /\ OneLive
    /\ AnswersInOrder
    /\ NoAnswerCutsIn

\* Before the conversation there is nothing, and nothing after it.
NothingAround ==
    /\ convo # "there" => messages = {}
    /\ convo = "none" => title = "other" /\ \A r \in Reqs : req[r].pc = "unsent"
    /\ \A m \in messages : req[m.by].pc # "unsent"

\* The creator of the conversation, until its question is stored.
Creates(s) == s.creator /\ s.pc \in {"created", "open", "read"}

\* Every other request of a new conversation was sent while its creator was in
\* flight.
CreatorIsMet ==
    \A r \in Reqs : Creates(req[r]) =>
        \A p \in Reqs \ {r} : req[p].pc = "unsent" \/ r \in req[p].met

\* A question that names the conversation is stored, and what others have stored
\* or are going to store is later, unless they met it.
Named ==
    (title \in Reqs /\ convo = "there") =>
        \E q \in messages : q.by = title /\ \A p \in Reqs \ {title} :
            \/ title \in req[p].met
            \/ /\ req[p].pc \notin {"unsent", "over"} => q.at < req[p].at
               /\ \A m \in messages : m.by = p => q.at < m.at

TitleInv ==
    /\ NothingAround
    /\ CreatorIsMet
    /\ Named

-----------------------------------------------------------------------------
(* Types *)

LEMMA NewRequestType ==
    /\ NewRequest \in Held /\ NewRequest.pc = "unsent" /\ NewRequest.at = 0
    /\ NewRequest.creator = FALSE
  BY DEF NewRequest, Held, Pcs, Contexts

LEMMA MessageType ==
    ASSUME TranscriptInv
    PROVE  /\ \A m \in messages : m.by \in Reqs /\ m.at \in Nat /\ m.role \in {"user", "assistant"}
           /\ \A r \in Reqs : req[r] \in Held /\ req[r].at \in Nat /\ req[r].pc \in Pcs
           /\ req \in [Reqs -> Held] /\ now \in Nat \ {0} /\ messages \subseteq Message
  BY DEF TranscriptInv, HeldTypeOK, Message, Held

LEMMA OverType ==
    ASSUME TranscriptInv, NEW q \in Reqs
    PROVE  /\ Over(q) \in Held /\ Over(q).pc = "over" /\ Over(q).at = 0
           /\ Over(q).met = req[q].met /\ Over(q).creator = FALSE
<1>1. req[q].met \in SUBSET Reqs
  BY MessageType DEF Held
<1>2. NewRequest \in Held /\ NewRequest.at = 0 /\ NewRequest.creator = FALSE
  BY NewRequestType
<1> HIDE DEF NewRequest
<1> QED
  BY <1>1, <1>2 DEF Over, Held, Pcs

LEMMA OverIsOver ==
    ASSUME TranscriptInv, NEW q \in Reqs, now' = now
    PROVE  Over(q) \in Held /\ ~Live(Over(q)) /\ Over(q).pc # "answering" /\ Over(q).at < now'
<1>1. Over(q) \in Held /\ Over(q).pc = "over" /\ Over(q).at = 0
  BY OverType
<1>2. ~Live(Over(q))
  BY <1>1 DEF Live
<1>3. 0 < now'
  BY MessageType
<1> HIDE DEF Over
<1> QED
  BY <1>1, <1>2, <1>3

-----------------------------------------------------------------------------
(* The transcript: steps *)

\* A request that goes on, or ends, without storing anything.
LEMMA GoesOn ==
    ASSUME TranscriptInv, NEW r \in Reqs, NEW new \in Held,
           req' = [req EXCEPT ![r] = new], req[r].pc # "over",
           UNCHANGED messages, now' \in {now, now + 1},
           convo' \in {"none", "there", "deleted"}, title' \in Reqs \cup {"other"},
           new.pc # "created" => new.at < now',
           Live(new) => Live(req[r]) /\ new.answered = req[r].answered,
           new.pc = "answering" => new.at = now
    PROVE  TranscriptInv'
<1>1. \A q \in Reqs : req'[q] = IF q = r THEN new ELSE req[q]
  BY MessageType
<1>2. now' \in Nat \ {0} /\ now \in Nat /\ now <= now'
  BY MessageType
<1>3. HeldTypeOK'
  BY <1>2 DEF TranscriptInv, HeldTypeOK
<1>4. PastOnly'
  <2>1. \A m \in messages : m.at \in Nat /\ m.at < now
    BY MessageType DEF TranscriptInv, PastOnly
  <2>2. \A q \in Reqs : req[q].pc # "created" => req[q].at \in Nat /\ req[q].at < now
    BY MessageType DEF TranscriptInv, PastOnly
  <2>3. \A m \in messages : m.at < now'
    BY <1>2, <2>1
  <2>4. \A q \in Reqs : req'[q].pc # "created" => req'[q].at < now'
    BY <1>1, <1>2, <2>2
  <2> QED
    BY <2>3, <2>4 DEF PastOnly
<1>5. OneLive'
  BY <1>1 DEF TranscriptInv, OneLive
<1>6. \A a \in StoredAnswers : a \in messages /\ a.by # r /\ a.by \in Reqs /\ req'[a.by] = req[a.by]
  BY <1>1, MessageType DEF TranscriptInv, AnswersInOrder, StoredAnswers
<1>7. AnswersInOrder'
  <2>1. \A a \in StoredAnswers' : a \in StoredAnswers
    BY DEF StoredAnswers
  <2>2. \A a \in StoredAnswers' : req'[a.by].pc = "over"
    BY <2>1, <1>6 DEF TranscriptInv, AnswersInOrder
  <2>3. \A q \in Reqs : Live(req'[q]) => \A b \in StoredAnswers' : b.by \in req'[q].answered
    BY <1>1, <2>1 DEF TranscriptInv, AnswersInOrder
  <2>4. \A q \in Reqs : req'[q].pc = "answering" => \A b \in StoredAnswers' : b.at < req'[q].at
    <3>1. \A b \in StoredAnswers : b.at < now
      BY <1>6 DEF TranscriptInv, PastOnly
    <3> QED
      BY <1>1, <2>1, <3>1 DEF TranscriptInv, AnswersInOrder
  <2> QED
    BY <2>2, <2>3, <2>4 DEF AnswersInOrder
<1>8. NoAnswerCutsIn'
  BY <1>6 DEF TranscriptInv, NoAnswerCutsIn, StoredAnswers, StoredQuestions
<1> QED
  BY <1>3, <1>4, <1>5, <1>7, <1>8 DEF TranscriptInv

LEMMA RequestSteps ==
    ASSUME TranscriptInv, NEW r \in Reqs,
           \/ AskInNew(r) \/ BeginQuestion(r) \/ AskInOpen(r) \/ ReadContext(r)
           \/ PauseForReview(r) \/ ResumeReview(r) \/ BeginAnswer(r) \/ Fail(r)
    PROVE  TranscriptInv'
<1>1. /\ req[r] \in Held /\ req \in [Reqs -> Held] /\ now \in Nat \ {0}
      /\ convo \in {"none", "there", "deleted"} /\ title \in Reqs \cup {"other"}
  BY MessageType DEF TranscriptInv, HeldTypeOK
<1>2. req[r].pc # "created" => req[r].at < now
  BY DEF TranscriptInv, PastOnly
<1>3. /\ InFlight \in SUBSET Reqs
  BY DEF InFlight
<1>4. ASSUME NEW pc \in {"created", "open"}, NEW creator \in BOOLEAN, Sends(r, pc, creator)
      PROVE  \E new \in Held : /\ req' = [req EXCEPT ![r] = new] /\ req[r].pc = "unsent"
                               /\ new.pc = pc /\ new.at = now
  <2> DEFINE new == [NewRequest EXCEPT !.pc = pc, !.creator = creator, !.at = now, !.met = InFlight]
  <2>1. NewRequest \in Held
    BY NewRequestType
  <2> HIDE DEF NewRequest
  <2>2. new \in Held /\ new.pc = pc /\ new.at = now
    BY <1>1, <1>3, <2>1 DEF Held, Pcs
  <2> QED
    BY <1>4, <2>2 DEF Sends
<1>5. CASE AskInNew(r)
  <2>1. /\ Sends(r, "created", TRUE) /\ convo' = "there" /\ UNCHANGED <<title, messages, now>>
    BY <1>5 DEF AskInNew
  <2>2. PICK new \in Held : /\ req' = [req EXCEPT ![r] = new] /\ req[r].pc = "unsent"
                            /\ new.pc = "created" /\ new.at = now
    BY <1>4, <2>1
  <2>3. ~Live(new) /\ new.pc # "answering" /\ req[r].pc # "over"
    BY <2>2 DEF Live
  <2> QED
    BY <1>1, <2>1, <2>2, <2>3, GoesOn
<1>6. CASE AskInOpen(r)
  <2>1. /\ Sends(r, "open", FALSE) /\ now' = now + 1 /\ UNCHANGED <<convo, title, messages>>
    BY <1>6 DEF AskInOpen
  <2>2. PICK new \in Held : /\ req' = [req EXCEPT ![r] = new] /\ req[r].pc = "unsent"
                            /\ new.pc = "open" /\ new.at = now
    BY <1>4, <2>1
  <2>3. ~Live(new) /\ new.pc # "answering" /\ req[r].pc # "over" /\ new.at < now'
    BY <1>1, <2>1, <2>2 DEF Live
  <2> QED
    BY <1>1, <2>1, <2>2, <2>3, GoesOn
<1>7. CASE BeginQuestion(r)
  <2> DEFINE new == [req[r] EXCEPT !.pc = "read", !.at = now]
  <2>1. /\ new \in Held /\ new.pc = "read" /\ new.at = now
        /\ req' = [req EXCEPT ![r] = new] /\ req[r].pc = "created"
        /\ now' = now + 1 /\ UNCHANGED <<convo, title, messages>>
    BY <1>1, <1>7 DEF BeginQuestion, Held, Pcs
  <2> HIDE DEF new
  <2>2. ~Live(new) /\ new.pc # "answering" /\ req[r].pc # "over" /\ new.at < now'
    BY <1>1, <2>1 DEF Live
  <2> QED
    BY <1>1, <2>1, <2>2, GoesOn
<1>8. CASE ReadContext(r)
  <2> DEFINE new == [req[r] EXCEPT !.pc = "read", !.context = GetConversationContext(messages)]
  <2>1. GetConversationContext(messages) \in Contexts
    BY MessageType DEF Contexts
  <2>2. /\ new \in Held /\ new.pc = "read" /\ new.at = req[r].at
        /\ req' = [req EXCEPT ![r] = new] /\ req[r].pc = "open"
        /\ UNCHANGED <<convo, title, messages, now>>
    BY <1>1, <1>8, <2>1 DEF ReadContext, Held, Pcs
  <2> HIDE DEF new
  <2>3. ~Live(new) /\ new.pc # "answering" /\ req[r].pc # "over" /\ new.at < now'
    BY <1>1, <1>2, <2>2 DEF Live
  <2> QED
    BY <1>1, <2>2, <2>3, GoesOn
<1>9. CASE PauseForReview(r) \/ ResumeReview(r)
  <2> DEFINE pc == IF req[r].pc = "running" THEN "paused" ELSE "running"
             new == [req[r] EXCEPT !.pc = pc]
  <2>0. req' = [req EXCEPT ![r] = new] /\ req[r].pc \in {"running", "paused"}
    BY <1>9 DEF PauseForReview, ResumeReview, Goes
  <2>1. /\ new \in Held /\ new.pc \in {"running", "paused"} /\ new.at = req[r].at
        /\ new.answered = req[r].answered
    BY <1>1 DEF Held, Pcs
  <2>2. UNCHANGED <<convo, title, messages, now>>
    BY <1>9 DEF PauseForReview, ResumeReview
  <2> HIDE DEF new
  <2>3. Live(req[r]) /\ new.pc # "answering" /\ req[r].pc # "over" /\ new.at < now'
    BY <1>1, <1>2, <2>0, <2>1, <2>2 DEF Live
  <2> QED
    BY <1>1, <2>0, <2>1, <2>2, <2>3, GoesOn
<1>10. CASE BeginAnswer(r)
  <2> DEFINE new == [req[r] EXCEPT !.pc = "answering", !.at = now]
  <2>1. /\ new \in Held /\ new.pc = "answering" /\ new.at = now /\ new.answered = req[r].answered
        /\ req' = [req EXCEPT ![r] = new] /\ req[r].pc = "running"
        /\ now' = now + 1 /\ UNCHANGED <<convo, title, messages>>
    BY <1>1, <1>10 DEF BeginAnswer, Held, Pcs
  <2> HIDE DEF new
  <2>2. Live(req[r]) /\ req[r].pc # "over" /\ new.at < now'
    BY <1>1, <2>1 DEF Live
  <2> QED
    BY <1>1, <2>1, <2>2, GoesOn
<1>11. CASE Fail(r)
  <2>1. /\ req' = [req EXCEPT ![r] = Over(r)] /\ req[r].pc # "over"
        /\ UNCHANGED <<convo, title, messages, now>>
    BY <1>11 DEF Fail, Fails, InFlight
  <2>2. Over(r) \in Held /\ ~Live(Over(r)) /\ Over(r).pc # "answering" /\ Over(r).at < now'
    BY <1>1, <2>1, OverIsOver
  <2> QED
    BY <1>1, <2>1, <2>2, GoesOn
<1> QED
  BY <1>5, <1>6, <1>7, <1>8, <1>9, <1>10, <1>11

\* A question stored while its request is not answered yet has no answer.
LEMMA QuestionStored ==
    ASSUME TranscriptInv, NEW r \in Reqs, StoreQuestion(r)
    PROVE  TranscriptInv'
<1>1. /\ req[r] \in Held /\ req \in [Reqs -> Held] /\ now \in Nat \ {0} /\ req[r].at \in Nat
      /\ convo \in {"none", "there", "deleted"} /\ title \in Reqs \cup {"other"}
      /\ req[r].pc = "read" /\ req[r].at < now /\ UNCHANGED <<convo, now>>
  BY MessageType DEF TranscriptInv, HeldTypeOK, PastOnly, StoreQuestion
<1>2. CASE convo # "there"
  <2>1. /\ req' = [req EXCEPT ![r] = Over(r)] /\ req[r].pc # "over"
        /\ UNCHANGED <<convo, title, messages, now>>
    BY <1>1, <1>2 DEF StoreQuestion, Fails
  <2>2. Over(r) \in Held /\ ~Live(Over(r)) /\ Over(r).pc # "answering" /\ Over(r).at < now'
    BY <1>1, <2>1, OverIsOver
  <2> QED
    BY <1>1, <2>1, <2>2, GoesOn
<1>3. CASE convo = "there"
  <2> DEFINE new == [req[r] EXCEPT !.pc = "stored"]
  <2>1. PICK l \in Lengths : messages' = messages \cup {[by |-> r, role |-> "user",
                                               at |-> Created(req[r].at), length |-> l]}
    BY <1>3 DEF StoreQuestion
  <2> DEFINE m == [by |-> r, role |-> "user", at |-> Created(req[r].at), length |-> l]
  <2>2. m \in Message /\ m.by = r /\ m.role = "user" /\ m.at = req[r].at
    BY <1>1 DEF Message, Created
  <2>3. messages' = messages \cup {m}
    BY <2>1
  <2>4. req' = [req EXCEPT ![r] = new] /\ title' \in Reqs \cup {"other"}
    BY <1>1, <1>3 DEF StoreQuestion, Goes, Titled
  <2>5. new \in Held /\ new.pc = "stored" /\ new.at = req[r].at
    BY <1>1 DEF Held, Pcs
  <2> HIDE DEF m, new
  <2>6. \A q \in Reqs : req'[q] = IF q = r THEN new ELSE req[q]
    BY <1>1, <2>4
  <2>7. HeldTypeOK' /\ PastOnly' /\ OneLive'
    BY <1>1, <2>2, <2>3, <2>4, <2>5, <2>6 DEF TranscriptInv, HeldTypeOK, PastOnly, OneLive, Live
  <2>8. StoredAnswers' = StoredAnswers /\ StoredQuestions' = StoredQuestions \cup {m}
    BY <2>2, <2>3 DEF StoredAnswers, StoredQuestions
  <2>9. \A a \in StoredAnswers : a.by # r /\ a.by \in Reqs /\ req'[a.by] = req[a.by]
    BY <1>1, <2>6, MessageType DEF TranscriptInv, AnswersInOrder, StoredAnswers
  <2>10. AnswersInOrder'
    BY <2>5, <2>6, <2>8, <2>9 DEF TranscriptInv, AnswersInOrder, Live
  <2>11. NoAnswerCutsIn'
    BY <2>2, <2>8, <2>9 DEF TranscriptInv, NoAnswerCutsIn
  <2> QED
    BY <2>7, <2>10, <2>11 DEF TranscriptInv
<1> QED
  BY <1>2, <1>3

\* The answer comes after all others, and no other run is live.
LEMMA AnswerStored ==
    ASSUME TranscriptInv, NEW r \in Reqs, StoreAnswer(r)
    PROVE  TranscriptInv'
<1>1. /\ req[r] \in Held /\ req \in [Reqs -> Held] /\ now \in Nat \ {0} /\ req[r].at \in Nat
      /\ convo \in {"none", "there", "deleted"} /\ title \in Reqs \cup {"other"}
      /\ req[r].pc = "answering" /\ req[r].at < now /\ UNCHANGED <<convo, title, now>>
  BY MessageType DEF TranscriptInv, HeldTypeOK, PastOnly, StoreAnswer
<1>2. CASE convo # "there"
  <2>1. /\ req' = [req EXCEPT ![r] = Over(r)] /\ req[r].pc # "over"
        /\ UNCHANGED <<convo, title, messages, now>>
    BY <1>1, <1>2 DEF StoreAnswer, Fails
  <2>2. Over(r) \in Held /\ ~Live(Over(r)) /\ Over(r).pc # "answering" /\ Over(r).at < now'
    BY <1>1, <2>1, OverIsOver
  <2> QED
    BY <1>1, <2>1, <2>2, GoesOn
<1>3. CASE convo = "there"
  <2> DEFINE new == [req[r] EXCEPT !.pc = "over"]
  <2>1. PICK l \in Lengths : messages' = messages \cup {[by |-> r, role |-> "assistant",
                                               at |-> Created(req[r].at), length |-> l]}
    BY <1>3 DEF StoreAnswer
  <2> DEFINE m == [by |-> r, role |-> "assistant", at |-> Created(req[r].at), length |-> l]
  <2>2. m \in Message /\ m.by = r /\ m.role = "assistant" /\ m.at = req[r].at
    BY <1>1 DEF Message, Created
  <2>3. messages' = messages \cup {m}
    BY <2>1
  <2>4. req' = [req EXCEPT ![r] = new]
    BY <1>3 DEF StoreAnswer, Ends, Goes
  <2>5. new \in Held /\ new.pc = "over" /\ new.at = req[r].at /\ new.answered = req[r].answered
    BY <1>1 DEF Held, Pcs
  <2> HIDE DEF m, new
  <2>6. \A q \in Reqs : req'[q] = IF q = r THEN new ELSE req[q]
    BY <1>1, <2>4
  <2>7. HeldTypeOK' /\ PastOnly' /\ OneLive'
    BY <1>1, <2>2, <2>3, <2>4, <2>5, <2>6 DEF TranscriptInv, HeldTypeOK, PastOnly, OneLive, Live
  <2>8. StoredAnswers' = StoredAnswers \cup {m} /\ StoredQuestions' = StoredQuestions
    BY <2>2, <2>3 DEF StoredAnswers, StoredQuestions
  <2>9. \A a \in StoredAnswers :
           /\ a.by # r /\ a.by \in Reqs /\ req'[a.by] = req[a.by] /\ a.at \in Nat
           /\ a.at < m.at /\ a.by \in req[r].answered
    BY <1>1, <2>2, <2>6, MessageType DEF TranscriptInv, AnswersInOrder, StoredAnswers, Live
  <2>10. \A q \in Reqs : ~Live(req'[q])
    BY <1>1, <2>5, <2>6 DEF TranscriptInv, OneLive, Live
  <2>11. AnswersInOrder'
    BY <2>2, <2>5, <2>6, <2>8, <2>9, <2>10 DEF TranscriptInv, AnswersInOrder, Live
  <2>12. NoAnswerCutsIn'
    <3> SUFFICES ASSUME NEW a \in StoredAnswers', NEW b \in StoredAnswers', NEW q \in StoredQuestions,
                        q.by = a.by, b.by # a.by, q.at < b.at, b.at < a.at
                 PROVE  b.by \in req'[a.by].answered
      BY <2>8 DEF NoAnswerCutsIn
    <3>1. CASE a = m
      BY <3>1, <2>2, <2>5, <2>6, <2>8, <2>9
    <3>2. CASE a # m /\ b = m
      BY <3>2, <1>1, <2>2, <2>8, <2>9
    <3>3. CASE a # m /\ b # m
      BY <3>3, <2>8, <2>9 DEF TranscriptInv, NoAnswerCutsIn
    <3> QED
      BY <3>1, <3>2, <3>3
  <2> QED
    BY <2>7, <2>11, <2>12 DEF TranscriptInv
<1> QED
  BY <1>2, <1>3

\* Who is admitted is alone, and has seen every answer.
LEMMA RunAdmitted ==
    ASSUME TranscriptInv, NEW r \in Reqs, Admit(r)
    PROVE  TranscriptInv'
<1> DEFINE new == [req[r] EXCEPT !.pc = "running", !.answered = Answered]
<1>1. /\ req[r] \in Held /\ req \in [Reqs -> Held] /\ req[r].pc = "stored" /\ GuardFree
      /\ UNCHANGED <<convo, title, messages, now>>
      /\ req' = [q \in Reqs |-> IF q = r THEN new
                                ELSE IF q \in Superseded(r) THEN Over(q) ELSE req[q]]
  BY MessageType DEF Admit
<1>2. Answered \in SUBSET Reqs /\ \A b \in StoredAnswers : b.by \in Answered
  BY MessageType DEF Answered, StoredAnswers
<1>3. /\ new \in Held /\ new.pc = "running" /\ new.at = req[r].at /\ new.answered = Answered
  BY <1>1, <1>2 DEF Held, Pcs
<1> HIDE DEF new
<1>4. \A q \in Reqs : Over(q) \in Held /\ Over(q).pc = "over" /\ Over(q).at = 0
  BY OverType
<1>5. \A q \in Reqs : /\ q = r => req'[q] = new
                      /\ q # r => req'[q] \in {Over(q), req[q]}
                      /\ (q # r /\ req[q].pc # "paused") => req'[q] = req[q]
                      /\ (q # r /\ req[q].pc = "paused") => req'[q] = Over(q)
  BY <1>1 DEF Superseded
<1>6. HeldTypeOK'
  BY <1>1, <1>3, <1>4 DEF TranscriptInv, HeldTypeOK
<1>7. PastOnly'
  BY <1>1, <1>3, <1>4, <1>5, MessageType DEF TranscriptInv, PastOnly
<1>8. \A q \in Reqs : Live(req'[q]) => q = r
  BY <1>1, <1>4, <1>5 DEF GuardFree, Admitted, Live
<1>9. StoredAnswers' = StoredAnswers /\ StoredQuestions' = StoredQuestions
  BY <1>1 DEF StoredAnswers, StoredQuestions
<1>10. \A a \in StoredAnswers : a.by \in Reqs /\ a.by # r /\ req'[a.by] = req[a.by] /\ req[a.by].pc = "over"
  BY <1>1, <1>5, MessageType DEF TranscriptInv, AnswersInOrder, StoredAnswers
<1>11. AnswersInOrder'
  <2>1. \A q \in Reqs : req'[q].pc # "answering"
    BY <1>3, <1>5, <1>8 DEF Live
  <2>2. \A q \in Reqs : Live(req'[q]) => req'[q].answered = Answered
    BY <1>3, <1>5, <1>8
  <2> QED
    BY <1>2, <1>9, <1>10, <2>1, <2>2 DEF AnswersInOrder
<1>12. NoAnswerCutsIn'
  BY <1>9, <1>10 DEF TranscriptInv, NoAnswerCutsIn
<1>13. OneLive'
  BY <1>8 DEF OneLive
<1> QED
  BY <1>6, <1>7, <1>11, <1>12, <1>13 DEF TranscriptInv

LEMMA ConvoSteps ==
    ASSUME TranscriptInv, RenameConvo \/ DeleteConvo \/ UNCHANGED convoVars
    PROVE  TranscriptInv'
<1>1. /\ messages' \subseteq messages /\ UNCHANGED <<req, now>>
      /\ convo' \in {"none", "there", "deleted"} /\ title' \in Reqs \cup {"other"}
  BY DEF RenameConvo, DeleteConvo, convoVars, TranscriptInv, HeldTypeOK
<1>2. StoredAnswers' \subseteq StoredAnswers /\ StoredQuestions' \subseteq StoredQuestions
  BY <1>1 DEF StoredAnswers, StoredQuestions
<1> QED
  BY <1>1, <1>2 DEF TranscriptInv, HeldTypeOK, PastOnly, OneLive, AnswersInOrder, NoAnswerCutsIn

LEMMA TranscriptInit == Init => TranscriptInv
<1> SUFFICES ASSUME Init PROVE TranscriptInv
  OBVIOUS
<1>1. /\ messages = {} /\ now = 1 /\ \A r \in Reqs : req[r] = NewRequest
      /\ StoredAnswers = {} /\ NewRequest.pc = "unsent" /\ NewRequest.at = 0
  BY NewRequestType DEF Init, StoredAnswers
<1>2. HeldTypeOK
  BY <1>1, NewRequestType DEF Init, HeldTypeOK
<1> QED
  BY <1>1, <1>2 DEF TranscriptInv, PastOnly, OneLive, AnswersInOrder, NoAnswerCutsIn, Live

LEMMA TranscriptInductive == Spec => []TranscriptInv
<1>1. TranscriptInv /\ [Next]_convoVars => TranscriptInv'
  <2> SUFFICES ASSUME TranscriptInv, [Next]_convoVars PROVE TranscriptInv'
    OBVIOUS
  <2>1. ASSUME NEW r \in Reqs,
               \/ AskInNew(r) \/ BeginQuestion(r) \/ AskInOpen(r) \/ ReadContext(r)
               \/ StoreQuestion(r) \/ Admit(r) \/ PauseForReview(r) \/ ResumeReview(r)
               \/ BeginAnswer(r) \/ StoreAnswer(r) \/ Fail(r)
        PROVE  TranscriptInv'
    BY <2>1, RequestSteps, QuestionStored, AnswerStored, RunAdmitted
  <2> QED
    BY <2>1, ConvoSteps DEF Next
<1> QED
  BY <1>1, TranscriptInit, PTL DEF Spec

\* However questions, reviews and answers cross each other, an answer stands
\* between a question and its own only if it was there when that question's run
\* was admitted.
THEOREM AnswersStayTogether == Spec => []NoAnswerCutsIn
<1>1. TranscriptInv => NoAnswerCutsIn
  BY DEF TranscriptInv
<1> QED
  BY <1>1, TranscriptInductive, PTL

-----------------------------------------------------------------------------
(* The title *)

\* What a step that stores nothing may do of a request: send it, or take it on.
SentNow(q) ==
    /\ req[q].pc = "unsent" /\ req'[q].pc \in {"created", "open"}
    /\ req'[q].at = now /\ req'[q].met = InFlight
    /\ req'[q].creator => \A p \in Reqs \ {q} : req'[p].pc = "unsent"

TakenOn(q) ==
    /\ req'[q].met = req[q].met
    /\ req'[q].pc = "unsent" <=> req[q].pc = "unsent"
    /\ req'[q].pc \notin {"unsent", "over"} =>
         req[q].pc \notin {"unsent", "over"} /\ req'[q].at \in {req[q].at, now}
    /\ Creates(req'[q]) => Creates(req[q])

LEMMA CreatorsMet ==
    ASSUME CreatorIsMet, \A q \in Reqs : SentNow(q) \/ TakenOn(q)
    PROVE  CreatorIsMet'
<1> SUFFICES ASSUME NEW s \in Reqs, Creates(req'[s]), NEW p \in Reqs \ {s}, req'[p].pc # "unsent"
             PROVE  s \in req'[p].met
  BY DEF CreatorIsMet
<1>1. ~SentNow(s)
  BY DEF SentNow, Creates
<1>2. Creates(req[s]) /\ s \in InFlight
  BY <1>1 DEF TakenOn, Creates, InFlight
<1>3. CASE SentNow(p)
  BY <1>2, <1>3 DEF SentNow
<1>4. CASE TakenOn(p)
  BY <1>2, <1>4 DEF TakenOn, CreatorIsMet
<1> QED
  BY <1>3, <1>4

LEMMA TitleKept ==
    ASSUME TranscriptInv, TitleInv, messages' = messages, title' \in {title, "other"},
           convo' # "none", convo' = convo \/ (convo = "none" /\ title' = "other" /\ convo' = "there"),
           \A q \in Reqs : SentNow(q) \/ TakenOn(q)
    PROVE  TitleInv'
<1>1. \A m \in messages : m.by \in Reqs /\ m.at \in Nat /\ m.at < now
  BY MessageType DEF TranscriptInv, PastOnly
<1>2. \A q \in Reqs : req[q].pc # "unsent" => req'[q].pc # "unsent"
  BY DEF SentNow, TakenOn
<1>3. \A m \in messages : req[m.by].pc # "unsent"
  BY DEF TitleInv, NothingAround
<1>4. NothingAround'
  BY <1>1, <1>2, <1>3 DEF TitleInv, NothingAround
<1>5. CreatorIsMet'
  BY CreatorsMet DEF TitleInv
<1>6. Named'
  <2> SUFFICES ASSUME title' \in Reqs, convo' = "there" PROVE Named'
    BY DEF Named
  <2>1. title' = title /\ title \in Reqs /\ convo = "there"
    BY ContextAssumption
  <2>2. PICK q \in messages : q.by = title /\ \A p \in Reqs \ {title} :
            \/ title \in req[p].met
            \/ /\ req[p].pc \notin {"unsent", "over"} => q.at < req[p].at
               /\ \A m \in messages : m.by = p => q.at < m.at
    BY <2>1 DEF TitleInv, Named
  <2>3. ASSUME NEW p \in Reqs \ {title}
        PROVE  \/ title \in req'[p].met
               \/ /\ req'[p].pc \notin {"unsent", "over"} => q.at < req'[p].at
                  /\ \A m \in messages' : m.by = p => q.at < m.at
    <3>1. CASE SentNow(p)
      BY <1>1, <1>3, <3>1 DEF SentNow
    <3>2. CASE TakenOn(p)
      BY <1>1, <2>2, <3>2 DEF TakenOn
    <3> QED
      BY <3>1, <3>2
  <2> QED
    BY <2>1, <2>2, <2>3 DEF Named
<1> QED
  BY <1>4, <1>5, <1>6 DEF TitleInv

\* A message stamped when its transaction began, by a request that goes on.
LEMMA MessageAdded ==
    ASSUME TranscriptInv, TitleInv, NEW r \in Reqs, NEW m, m.by = r, m.at = req[r].at,
           messages' = messages \cup {m}, convo = "there", convo' = "there",
           req[r].pc \notin {"unsent", "over"}, \A q \in Reqs : TakenOn(q),
           title' = title \/ (Creates(req[r]) /\ title' = r)
    PROVE  TitleInv'
<1>1. \A n \in messages : n.by \in Reqs /\ n.at \in Nat
  BY MessageType
<1>2. \A q \in Reqs : req[q].pc # "unsent" <=> req'[q].pc # "unsent"
  BY DEF TakenOn
<1>3. \A n \in messages : req[n.by].pc # "unsent"
  BY DEF TitleInv, NothingAround
<1>4. NothingAround'
  BY <1>1, <1>2, <1>3 DEF NothingAround
<1>5. CreatorIsMet'
  BY CreatorsMet DEF TitleInv
<1>6. ASSUME title' = title PROVE Named'
  <2> SUFFICES ASSUME title \in Reqs PROVE Named'
    BY <1>6 DEF Named
  <2>1. PICK q \in messages : q.by = title /\ \A p \in Reqs \ {title} :
            \/ title \in req[p].met
            \/ /\ req[p].pc \notin {"unsent", "over"} => q.at < req[p].at
               /\ \A n \in messages : n.by = p => q.at < n.at
    BY DEF TitleInv, Named
  <2>2. ASSUME NEW p \in Reqs \ {title}
        PROVE  \/ title \in req'[p].met
               \/ /\ req'[p].pc \notin {"unsent", "over"} => q.at < req'[p].at
                  /\ \A n \in messages' : n.by = p => q.at < n.at
    <3>1. q.at < now
      BY DEF TranscriptInv, PastOnly
    <3> QED
      BY <2>1, <3>1 DEF TakenOn
  <2> QED
    BY <1>6, <2>1, <2>2 DEF Named
<1>7. ASSUME Creates(req[r]), title' = r PROVE Named'
  <2>1. ASSUME NEW p \in Reqs \ {r}
        PROVE  \/ r \in req'[p].met
               \/ /\ req'[p].pc = "unsent"
                  /\ \A n \in messages' : n.by # p
    BY <1>2, <1>3, <1>7 DEF TitleInv, CreatorIsMet, TakenOn
  <2> QED
    BY <1>7, <2>1 DEF Named
<1> QED
  BY <1>4, <1>5, <1>6, <1>7 DEF TitleInv

\* A failed request keeps only whom it met.
LEMMA FailTakesOn ==
    ASSUME TranscriptInv, NEW r \in Reqs, Fails(r), req[r].pc # "unsent"
    PROVE  \A q \in Reqs : TakenOn(q)
<1>1. \A q \in Reqs : req'[q] = IF q = r THEN Over(r) ELSE req[q]
  BY MessageType DEF Fails
<1>2. Over(r).pc = "over" /\ Over(r).met = req[r].met
  BY OverType
<1> HIDE DEF Over
<1> QED
  BY <1>1, <1>2 DEF TakenOn, Creates

LEMMA TitleOnSending ==
    ASSUME TranscriptInv, TitleInv, NEW r \in Reqs, AskInNew(r) \/ AskInOpen(r)
    PROVE  TitleInv'
<1>1. req[r].pc = "unsent" /\ req \in [Reqs -> Held] /\ UNCHANGED <<title, messages>>
  BY MessageType DEF AskInNew, AskInOpen, Sends
<1>2. ASSUME NEW pc \in {"created", "open"}, NEW creator \in BOOLEAN, Sends(r, pc, creator),
             creator => convo = "none"
      PROVE  \A q \in Reqs : SentNow(q) \/ TakenOn(q)
  <2> DEFINE new == [NewRequest EXCEPT !.pc = pc, !.creator = creator, !.at = now, !.met = InFlight]
  <2>1. NewRequest \in Held
    BY NewRequestType
  <2> HIDE DEF NewRequest
  <2>2. new.pc = pc /\ new.at = now /\ new.met = InFlight /\ new.creator = creator
    BY <2>1 DEF Held
  <2>3. req' = [req EXCEPT ![r] = new]
    BY <1>2 DEF Sends
  <2> HIDE DEF new
  <2>4. \A q \in Reqs : req'[q] = IF q = r THEN new ELSE req[q]
    BY <1>1, <2>3
  <2>5. creator => \A p \in Reqs \ {r} : req'[p].pc = "unsent"
    BY <1>2, <2>4 DEF TitleInv, NothingAround
  <2> QED
    BY <1>1, <2>2, <2>4, <2>5 DEF SentNow, TakenOn
<1>3. CASE AskInNew(r)
  BY <1>1, <1>2, <1>3, TitleKept DEF AskInNew, TitleInv, NothingAround
<1>4. CASE AskInOpen(r)
  BY <1>1, <1>2, <1>4, TitleKept DEF AskInOpen
<1> QED
  BY <1>3, <1>4

LEMMA TitleOnRequest ==
    ASSUME TranscriptInv, TitleInv, NEW r \in Reqs,
           \/ BeginQuestion(r) \/ ReadContext(r) \/ PauseForReview(r) \/ ResumeReview(r)
           \/ BeginAnswer(r) \/ Admit(r) \/ Fail(r)
    PROVE  TitleInv'
<1>1. req \in [Reqs -> Held]
  BY MessageType
<1>2. convo # "none" /\ UNCHANGED <<convo, title, messages>>
  BY DEF TitleInv, NothingAround, BeginQuestion, ReadContext, PauseForReview, ResumeReview,
         BeginAnswer, Admit, Fail, InFlight
<1>3. CASE BeginQuestion(r) \/ ReadContext(r) \/ PauseForReview(r) \/ ResumeReview(r) \/ BeginAnswer(r)
  <2>1. \A q \in Reqs : TakenOn(q)
    BY <1>1, <1>3 DEF Held, TakenOn, Creates, BeginQuestion, ReadContext, PauseForReview, ResumeReview,
         BeginAnswer, Goes
  <2> QED
    BY <1>2, <2>1, TitleKept
<1>4. CASE Admit(r)
  <2>1. \A q \in Reqs : req[q].pc = "paused" => Over(q).pc = "over" /\ Over(q).met = req[q].met
    BY OverType
  <2>2. \A q \in Reqs : req'[q] = IF q = r THEN [req[r] EXCEPT !.pc = "running", !.answered = Answered]
                                 ELSE IF q \in Superseded(r) THEN Over(q) ELSE req[q]
    BY <1>4 DEF Admit
  <2> HIDE DEF Over
  <2>3. TakenOn(r)
    <3>1. req[r] \in Held /\ req[r].pc = "stored"
      BY <1>1, <1>4 DEF Admit
    <3>2. req'[r] = [req[r] EXCEPT !.pc = "running", !.answered = Answered]
      BY <2>2
    <3>3. req'[r].met = req[r].met /\ req'[r].pc = "running" /\ req'[r].at = req[r].at
      BY <3>1, <3>2 DEF Held
    <3> QED
      BY <3>1, <3>3 DEF TakenOn, Creates
  <2>4. \A q \in Reqs \ {r} : TakenOn(q)
    BY <1>1, <2>1, <2>2 DEF TakenOn, Creates, Superseded
  <2> QED
    BY <1>2, <2>3, <2>4, TitleKept
<1>5. CASE Fail(r)
  BY <1>2, <1>5, FailTakesOn, TitleKept DEF Fail, InFlight
<1> QED
  BY <1>3, <1>4, <1>5

LEMMA TitleOnStoring ==
    ASSUME TranscriptInv, TitleInv, NEW r \in Reqs, StoreQuestion(r) \/ StoreAnswer(r)
    PROVE  TitleInv'
<1>1. /\ req \in [Reqs -> Held] /\ req[r].pc \in {"read", "answering"} /\ convo' = convo
  BY MessageType DEF StoreQuestion, StoreAnswer
<1>2. CASE convo # "there"
  <2>1. Fails(r) /\ convo # "none" /\ UNCHANGED <<messages, title>>
    BY <1>1, <1>2 DEF StoreQuestion, StoreAnswer, TitleInv, NothingAround
  <2> QED
    BY <1>1, <2>1, FailTakesOn, TitleKept
<1>3. CASE convo = "there"
  <2>1. \A q \in Reqs : TakenOn(q)
    BY <1>1, <1>3 DEF StoreQuestion, StoreAnswer, Goes, Ends, TakenOn, Creates, Held
  <2>2. PICK l \in Lengths, role \in {"user", "assistant"} :
           messages' = messages \cup {[by |-> r, role |-> role, at |-> Created(req[r].at), length |-> l]}
    BY <1>3 DEF StoreQuestion, StoreAnswer
  <2> DEFINE m == [by |-> r, role |-> role, at |-> Created(req[r].at), length |-> l]
  <2>3. m.by = r /\ m.at = req[r].at /\ messages' = messages \cup {m}
    BY <2>2 DEF Created
  <2>4. title' = title \/ (Creates(req[r]) /\ title' = r)
    BY <1>3 DEF StoreQuestion, StoreAnswer, Titled, Creates
  <2> HIDE DEF m
  <2> QED
    BY <1>1, <1>3, <2>1, <2>3, <2>4, MessageAdded
<1> QED
  BY <1>2, <1>3

LEMMA TitleOnConvo ==
    ASSUME TranscriptInv, TitleInv, RenameConvo \/ DeleteConvo \/ UNCHANGED convoVars
    PROVE  TitleInv'
<1>1. UNCHANGED req /\ messages' \subseteq messages
  BY DEF RenameConvo, DeleteConvo, convoVars
<1>2. CreatorIsMet'
  BY <1>1 DEF TitleInv, CreatorIsMet
<1>3. NothingAround'
  BY <1>1 DEF TitleInv, NothingAround, RenameConvo, DeleteConvo, convoVars
<1>4. Named'
  BY <1>1, ContextAssumption DEF TitleInv, Named, RenameConvo, DeleteConvo, convoVars
<1> QED
  BY <1>2, <1>3, <1>4 DEF TitleInv

LEMMA TitleInductive == Spec => []TitleInv
<1>1. Init => TitleInv
  BY NewRequestType, ContextAssumption
  DEF Init, TitleInv, NothingAround, CreatorIsMet, Creates, Named
<1>2. TranscriptInv /\ TitleInv /\ [Next]_convoVars => TitleInv'
  BY TitleOnSending, TitleOnRequest, TitleOnStoring, TitleOnConvo DEF Next
<1> QED
  BY <1>1, <1>2, TranscriptInductive, PTL DEF Spec

\* A conversation named after a question was named by the one that created it:
\* it is the first of the transcript, unless whoever was earlier found the
\* conversation before that question was stored.
THEOREM TitleNamesTheFirst == Spec => []TitleIsOfFirstQuestion
<1>1. TranscriptInv /\ TitleInv => TitleIsOfFirstQuestion
  <2> SUFFICES ASSUME TranscriptInv, TitleInv, title \in Reqs,
                      NEW m \in messages, \A n \in messages : m.at <= n.at
               PROVE  Together(m.by, title)
    BY DEF TitleIsOfFirstQuestion
  <2>1. convo = "there" /\ m.by \in Reqs
    BY MessageType DEF TitleInv, NothingAround
  <2>2. PICK q \in messages : q.by = title /\ \A p \in Reqs \ {title} :
            \/ title \in req[p].met
            \/ /\ req[p].pc \notin {"unsent", "over"} => q.at < req[p].at
               /\ \A n \in messages : n.by = p => q.at < n.at
    BY <2>1 DEF TitleInv, Named
  <2>3. m.at \in Nat /\ q.at \in Nat /\ m.at <= q.at
    BY MessageType
  <2> QED
    BY <2>1, <2>2, <2>3 DEF Together
<1> QED
  BY <1>1, TranscriptInductive, TitleInductive, PTL

-----------------------------------------------------------------------------
(* Induction, and the folds *)

\* Induction over the naturals, of a set: the library's is of an operator, which
\* no prover instantiates.  A finite set of numbers shrinks only so often.
LEMMA SetInduction ==
    ASSUME NEW P, 0 \in P, \A n \in Nat : n \in P => n + 1 \in P
    PROVE  Nat \subseteq P
<1> SUFFICES ASSUME NEW m \in Nat, m \notin P PROVE FALSE
  OBVIOUS
<1> DEFINE T == {0 .. k : k \in (0 .. m) \ P}
<1>1. IsWellFoundedOn(StrictSubsetOrdering(0 .. m), SUBSET (0 .. m))
  <2>1. IsFiniteSet(0 .. m)
    BY FS_Interval
  <2> QED
    BY <2>1, FS_StrictSubsetOrderingWellFounded, FS_FiniteSubsetsOfFinite
<1>2. T \subseteq SUBSET (0 .. m) /\ T # {}
  OBVIOUS
<1>3. PICK x \in T : \A y \in T : <<y, x>> \notin StrictSubsetOrdering(0 .. m)
  <2> HIDE DEF T
  <2> QED
    BY <1>1, <1>2, WFMin
<1>4. PICK k \in (0 .. m) \ P : x = 0 .. k
  OBVIOUS
<1>5. k # 0 /\ k - 1 \in (0 .. m) \ P
  OBVIOUS
<1>6. /\ 0 .. (k - 1) \in T /\ 0 .. (k - 1) \subseteq 0 .. k
      /\ k \notin 0 .. (k - 1) /\ k \in 0 .. k
  BY <1>5
<1>7. <<0 .. (k - 1), 0 .. k>> \in StrictSubsetOrdering(0 .. m)
  BY <1>6 DEF StrictSubsetOrdering
<1> QED
  BY <1>3, <1>4, <1>6, <1>7

\* A finite set of numbers has a greatest.
LEMMA HasMax ==
    ASSUME NEW n \in Nat, NEW s \in SUBSET (1 .. n), s # {}
    PROVE  Max(s) \in s /\ \A y \in s : Max(s) >= y
<1> DEFINE Topped(k) == \A t \in SUBSET (1 .. k) : t # {} => \E x \in t : \A y \in t : x >= y
           P == {k \in Nat : Topped(k)}
<1>1. 0 \in P
  BY 1 .. 0 = {}
<1>2. ASSUME NEW k \in Nat, k \in P PROVE k + 1 \in P
  <2>1. ASSUME NEW t \in SUBSET (1 .. k + 1), t # {}
        PROVE  \E x \in t : \A y \in t : x >= y
    <3>1. CASE k + 1 \in t
      BY <3>1
    <3>2. CASE k + 1 \notin t
      <4>1. t \in SUBSET (1 .. k)
        BY <3>2
      <4> QED
        BY <1>2, <2>1, <4>1
    <3> QED
      BY <3>1, <3>2
  <2> QED
    BY <2>1
<1>3. n \in P
  <2> HIDE DEF P
  <2> QED
    BY <1>1, <1>2, SetInduction
<1>4. \E x \in s : \A y \in s : x >= y
  BY <1>3
<1> QED
  BY <1>4 DEF Max

\* f takes the subsets of D apart element by element, as the folds do.
TakesApart(f, D, base, step, pick) ==
    \A s \in D : f[s] = IF s = {} THEN base ELSE step[<<pick[s], f[s \ {pick[s]}]>>]

\* A function that does so exists.
LEMMA FoldExists ==
    ASSUME NEW D, IsFiniteSet(D), NEW V, NEW base \in V, NEW step \in [D \X V -> V],
           NEW pick \in [(SUBSET D) \ {{}} -> D],
           \A s \in (SUBSET D) \ {{}} : pick[s] \in s
    PROVE  \E f \in [SUBSET D -> V] : TakesApart(f, SUBSET D, base, step, pick)
<1> DEFINE Upto(k) == {s \in SUBSET D : Cardinality(s) <= k}
           Possible(k) == \E f \in [Upto(k) -> V] : TakesApart(f, Upto(k), base, step, pick)
           P == {k \in Nat : Possible(k)}
<1>1. \A s \in SUBSET D : /\ IsFiniteSet(s) /\ Cardinality(s) \in Nat
                          /\ Cardinality(s) <= Cardinality(D)
                          /\ Cardinality(s) = 0 <=> s = {}
  BY FS_Subset, FS_CardinalityType, FS_EmptySet
<1>2. \A s \in (SUBSET D) \ {{}} : Cardinality(s \ {pick[s]}) = Cardinality(s) - 1
  BY <1>1, FS_RemoveElement
<1>3. 0 \in P
  <2>1. Upto(0) = {{}}
    BY <1>1
  <2>2. [s \in Upto(0) |-> base] \in [Upto(0) -> V]
    OBVIOUS
  <2>3. TakesApart([s \in Upto(0) |-> base], Upto(0), base, step, pick)
    BY <2>1 DEF TakesApart
  <2>4. Possible(0)
    BY <2>2, <2>3
  <2> HIDE DEF Possible
  <2> QED
    BY <2>4
<1>4. ASSUME NEW k \in Nat, k \in P PROVE k + 1 \in P
  <2>1. PICK f \in [Upto(k) -> V] : TakesApart(f, Upto(k), base, step, pick)
    BY <1>4
  <2> DEFINE g == [s \in Upto(k + 1) |->
                     IF s \in Upto(k) THEN f[s] ELSE step[<<pick[s], f[s \ {pick[s]}]>>]]
  <2>2. \A s \in Upto(k + 1) : s # {} =>
            /\ s \ {pick[s]} \in Upto(k) /\ s \ {pick[s]} \in Upto(k + 1) /\ pick[s] \in D
    BY <1>1, <1>2
  <2>3. {} \in Upto(k)
    BY <1>1
  <2>4. g \in [Upto(k + 1) -> V]
    BY <2>2, <2>3
  <2>5. \A s \in Upto(k) : s \in Upto(k + 1) /\ g[s] = f[s]
    BY <1>1
  <2>6. ASSUME NEW s \in Upto(k + 1)
        PROVE  g[s] = IF s = {} THEN base ELSE step[<<pick[s], g[s \ {pick[s]}]>>]
    <3>1. CASE s = {}
      BY <2>1, <2>3, <2>5, <3>1 DEF TakesApart
    <3>2. CASE s # {}
      <4>1. g[s \ {pick[s]}] = f[s \ {pick[s]}]
        BY <2>2, <2>5, <3>2
      <4>2. s \in Upto(k) => f[s] = step[<<pick[s], f[s \ {pick[s]}]>>]
        BY <2>1, <3>2 DEF TakesApart
      <4> QED
        BY <3>2, <4>1, <4>2
    <3> QED
      BY <3>1, <3>2
  <2> HIDE DEF g
  <2>7. TakesApart(g, Upto(k + 1), base, step, pick)
    BY <2>6 DEF TakesApart
  <2>8. Possible(k + 1)
    BY <2>4, <2>7
  <2> HIDE DEF Possible
  <2> QED
    BY <2>8
<1>5. Cardinality(D) \in P
  <2> HIDE DEF P
  <2> QED
    BY <1>1, <1>3, <1>4, SetInduction
<1>6. Upto(Cardinality(D)) = SUBSET D
  BY <1>1
<1>7. PICK f \in [Upto(Cardinality(D)) -> V] :
        TakesApart(f, Upto(Cardinality(D)), base, step, pick)
  BY <1>5
<1> HIDE DEF Upto
<1> QED
  BY <1>6, <1>7

-----------------------------------------------------------------------------
(* The turns of the loop *)

\* What the loop holds, and what it begins with.
Taken == [blocks : SUBSET Message, left : Int, full : BOOLEAN]
Nothing == [blocks |-> {}, left |-> Budget, full |-> FALSE]

\* One turn of the loop.
LEMMA TakeType ==
    ASSUME NEW acc \in Taken, NEW m \in Message
    PROVE  /\ Take(acc, m) \in Taken
           /\ acc.full \/ m.length > acc.left =>
                 /\ Take(acc, m).blocks = acc.blocks /\ Take(acc, m).left = acc.left
                 /\ Take(acc, m).full
           /\ ~(acc.full \/ m.length > acc.left) =>
                 /\ Take(acc, m).blocks = acc.blocks \cup {m}
                 /\ Take(acc, m).left = acc.left - (m.length + Separator)
                 /\ ~Take(acc, m).full
<1>1. m.length \in Lengths
  BY DEF Message
<1>2. m.length \in 1 .. Budget /\ Budget \in Nat
  BY <1>1, ContextAssumption
<1>3. m.length \in Int
  BY <1>2
<1>4. CASE acc.full \/ m.length > acc.left
  <2>1. Take(acc, m) = [acc EXCEPT !.full = TRUE]
    BY <1>4 DEF Take
  <2> QED
    BY <1>4, <2>1 DEF Taken
<1>5. CASE ~(acc.full \/ m.length > acc.left)
  <2>1. Take(acc, m) = [acc EXCEPT !.blocks = acc.blocks \cup {m},
                                   !.left = acc.left - (m.length + Separator)]
    BY <1>5 DEF Take
  <2>2. acc.left - (m.length + Separator) \in Int /\ acc.blocks \cup {m} \in SUBSET Message
    BY <1>3 DEF Taken, Separator
  <2> QED
    BY <1>5, <2>1, <2>2 DEF Taken
<1> QED
  BY <1>4, <1>5

\* The fold takes one message after the other.
LEMMA TakesInOrder ==
    ASSUME NEW n \in Nat, NEW read \in [1 .. n -> Message]
    PROVE  \E acc \in [0 .. n -> Taken] :
              /\ acc[0] = Nothing
              /\ \A k \in 1 .. n : acc[k] = Take(acc[k - 1], read[k])
              /\ FoldLeft(Take, Nothing, read) = acc[n]
<1> DEFINE D == DOMAIN read
           step == [x \in D \X Taken |-> Take(x[2], read[x[1]])]
           pick == [s \in (SUBSET D) \ {{}} |-> Max(s)]
           it == CHOOSE f : f = [s \in SUBSET D |->
                     IF s = {} THEN Nothing ELSE Take(f[s \ {Max(s)}], read[Max(s)])]
<1>1. FoldLeft(Take, Nothing, read) = it[D]
  BY DEF FoldLeft, MapThenFoldSet
<1>2. D = 1 .. n /\ IsFiniteSet(D)
  BY FS_Interval
<1>3. Nothing \in Taken
  BY ContextAssumption DEF Nothing, Taken
<1>4. step \in [D \X Taken -> Taken]
  BY TakeType
<1>5. /\ pick \in [(SUBSET D) \ {{}} -> D]
      /\ \A s \in (SUBSET D) \ {{}} : pick[s] \in s
  BY <1>2, HasMax
<1>6. PICK f \in [SUBSET D -> Taken] : TakesApart(f, SUBSET D, Nothing, step, pick)
  <2> HIDE DEF D, step, pick
  <2> QED
    BY <1>2, <1>3, <1>4, <1>5, FoldExists
<1>7. \A s \in SUBSET D : s # {} => /\ f[s \ {pick[s]}] \in Taken
                                   /\ step[<<pick[s], f[s \ {pick[s]}]>>]
                                        = Take(f[s \ {Max(s)}], read[Max(s)])
  BY <1>5
<1>8. f = [s \in SUBSET D |->
             IF s = {} THEN Nothing ELSE Take(f[s \ {Max(s)}], read[Max(s)])]
  BY <1>6, <1>7 DEF TakesApart
<1>9. it = [s \in SUBSET D |->
             IF s = {} THEN Nothing ELSE Take(it[s \ {Max(s)}], read[Max(s)])]
  BY <1>8
<1> HIDE DEF it, step, pick
<1> DEFINE acc == [k \in 0 .. n |-> it[1 .. k]]
<1>10. acc[0] = Nothing
  BY <1>2, <1>9, 1 .. 0 = {}
<1>11. ASSUME NEW k \in 1 .. n PROVE acc[k] = Take(acc[k - 1], read[k])
  <2>1. 1 .. k \in SUBSET D /\ 1 .. k # {}
    BY SMTT(30), <1>2
  <2>2. Max(1 .. k) = k
    <3>1. k \in Nat /\ 1 .. k \in SUBSET (1 .. k) /\ k \in 1 .. k
      OBVIOUS
    <3>2. Max(1 .. k) \in 1 .. k /\ \A y \in 1 .. k : Max(1 .. k) >= y
      BY <2>1, <3>1, HasMax
    <3> QED
      BY <3>1, <3>2
  <2>3. (1 .. k) \ {k} = 1 .. (k - 1)
    OBVIOUS
  <2>4. it[1 .. k] = Take(it[1 .. (k - 1)], read[k])
    BY <1>9, <2>1, <2>2, <2>3
  <2> QED
    BY <2>4
<1>12. \A k \in 0 .. n : acc[k] \in Taken
  <2> DEFINE P == {k \in Nat : k <= n => acc[k] \in Taken}
  <2> HIDE DEF acc
  <2>1. 0 \in P
    BY <1>3, <1>10
  <2>2. ASSUME NEW k \in Nat, k \in P PROVE k + 1 \in P
    <3>1. ASSUME k + 1 <= n PROVE acc[k + 1] \in Taken
      <4>1. acc[k] \in Taken /\ k + 1 \in 1 .. n /\ (k + 1) - 1 = k
        BY <2>2, <3>1
      <4>2. read[k + 1] \in Message
        BY <4>1
      <4>3. acc[k + 1] = Take(acc[k], read[k + 1])
        BY <1>11, <4>1
      <4> QED
        BY <4>1, <4>2, <4>3, TakeType
    <3> QED
      BY <3>1
  <2> HIDE DEF P
  <2>3. Nat \subseteq P
    BY <2>1, <2>2, SetInduction
  <2> QED
    BY <2>3 DEF P
<1>13. acc \in [0 .. n -> Taken] /\ acc[n] = it[D]
  BY <1>2, <1>12
<1> HIDE DEF acc
<1> QED
  BY <1>1, <1>10, <1>11, <1>13

-----------------------------------------------------------------------------
(* The length of a context *)

\* The weight of a set of messages is the sum of their blocks with a separator
\* each, and recurs over the message the fold takes first.
Block(m) == m.length + Separator
AnyOf(T) == CHOOSE m \in T : TRUE
Weight(T) == MapThenSumSet(LAMBDA m : m.length + Separator, T)
Sums(T) == CHOOSE f : f = [s \in SUBSET T |->
               IF s = {} THEN 0 ELSE Block(AnyOf(s)) + f[s \ {AnyOf(s)}]]

\* A message fits into an empty context.
LEMMA BlockType ==
    ASSUME NEW m \in Message
    PROVE  m.length \in Nat /\ 0 < m.length /\ m.length <= Budget /\ Budget \in Nat /\ Block(m) \in Nat
<1>1. m.length \in Lengths
  BY DEF Message
<1>2. m.length \in 1 .. Budget /\ Budget \in Nat
  BY <1>1, ContextAssumption
<1> QED
  BY <1>2 DEF Block, Separator

\* Sets of messages that can be taken apart one message at a time.
Finite(T) == T \subseteq Message /\ IsFiniteSet(T)

LEMMA FiniteParts ==
    ASSUME NEW T, Finite(T)
    PROVE  /\ Cardinality(T) \in Nat
           /\ Cardinality(T) = 0 <=> T = {}
           /\ \A U \in SUBSET T : Finite(U)
           /\ \A m \in T : Finite(T \ {m}) /\ Cardinality(T \ {m}) = Cardinality(T) - 1
           /\ T # {} => AnyOf(T) \in T
<1>1. \A m \in T : Finite(T \ {m}) /\ Cardinality(T \ {m}) = Cardinality(T) - 1
  BY FS_RemoveElement DEF Finite
<1>2. \A U \in SUBSET T : Finite(U)
  BY FS_Subset DEF Finite
<1> QED
  BY <1>1, <1>2, FS_CardinalityType, FS_EmptySet DEF Finite, AnyOf

\* The function the sum is defined by exists.
LEMMA SumsExist ==
    ASSUME NEW T, Finite(T)
    PROVE  /\ Sums(T) = [s \in SUBSET T |->
                IF s = {} THEN 0 ELSE Block(AnyOf(s)) + Sums(T)[s \ {AnyOf(s)}]]
           /\ Weight(T) = Sums(T)[T]
<1> DEFINE step == [x \in T \X Nat |-> Block(x[1]) + x[2]]
           pick == [s \in (SUBSET T) \ {{}} |-> AnyOf(s)]
<1>1. Weight(T) = Sums(T)[T]
  BY DEF Weight, Sums, MapThenSumSet, MapThenFoldSet, AnyOf, Block
<1>2. step \in [T \X Nat -> Nat]
  BY BlockType DEF Finite
<1>3. /\ pick \in [(SUBSET T) \ {{}} -> T]
      /\ \A s \in (SUBSET T) \ {{}} : pick[s] \in s
  BY DEF AnyOf
<1>4. PICK f \in [SUBSET T -> Nat] : TakesApart(f, SUBSET T, 0, step, pick)
  <2> HIDE DEF step, pick
  <2>1. 0 \in Nat /\ IsFiniteSet(T)
    BY DEF Finite
  <2> QED
    BY <1>2, <1>3, <2>1, FoldExists
<1>5. \A s \in SUBSET T : s # {} => /\ f[s \ {pick[s]}] \in Nat
                                   /\ step[<<pick[s], f[s \ {pick[s]}]>>]
                                        = Block(AnyOf(s)) + f[s \ {AnyOf(s)}]
  BY <1>3
<1>6. f = [s \in SUBSET T |-> IF s = {} THEN 0 ELSE Block(AnyOf(s)) + f[s \ {AnyOf(s)}]]
  BY <1>4, <1>5 DEF TakesApart
<1>7. Sums(T) = [s \in SUBSET T |->
                   IF s = {} THEN 0 ELSE Block(AnyOf(s)) + Sums(T)[s \ {AnyOf(s)}]]
  BY <1>6 DEF Sums
<1> QED
  BY <1>1, <1>7

\* The sum over a set does not depend on the set it is part of ...
LEMMA SumsAgree ==
    ASSUME NEW S, Finite(S), NEW T \in SUBSET S
    PROVE  Sums(S)[T] = Weight(T)
<1> DEFINE Agree(n) == \A U \in SUBSET T : Cardinality(U) = n => Sums(S)[U] = Sums(T)[U]
           P == {n \in Nat : Agree(n)}
<1>1. Finite(T) /\ Cardinality(T) \in Nat
  BY FiniteParts
<1>2. 0 \in P
  <2>1. ASSUME NEW U \in SUBSET T, Cardinality(U) = 0 PROVE Sums(S)[U] = Sums(T)[U]
    <3>1. U = {}
      BY <1>1, <2>1, FiniteParts
    <3> QED
      BY <1>1, <3>1, SumsExist
  <2>2. Agree(0)
    BY <2>1
  <2> HIDE DEF Agree
  <2> QED
    BY <2>2
<1>3. ASSUME NEW n \in Nat, n \in P PROVE n + 1 \in P
  <2>1. ASSUME NEW U \in SUBSET T, Cardinality(U) = n + 1 PROVE Sums(S)[U] = Sums(T)[U]
    <3>1. Finite(U) /\ U # {}
      BY <1>1, <2>1, FiniteParts
    <3>2. AnyOf(U) \in U /\ Cardinality(U \ {AnyOf(U)}) = n
      BY <2>1, <3>1, FiniteParts
    <3>3. Sums(S)[U \ {AnyOf(U)}] = Sums(T)[U \ {AnyOf(U)}]
      BY <1>3, <3>2
    <3>4. /\ Sums(S)[U] = Block(AnyOf(U)) + Sums(S)[U \ {AnyOf(U)}]
          /\ Sums(T)[U] = Block(AnyOf(U)) + Sums(T)[U \ {AnyOf(U)}]
      BY <1>1, <3>1, SumsExist
    <3> QED
      BY <3>3, <3>4
  <2>2. Agree(n + 1)
    BY <2>1
  <2> HIDE DEF Agree
  <2> QED
    BY <2>2
<1>4. Agree(Cardinality(T))
  <2> HIDE DEF Agree
  <2> QED
    BY <1>1, <1>2, <1>3, SetInduction
<1> QED
  BY <1>1, <1>4, SumsExist

LEMMA WeightRecurs ==
    ASSUME NEW T, Finite(T)
    PROVE  Weight(T) = IF T = {} THEN 0 ELSE Block(AnyOf(T)) + Weight(T \ {AnyOf(T)})
<1>1. CASE T = {}
  BY <1>1, SumsExist
<1>2. CASE T # {}
  <2>1. Weight(T) = Block(AnyOf(T)) + Sums(T)[T \ {AnyOf(T)}]
    BY <1>2, SumsExist
  <2> QED
    BY <1>2, <2>1, SumsAgree
<1> QED
  BY <1>1, <1>2

\* ... and not on the order.
LEMMA WeightAdds ==
    ASSUME NEW S, Finite(S), NEW m \in S
    PROVE  Weight(S) = Block(m) + Weight(S \ {m}) /\ Weight(S) \in Nat /\ Weight(S \ {m}) \in Nat
<1> DEFINE Adds(n) == \A T \in SUBSET S : Cardinality(T) <= n =>
                /\ Weight(T) \in Nat
                /\ \A k \in T : Weight(T) = Block(k) + Weight(T \ {k})
           P == {n \in Nat : Adds(n)}
<1>1. \A T \in SUBSET S : Finite(T) /\ Cardinality(T) \in Nat
  BY FiniteParts
<1>2. 0 \in P
  <2>1. ASSUME NEW T \in SUBSET S, Cardinality(T) <= 0
        PROVE  T = {} /\ Weight(T) = 0
    <3>1. Cardinality(T) = 0 /\ Finite(T)
      BY <1>1, <2>1
    <3>2. T = {}
      BY <3>1, FiniteParts
    <3> QED
      BY <3>1, <3>2, WeightRecurs
  <2>2. Adds(0)
    BY <2>1
  <2> HIDE DEF Adds
  <2> QED
    BY <2>2
<1>3. ASSUME NEW n \in Nat, n \in P PROVE n + 1 \in P
  <2>1. ASSUME NEW T \in SUBSET S, Cardinality(T) = n + 1
        PROVE  /\ Weight(T) \in Nat
               /\ \A k \in T : Weight(T) = Block(k) + Weight(T \ {k})
    <3>1. Finite(T) /\ T # {}
      BY <1>1, <2>1, FiniteParts
    <3>2. \A k \in T : Cardinality(T \ {k}) = n /\ T \ {k} \in SUBSET S /\ Finite(T \ {k})
      BY <2>1, <3>1, FiniteParts
    <3>3. \A k \in T : Block(k) \in Nat
      BY <3>1, BlockType DEF Finite
    <3> DEFINE a == AnyOf(T)
    <3>4. a \in T
      BY <3>1, FiniteParts
    <3>5. Weight(T) = Block(a) + Weight(T \ {a})
      BY <3>1, WeightRecurs
    <3> HIDE DEF a
    <3>6. ASSUME NEW k \in T
          PROVE  /\ Weight(T \ {k}) \in Nat
                 /\ \A l \in T \ {k} : Weight(T \ {k}) = Block(l) + Weight((T \ {k}) \ {l})
      <4>1. Cardinality(T \ {k}) <= n /\ T \ {k} \in SUBSET S
        BY <3>2
      <4> QED
        BY <1>3, <4>1
    <3>7. Weight(T) \in Nat
      BY <3>3, <3>4, <3>5, <3>6
    <3>8. ASSUME NEW k \in T, k # a PROVE Weight(T) = Block(k) + Weight(T \ {k})
      <4> DEFINE rest == (T \ {k}) \ {a}
      <4>1. Weight(T \ {a}) = Block(k) + Weight(rest)
        <5>1. (T \ {a}) \ {k} = rest /\ k \in T \ {a}
          BY <3>8
        <5> QED
          BY <3>4, <3>6, <5>1
      <4>2. Weight(T \ {k}) = Block(a) + Weight(rest)
        BY <3>4, <3>6, <3>8
      <4>3. Weight(rest) \in Nat
        <5>1. Cardinality(T \ {k}) = n /\ Finite(T \ {k}) /\ a \in T \ {k}
          BY <3>2, <3>4, <3>8
        <5>2. Cardinality(rest) = n - 1
          BY <5>1, FiniteParts
        <5>3. rest \in SUBSET S /\ Cardinality(rest) <= n
          BY <5>2
        <5> QED
          BY <1>3, <5>3
      <4>4. Block(k) \in Nat /\ Block(a) \in Nat
        BY <3>3, <3>4
      <4> HIDE DEF rest
      <4> QED
        BY <3>5, <4>1, <4>2, <4>3, <4>4
    <3> QED
      BY <3>5, <3>7, <3>8
  <2>2. ASSUME NEW T \in SUBSET S, Cardinality(T) <= n + 1
        PROVE  /\ Weight(T) \in Nat
               /\ \A k \in T : Weight(T) = Block(k) + Weight(T \ {k})
    <3>1. Cardinality(T) = n + 1 \/ Cardinality(T) <= n
      BY <1>1, <2>2
    <3>2. CASE Cardinality(T) <= n
      BY <1>3, <3>2
    <3> QED
      BY <2>1, <3>1, <3>2
  <2>3. Adds(n + 1)
    BY <2>2
  <2> HIDE DEF Adds
  <2> QED
    BY <2>3
<1>4. Nat \subseteq P
  <2> HIDE DEF P
  <2> QED
    BY <1>2, <1>3, SetInduction
<1>5. Adds(Cardinality(S))
  <2> HIDE DEF Adds
  <2> QED
    BY <1>1, <1>4
<1>6. /\ S \in SUBSET S /\ S \ {m} \in SUBSET S
      /\ Cardinality(S) <= Cardinality(S) /\ Cardinality(S \ {m}) <= Cardinality(S)
  BY <1>1, FiniteParts
<1>7. Weight(S) \in Nat /\ Weight(S) = Block(m) + Weight(S \ {m})
  BY <1>5, <1>6
<1>8. Weight(S \ {m}) \in Nat
  BY <1>5, <1>6
<1> QED
  BY <1>7, <1>8

\* More messages weigh more.
LEMMA WeightGrows ==
    ASSUME NEW S, Finite(S), NEW U \in SUBSET S
    PROVE  Weight(U) <= Weight(S) /\ Weight(U) \in Nat /\ Weight(S) \in Nat
<1> DEFINE Grows(n) == \A T \in SUBSET S :
                (Cardinality(T) = n /\ U \subseteq T) => Weight(U) <= Weight(T)
           P == {n \in Nat : Grows(n)}
<1>1. ASSUME NEW T \in SUBSET S PROVE Finite(T) /\ Cardinality(T) \in Nat /\ Weight(T) \in Nat
  <2>1. Finite(T) /\ Cardinality(T) \in Nat
    BY FiniteParts
  <2>2. CASE T = {}
    BY <2>1, <2>2, WeightRecurs
  <2>3. CASE T # {}
    <3>1. PICK m \in T : TRUE
      BY <2>3
    <3> QED
      BY <2>1, <3>1, WeightAdds
  <2> QED
    BY <2>1, <2>2, <2>3
<1>2. ASSUME NEW T \in SUBSET S, U = T PROVE Weight(U) <= Weight(T)
  BY <1>1, <1>2
<1>3. 0 \in P
  <2>1. ASSUME NEW T \in SUBSET S, Cardinality(T) = 0, U \subseteq T PROVE Weight(U) <= Weight(T)
    <3>1. T = {}
      BY <1>1, <2>1, FiniteParts
    <3> QED
      BY <1>2, <2>1, <3>1
  <2>2. Grows(0)
    BY <2>1
  <2> HIDE DEF Grows
  <2> QED
    BY <2>2
<1>4. ASSUME NEW n \in Nat, n \in P PROVE n + 1 \in P
  <2>1. ASSUME NEW T \in SUBSET S, Cardinality(T) = n + 1, U \subseteq T, U # T
        PROVE  Weight(U) <= Weight(T)
    <3>1. PICK m \in T : m \notin U
      BY <2>1
    <3>2. Finite(T) /\ m \in Message
      BY <1>1 DEF Finite
    <3>3. Cardinality(T \ {m}) = n /\ T \ {m} \in SUBSET S /\ U \subseteq T \ {m}
      BY <2>1, <3>1, <3>2, FiniteParts
    <3>4. Weight(U) <= Weight(T \ {m})
      BY <1>4, <3>3
    <3>5. Weight(T) = Block(m) + Weight(T \ {m}) /\ Weight(T \ {m}) \in Nat
      BY <3>2, WeightAdds
    <3>6. Block(m) \in Nat /\ Weight(U) \in Nat
      BY <1>1, <3>2, BlockType
    <3> QED
      BY <3>4, <3>5, <3>6
  <2>2. Grows(n + 1)
    BY <1>2, <2>1
  <2> HIDE DEF Grows
  <2> QED
    BY <2>2
<1>5. Grows(Cardinality(S))
  <2>1. Cardinality(S) \in Nat
    BY FiniteParts
  <2> HIDE DEF Grows
  <2> QED
    BY <1>3, <1>4, <2>1, SetInduction
<1> QED
  BY <1>1, <1>5

-----------------------------------------------------------------------------
(* What a context holds *)

\* No two messages have one time.
Stamped(S) == \A m, n \in S : m.at = n.at => m = n

\* NewestFirst lists every message once, from the newest to the oldest.
LEMMA NewestSorts ==
    ASSUME NEW S, Finite(S), Stamped(S)
    PROVE  /\ NewestFirst(S) \in [1 .. Cardinality(S) -> S]
           /\ \A m \in S : \E i \in 1 .. Cardinality(S) : NewestFirst(S)[i] = m
           /\ \A i, j \in 1 .. Cardinality(S) : i < j => NewestFirst(S)[j].at < NewestFirst(S)[i].at
<1> DEFINE n == Cardinality(S)
           newer(m) == {k \in S : k.at > m.at}
           pos == [m \in S |-> Cardinality(newer(m)) + 1]
           s == NewestFirst(S)
<1>1. n \in Nat /\ \A m \in S : m.at \in Nat
  BY FiniteParts DEF Finite, Message
<1>2. ASSUME NEW m \in S
      PROVE  Finite(newer(m)) /\ Cardinality(newer(m)) \in 0 .. (n - 1)
  <2>1. newer(m) \in SUBSET (S \ {m}) /\ newer(m) \in SUBSET S
    BY <1>1
  <2>2. Finite(newer(m)) /\ Cardinality(newer(m)) \in Nat
    BY <2>1, FiniteParts
  <2>3. Finite(S \ {m}) /\ Cardinality(S \ {m}) = n - 1
    BY FiniteParts
  <2>4. Cardinality(newer(m)) <= n - 1
    BY <2>1, <2>3, FS_Subset DEF Finite
  <2> QED
    BY <1>1, <2>2, <2>4
<1>3. ASSUME NEW m \in S, NEW k \in S, k.at > m.at
      PROVE  Cardinality(newer(k)) < Cardinality(newer(m))
  <2>1. k \in newer(m) /\ newer(k) \in SUBSET (newer(m) \ {k})
    BY <1>1, <1>3
  <2>2. /\ Finite(newer(m) \ {k})
        /\ Cardinality(newer(m) \ {k}) = Cardinality(newer(m)) - 1
    BY <1>2, <2>1, FiniteParts
  <2>3. Cardinality(newer(k)) <= Cardinality(newer(m)) - 1
    BY <2>1, <2>2, FS_Subset DEF Finite
  <2> HIDE DEF newer
  <2>4. Cardinality(newer(m)) \in Nat /\ Cardinality(newer(k)) \in Nat
    BY <1>1, <1>2
  <2> QED
    BY <2>3, <2>4
<1> HIDE DEF newer
<1>4. pos \in [S -> 1 .. n]
  <2>1. ASSUME NEW m \in S PROVE Cardinality(newer(m)) + 1 \in 1 .. n
    BY <1>1, <1>2
  <2> QED
    BY <2>1
<1>5. \A m, k \in S : pos[m] = pos[k] => m = k
  <2> SUFFICES ASSUME NEW m \in S, NEW k \in S, m # k PROVE pos[m] # pos[k]
    OBVIOUS
  <2>1. m.at > k.at \/ k.at > m.at
    BY <1>1 DEF Stamped
  <2>2. Cardinality(newer(m)) # Cardinality(newer(k))
    BY <1>2, <1>3, <2>1
  <2> QED
    BY <1>2, <2>2
<1>6. \A i \in 1 .. n : \E m \in S : pos[m] = i
  <2>1. pos \in Injection(S, 1 .. n)
    BY <1>4, <1>5 DEF Injection, IsInjective
  <2>2. IsFiniteSet(1 .. n) /\ Cardinality(1 .. n) = n
    BY <1>1, FS_Interval
  <2>3. pos \in Surjection(S, 1 .. n)
    <3> HIDE DEF pos
    <3> QED
      BY <2>1, <2>2, FS_Injection
  <2> QED
    BY <2>3 DEF Surjection
<1>7. s = [i \in 1 .. n |-> CHOOSE m \in S : Cardinality(newer(m)) = i - 1]
  BY DEF NewestFirst, newer
<1>8. ASSUME NEW i \in 1 .. n PROVE /\ s[i] \in S /\ pos[s[i]] = i
                                   /\ Cardinality(newer(s[i])) = i - 1
  <2>1. \E m \in S : Cardinality(newer(m)) = i - 1
    BY <1>2, <1>6
  <2>2. s[i] = CHOOSE m \in S : Cardinality(newer(m)) = i - 1
    BY <1>7
  <2>3. s[i] \in S /\ Cardinality(newer(s[i])) = i - 1
    BY <2>1, <2>2
  <2> QED
    BY <1>1, <2>3
<1>9. /\ s \in [1 .. n -> S]
      /\ \A i \in 1 .. n : s[i] \in S /\ Cardinality(newer(s[i])) = i - 1
  BY <1>7, <1>8
<1>10. ASSUME NEW m \in S PROVE \E i \in 1 .. n : s[i] = m
  <2>1. pos[m] \in 1 .. n
    BY <1>4
  <2>2. s[pos[m]] \in S /\ pos[s[pos[m]]] = pos[m]
    BY <1>8, <2>1
  <2>3. s[pos[m]] = m
    BY <1>5, <2>2
  <2> QED
    BY <2>1, <2>3
<1>11. ASSUME NEW i \in 1 .. n, NEW j \in 1 .. n, i < j PROVE s[j].at < s[i].at
  <2>1. /\ s[i] \in S /\ Cardinality(newer(s[i])) = i - 1
        /\ s[j] \in S /\ Cardinality(newer(s[j])) = j - 1
    BY <1>9
  <2>2. CASE s[j].at > s[i].at
    BY <1>3, <1>11, <2>1, <2>2
  <2>3. CASE s[j].at = s[i].at
    BY <1>11, <2>1, <2>3 DEF Stamped
  <2> QED
    BY <1>1, <2>1, <2>2, <2>3
<1> QED
  BY <1>9, <1>10, <1>11

\* The first j of a sequence.
Firsts(s, j) == {s[i] : i \in 1 .. j}

\* One more of the newest adds its block.
LEMMA FirstsAdd ==
    ASSUME NEW n \in Nat, NEW s \in [1 .. n -> Message], NEW j \in 0 .. n,
           \A x, y \in 1 .. n : x < y => s[y].at < s[x].at
    PROVE  /\ Finite(Firsts(s, j)) /\ Cardinality(Firsts(s, j)) = j
           /\ j < n => /\ Firsts(s, j + 1) = Firsts(s, j) \cup {s[j + 1]}
                       /\ Weight(Firsts(s, j + 1)) = Weight(Firsts(s, j)) + Block(s[j + 1])
           /\ Weight(Firsts(s, j)) \in Nat
<1>1. \A x \in 1 .. n : s[x] \in Message /\ s[x].at \in Nat
  BY DEF Message
<1>2. ASSUME NEW k \in 0 .. n PROVE Finite(Firsts(s, k)) /\ Cardinality(Firsts(s, k)) = k
  <2> DEFINE f == [i \in 1 .. k |-> s[i]]
  <2>1. 1 .. k \subseteq 1 .. n /\ \A x, y \in 1 .. k : x # y => s[x] # s[y]
    <3>1. 1 .. k \subseteq 1 .. n
      OBVIOUS
    <3>2. ASSUME NEW x \in 1 .. k, NEW y \in 1 .. k, x # y PROVE s[x] # s[y]
      <4>1. x < y \/ y < x
        BY <3>2
      <4>2. s[x].at # s[y].at
        BY <1>1, <3>1, <4>1
      <4> QED
        BY <4>2
    <3> QED
      BY <3>1, <3>2
  <2>2. f \in Injection(1 .. k, Firsts(s, k)) /\ f \in Surjection(1 .. k, Firsts(s, k))
    BY <2>1 DEF Injection, Surjection, IsInjective, Firsts
  <2>3. IsFiniteSet(1 .. k) /\ Cardinality(1 .. k) = k
    BY FS_Interval
  <2>4. ExistsBijection(1 .. k, Firsts(s, k))
    BY <2>2 DEF ExistsBijection, Bijection
  <2>5. IsFiniteSet(Firsts(s, k)) /\ Cardinality(Firsts(s, k)) = k
    BY <2>3, <2>4, FS_Bijection
  <2>6. Firsts(s, k) \subseteq Message
    BY <1>1, <2>1 DEF Firsts
  <2> QED
    BY <2>5, <2>6 DEF Finite
<1>3. ASSUME j < n
      PROVE  /\ Firsts(s, j + 1) = Firsts(s, j) \cup {s[j + 1]}
             /\ Weight(Firsts(s, j + 1)) = Weight(Firsts(s, j)) + Block(s[j + 1])
  <2>1. 1 .. j + 1 = (1 .. j) \cup {j + 1} /\ j + 1 \in 0 .. n /\ j + 1 \in 1 .. n
    BY <1>3
  <2>2. Firsts(s, j + 1) = Firsts(s, j) \cup {s[j + 1]}
    BY <2>1 DEF Firsts
  <2>3. s[j + 1] \notin Firsts(s, j)
    <3>1. ASSUME NEW i \in 1 .. j PROVE s[j + 1] # s[i]
      <4>1. i \in 1 .. n /\ i < j + 1
        BY <1>3
      <4>2. s[j + 1].at < s[i].at
        BY <2>1, <4>1
      <4> QED
        BY <1>1, <2>1, <4>1, <4>2
    <3> QED
      BY <3>1 DEF Firsts
  <2>4. Firsts(s, j + 1) \ {s[j + 1]} = Firsts(s, j) /\ s[j + 1] \in Firsts(s, j + 1)
    BY <2>2, <2>3
  <2>5. Finite(Firsts(s, j + 1))
    BY <1>2, <2>1
  <2>6. /\ Weight(Firsts(s, j + 1)) = Block(s[j + 1]) + Weight(Firsts(s, j))
        /\ Weight(Firsts(s, j)) \in Nat /\ Block(s[j + 1]) \in Nat
    BY <1>1, <2>1, <2>4, <2>5, WeightAdds, BlockType
  <2> QED
    BY <2>2, <2>6
<1>4. Weight(Firsts(s, j)) \in Nat
  BY <1>2, WeightGrows
<1> QED
  BY <1>2, <1>3, <1>4

\* After i turns of the loop: it has the first j, and there is a reason for the
\* next one not to be among them.
Stands(s, acc, i, j) ==
    /\ acc.blocks = Firsts(s, j)
    /\ acc.left = Budget - Weight(Firsts(s, j))
    /\ i > 0 => j > 0
    /\ ~acc.full => j = i
    /\ acc.full => j < i /\ s[j + 1].length > acc.left
    /\ j > 0 => Weight(Firsts(s, j)) - Separator <= Budget

\* Before the first turn.
LEMMA NoneStands ==
    ASSUME NEW s PROVE Stands(s, Nothing, 0, 0) /\ Weight(Firsts(s, 0)) = 0
<1>1. Firsts(s, 0) = {}
  BY 1 .. 0 = {} DEF Firsts
<1>2. Finite({})
  BY FS_EmptySet DEF Finite
<1>3. Weight({}) = 0
  BY <1>2, WeightRecurs
<1>4. Budget \in Nat
  BY ContextAssumption
<1> QED
  BY <1>1, <1>3, <1>4 DEF Stands, Nothing

\* One more turn: the block is added, or it ends the loop.
LEMMA TakeStands ==
    ASSUME NEW n \in Nat, NEW s \in [1 .. n -> Message],
           \A x, y \in 1 .. n : x < y => s[y].at < s[x].at,
           NEW i \in 0 .. (n - 1), NEW acc \in Taken, NEW j \in 0 .. i, Stands(s, acc, i, j)
    PROVE  \E h \in 0 .. (i + 1) : Stands(s, Take(acc, s[i + 1]), i + 1, h)
<1> DEFINE m == s[i + 1]
           got == Take(acc, m)
<1>1. i + 1 \in 1 .. n /\ m \in Message /\ j \in 0 .. n /\ j \in Nat /\ i \in Nat
  OBVIOUS
<1>2. /\ m.length \in Nat /\ m.length <= Budget /\ Budget \in Nat
      /\ Block(m) = m.length + Separator /\ Separator = 2
  BY <1>1, BlockType DEF Block, Separator
<1>3. Weight(Firsts(s, j)) \in Nat
  BY <1>1, FirstsAdd
<1>4. CASE acc.full
  <2>1. got.blocks = acc.blocks /\ got.left = acc.left /\ got.full
    BY <1>1, <1>4, TakeType
  <2>2. Stands(s, got, i + 1, j)
    BY <1>1, <1>4, <2>1 DEF Stands
  <2> QED
    BY <1>1, <2>2
<1>5. CASE ~acc.full /\ m.length > acc.left
  <2>1. got.blocks = acc.blocks /\ got.left = acc.left /\ got.full
    BY <1>1, <1>5, TakeType
  <2>2. i = j /\ m = s[j + 1]
    BY <1>5 DEF Stands
  <2>3. j > 0
    <3>1. ASSUME j = 0 PROVE FALSE
      <4>1. acc.left = Budget
        BY <1>2, <3>1, NoneStands DEF Stands
      <4> QED
        BY <1>2, <1>5, <4>1
    <3> QED
      BY <1>1, <3>1
  <2>4. Stands(s, got, i + 1, j)
    BY <1>1, <1>5, <2>1, <2>2, <2>3 DEF Stands
  <2> QED
    BY <1>1, <2>4
<1>6. CASE ~acc.full /\ ~(m.length > acc.left)
  <2>1. /\ got.blocks = acc.blocks \cup {m} /\ got.left = acc.left - (m.length + Separator)
        /\ ~got.full
    BY <1>1, <1>6, TakeType
  <2>2. i = j /\ m = s[j + 1] /\ j < n
    BY <1>1, <1>6 DEF Stands
  <2>3. /\ Firsts(s, j + 1) = Firsts(s, j) \cup {m}
        /\ Weight(Firsts(s, j + 1)) = Weight(Firsts(s, j)) + Block(m)
    BY <1>1, <2>2, FirstsAdd
  <2>4. acc.left = Budget - Weight(Firsts(s, j)) /\ acc.blocks = Firsts(s, j)
    BY DEF Stands
  <2>5. /\ got.left = Budget - Weight(Firsts(s, j + 1))
        /\ Weight(Firsts(s, j + 1)) - Separator <= Budget
    BY <1>2, <1>3, <1>6, <2>1, <2>3, <2>4
  <2>6. Stands(s, got, i + 1, j + 1)
    <3> HIDE DEF got, m
    <3>1. j + 1 = i + 1 /\ j + 1 > 0
      BY <1>1, <2>2
    <3> QED
      BY <2>1, <2>3, <2>4, <2>5, <3>1 DEF Stands
  <2> QED
    BY <1>1, <2>2, <2>6
<1> QED
  BY <1>4, <1>5, <1>6

\* A context is the first few of the newest: as many as the limit and the budget
\* have room for, and one at least.
LEMMA ContextIsFirsts ==
    ASSUME NEW S, Finite(S), Stamped(S)
    PROVE  \E j \in 0 .. Cardinality(S) :
              /\ GetConversationContext(S) = Firsts(NewestFirst(S), j)
              /\ j <= Limit
              /\ S # {} => j > 0
              /\ j > 0 => Weight(Firsts(NewestFirst(S), j)) - Separator <= Budget
              /\ (j < Cardinality(S) /\ j < Limit) =>
                    Weight(Firsts(NewestFirst(S), j + 1)) - Separator > Budget
<1> DEFINE n == Cardinality(S)
           s == NewestFirst(S)
           k == IF n < Limit THEN n ELSE Limit
           read == SubSeq(s, 1, k)
<1>1. n \in Nat /\ (n = 0 <=> S = {}) /\ Limit \in Nat /\ Limit > 0 /\ Budget \in Nat
  BY FiniteParts, ContextAssumption
<1>2. /\ s \in [1 .. n -> Message]
      /\ \A x, y \in 1 .. n : x < y => s[y].at < s[x].at
  BY NewestSorts DEF Finite
<1>3. k \in 0 .. n /\ k <= Limit /\ (n > 0 => k > 0)
  BY <1>1
<1> HIDE DEF n, s, k
<1>4. s \in Seq(Message) /\ Len(s) = n
  BY <1>1, <1>2
<1>5. read \in [1 .. k -> Message] /\ \A i \in 1 .. k : read[i] = s[i]
  <2>1. /\ read \in Seq(Message) /\ Len(read) = k
        /\ \A i \in 1 .. k : read[i] = s[1 + i - 1]
    BY <1>1, <1>3, <1>4, SubSeqProperties
  <2>2. read \in [1 .. k -> Message]
    <3> HIDE DEF read
    <3> QED
      BY <2>1
  <2>3. \A i \in 1 .. k : 1 + i - 1 = i
    BY <1>3
  <2> QED
    BY <2>1, <2>2, <2>3
<1>6. GetConversationContext(S) = FoldLeft(Take, Nothing, read).blocks
  BY <1>4 DEF GetConversationContext, Nothing, k, s
<1> HIDE DEF read
<1>7. PICK acc \in [0 .. k -> Taken] :
        /\ acc[0] = Nothing
        /\ \A i \in 1 .. k : acc[i] = Take(acc[i - 1], read[i])
        /\ FoldLeft(Take, Nothing, read) = acc[k]
  <2>1. k \in Nat
    BY <1>3
  <2> QED
    BY <1>5, <2>1, TakesInOrder
<1> DEFINE Good(i) == i <= k => \E j \in 0 .. i : Stands(s, acc[i], i, j)
           P == {i \in Nat : Good(i)}
<1>8. Good(0)
  BY <1>7, NoneStands
<1>9. ASSUME NEW i \in Nat, Good(i) PROVE Good(i + 1)
  <2> SUFFICES ASSUME i + 1 <= k PROVE \E h \in 0 .. (i + 1) : Stands(s, acc[i + 1], i + 1, h)
    OBVIOUS
  <2>1. i + 1 \in 1 .. k /\ (i + 1) - 1 = i /\ i \in 0 .. (n - 1) /\ i \in 0 .. k /\ i <= k
    BY <1>1, <1>3
  <2>2. PICK j \in 0 .. i : Stands(s, acc[i], i, j)
    BY <1>9, <2>1
  <2>3. acc[i + 1] = Take(acc[i], s[i + 1]) /\ acc[i] \in Taken
    BY <1>5, <1>7, <2>1
  <2>4. \E h \in 0 .. (i + 1) : Stands(s, Take(acc[i], s[i + 1]), i + 1, h)
    BY <1>1, <1>2, <2>1, <2>2, <2>3, TakeStands
  <2> QED
    BY <2>3, <2>4
<1>10. Good(k)
  <2> HIDE DEF Good
  <2>1. 0 \in P
    BY <1>8
  <2>2. ASSUME NEW i \in Nat, i \in P PROVE i + 1 \in P
    BY <1>9, <2>2
  <2>3. k \in Nat
    BY <1>3
  <2>4. k \in P
    <3> HIDE DEF P
    <3> QED
      BY <2>1, <2>2, <2>3, SetInduction
  <2> QED
    BY <2>4
<1>11. PICK j \in 0 .. k : Stands(s, acc[k], k, j)
  BY <1>3, <1>10
<1>12. /\ j \in 0 .. n /\ j <= Limit /\ GetConversationContext(S) = Firsts(s, j)
       /\ S # {} => j > 0
       /\ j > 0 => Weight(Firsts(s, j)) - Separator <= Budget
  BY <1>1, <1>3, <1>6, <1>7, <1>11 DEF Stands
<1>13. ASSUME j < n, j < Limit PROVE Weight(Firsts(s, j + 1)) - Separator > Budget
  <2>1. j < k
    BY <1>13 DEF k
  <2>2. s[j + 1].length > Budget - Weight(Firsts(s, j))
    BY <1>11, <2>1 DEF Stands
  <2>3. /\ Weight(Firsts(s, j + 1)) = Weight(Firsts(s, j)) + Block(s[j + 1])
        /\ Weight(Firsts(s, j)) \in Nat
    <3>1. j \in 0 .. n /\ n \in Nat /\ j < n
      BY <1>1, <1>12, <1>13
    <3>2. \A x, y \in 1 .. n : x < y => s[y].at < s[x].at
      BY <1>2
    <3>3. s \in [1 .. n -> Message]
      BY <1>2
    <3> QED
      BY <3>1, <3>2, <3>3, FirstsAdd
  <2>4. /\ s[j + 1].length \in Nat /\ Block(s[j + 1]) = s[j + 1].length + Separator
        /\ Separator = 2
    <3>1. j + 1 \in 1 .. n
      BY <1>1, <1>12, <1>13
    <3>2. s[j + 1] \in Message
      BY <1>2, <3>1
    <3> QED
      BY <3>2, BlockType DEF Block, Separator
  <2> QED
    BY <1>1, <2>2, <2>3, <2>4
<1> QED
  BY <1>12, <1>13 DEF n, s

\* The text of a context is as long as its weight, without the last separator.
LEMMA Joined ==
    ASSUME NEW T
    PROVE  JoinedLength(T) = IF T = {} THEN 0 ELSE Weight(T) - Separator
BY DEF JoinedLength, Weight

\* The context of a transcript is its longest end that fits.
LEMMA ContextFits ==
    ASSUME NEW S, Finite(S), Stamped(S)
    PROVE  /\ GetConversationContext(S) \in SUBSET S
           /\ S # {} => GetConversationContext(S) # {}
           /\ FitsAsEnd(S, GetConversationContext(S))
           /\ \A T \in SUBSET S : FitsAsEnd(S, T) => T \subseteq GetConversationContext(S)
<1> DEFINE n == Cardinality(S)
           s == NewestFirst(S)
           C == GetConversationContext(S)
<1>1. n \in Nat /\ Limit \in Nat /\ Budget \in Nat
  BY FiniteParts, ContextAssumption
<1>2. PICK j \in 0 .. n :
        /\ C = Firsts(s, j)
        /\ j <= Limit
        /\ S # {} => j > 0
        /\ j > 0 => Weight(Firsts(s, j)) - Separator <= Budget
        /\ (j < n /\ j < Limit) => Weight(Firsts(s, j + 1)) - Separator > Budget
  BY ContextIsFirsts
<1>3. /\ s \in [1 .. n -> S]
      /\ \A m \in S : \E i \in 1 .. n : s[i] = m
      /\ \A x, y \in 1 .. n : x < y => s[y].at < s[x].at
  BY NewestSorts
<1> HIDE DEF n, s, C
<1>0. Separator = 2
  BY DEF Separator
<1>4. s \in [1 .. n -> Message] /\ \A m \in S : m.at \in Nat
  BY <1>3 DEF Finite, Message
<1>5. /\ \A i \in 1 .. j : i \in 1 .. n
      /\ j < n => /\ j + 1 \in 0 .. n /\ j + 1 \in 1 .. n
                  /\ \A i \in 1 .. j + 1 : i \in 1 .. n
  BY <1>1
<1>6. Cardinality(Firsts(s, j)) = j /\ Finite(Firsts(s, j))
  BY <1>1, <1>3, <1>4, FirstsAdd
<1>7. C \in SUBSET S /\ (S # {} => C # {})
  <2>1. C \in SUBSET S
    BY <1>2, <1>3, <1>5 DEF Firsts
  <2>2. ASSUME j > 0 PROVE C # {}
    <3>1. 1 \in 1 .. j
      BY <1>1, <2>2
    <3>2. s[1] \in Firsts(s, j)
      BY <3>1 DEF Firsts
    <3> QED
      BY <1>2, <3>2
  <2> QED
    BY <1>2, <2>1, <2>2
<1>8. ASSUME NEW m \in C, NEW k \in S \ C PROVE k.at < m.at
  <2>1. PICK x \in 1 .. j : m = s[x]
    BY <1>2 DEF Firsts
  <2>2. PICK y \in 1 .. n : k = s[y]
    BY <1>3
  <2>3. y \notin 1 .. j
    BY <1>2, <2>2 DEF Firsts
  <2>4. x < y /\ x \in 1 .. n
    BY <1>1, <2>3
  <2> QED
    BY <1>3, <2>1, <2>2, <2>4
<1>9. FitsAsEnd(S, C)
  <2>1. Cardinality(C) <= Limit
    BY <1>2, <1>6
  <2>2. CASE j = 0
    <3>1. C = {}
      <4>1. Firsts(s, 0) = {}
        BY 1 .. 0 = {} DEF Firsts
      <4> QED
        BY <1>2, <2>2, <4>1
    <3> QED
      BY <1>1, <1>8, <2>1, <3>1, Joined DEF FitsAsEnd
  <2>3. CASE j > 0
    <3>1. JoinedLength(C) <= Budget
      BY <1>1, <1>2, <2>3, Joined
    <3> QED
      BY <1>8, <2>1, <3>1 DEF FitsAsEnd
  <2> QED
    BY <1>1, <2>2, <2>3
<1>10. ASSUME NEW T \in SUBSET S, FitsAsEnd(S, T), NEW t \in T, t \notin C PROVE FALSE
  <2>1. PICK y \in 1 .. n : t = s[y]
    BY <1>3
  <2>2. y \notin 1 .. j
    BY <1>2, <1>10, <2>1 DEF Firsts
  <2>3. j < n /\ j < y
    BY <1>1, <2>2
  <2>4. ASSUME NEW i \in 1 .. j + 1 PROVE s[i] \in T
    <3>1. i <= y /\ i \in 1 .. n
      BY <1>1, <2>3
    <3>2. CASE i = y
      BY <1>10, <2>1, <3>2
    <3>3. CASE i < y
      <4>1. t.at < s[i].at /\ s[i] \in S
        BY <1>3, <2>1, <3>1, <3>3
      <4>2. s[i] \notin T => s[i].at < t.at
        BY <1>10, <4>1 DEF FitsAsEnd
      <4> QED
        BY <1>4, <4>1, <4>2
    <3> QED
      BY <1>1, <3>1, <3>2, <3>3
  <2>5. Firsts(s, j + 1) \in SUBSET T
    BY <2>4 DEF Firsts
  <2>6. Finite(T) /\ Cardinality(T) \in Nat
    BY FiniteParts
  <2>7. Cardinality(Firsts(s, j + 1)) = j + 1
    <3>1. n \in Nat /\ j + 1 \in 0 .. n
      BY <1>1, <1>5, <2>3
    <3>2. \A x, z \in 1 .. n : x < z => s[z].at < s[x].at
      BY <1>3
    <3>3. s \in [1 .. n -> Message]
      BY <1>4
    <3> QED
      BY <3>1, <3>2, <3>3, FirstsAdd
  <2>8. Cardinality(Firsts(s, j + 1)) <= Cardinality(T)
    BY <2>5, <2>6, FS_Subset DEF Finite
  <2>9. j < Limit
    BY <1>1, <1>10, <2>6, <2>7, <2>8 DEF FitsAsEnd
  <2>10. Weight(Firsts(s, j + 1)) - Separator > Budget
    BY <1>2, <2>3, <2>9
  <2>11. /\ Weight(Firsts(s, j + 1)) <= Weight(T)
         /\ Weight(Firsts(s, j + 1)) \in Nat /\ Weight(T) \in Nat
    BY <2>5, <2>6, WeightGrows
  <2>14. T # {}
    BY <1>10
  <2>12. JoinedLength(T) = Weight(T) - Separator
    BY <1>10, <2>14, Joined
  <2>13. JoinedLength(T) <= Budget
    BY <1>10 DEF FitsAsEnd
  <2> QED
    BY <1>0, <1>1, <2>10, <2>11, <2>12, <2>13
<1> QED
  BY <1>7, <1>9, <1>10 DEF C

-----------------------------------------------------------------------------
(* What a run knows *)

\* The transaction r is in stamps what it stores.
Stamping(s) == s.pc \in {"open", "read", "answering"}

\* No two transactions have one time, so the transcript has one order.
StampInv ==
    /\ Finite(messages) /\ Stamped(messages)
    /\ \A r \in Reqs : Stamping(req[r]) => \A m \in messages : m.at # req[r].at
    /\ \A r, q \in Reqs :
         (Stamping(req[r]) /\ Stamping(req[q]) /\ req[r].at = req[q].at) => r = q

\* r's question is of time t.
AskedAt(r, t) ==
    \/ req[r].pc \in {"open", "read"} /\ t = req[r].at
    \/ \E q \in StoredQuestions : q.by = r /\ t = q.at

\* Over without an answer: what it had read is gone.
Lost(r) == req[r].pc = "over" /\ \A a \in StoredAnswers : a.by # r

Knows(r, m) ==
    \/ m \in req[r].context
    \/ req[r].context # {} /\ \A n \in req[r].context : m.at < n.at
    \/ Together(m.by, r)

\* Whoever is under way with an older time than a question has met it.
LateIsMet ==
    \A r, p \in Reqs : \A t \in Nat :
        (AskedAt(r, t) /\ req[p].pc \notin {"unsent", "over"} /\ req[p].at < t) => Together(p, r)

KnowledgeInv ==
    /\ \A r \in Reqs : req[r].context \subseteq Message
    /\ \A r \in Reqs : req[r].pc = "created" => req[r].creator
    /\ LateIsMet
    /\ \A r \in Reqs : req[r].pc = "read" =>
         \A m \in messages : m.at < req[r].at => Knows(r, m)
    /\ \A q \in StoredQuestions : ~Lost(q.by) =>
         \A m \in messages : m.at < q.at => Knows(q.by, m)

\* What is stored now is of r, which stores what it has stamped.
Stores(r, m) ==
    /\ req[r].pc \in {"read", "answering"} /\ ~Stamping(req'[r])
    /\ m \in Message /\ m.by = r /\ m.at = req[r].at
    /\ req[r].pc = "read" <=> m.role = "user"

\* A time is stamped once: with what the clock shows, or on what is stored.
LEMMA StampsStay ==
    ASSUME TranscriptInv, StampInv, NEW r \in Reqs,
           \/ messages' = messages \/ messages' = {}
           \/ \E m : messages' = messages \cup {m} /\ Stores(r, m),
           \A p \in Reqs : Stamping(req'[p]) =>
              \/ Stamping(req[p]) /\ req'[p].at = req[p].at
              \/ p = r /\ req'[p].at = now
    PROVE  StampInv'
<1>1. /\ \A m \in messages : m.at < now /\ m.at \in Nat
      /\ \A p \in Reqs : Stamping(req[p]) => req[p].at < now
      /\ now \in Nat /\ \A p \in Reqs : req[p].at \in Nat
  BY MessageType DEF TranscriptInv, PastOnly, Stamping
<1>2. /\ Finite(messages) /\ Stamped(messages)
      /\ \A p \in Reqs : Stamping(req[p]) => \A m \in messages : m.at # req[p].at
      /\ \A p, q \in Reqs :
           (Stamping(req[p]) /\ Stamping(req[q]) /\ req[p].at = req[q].at) => p = q
  BY DEF StampInv
<1>3. \A p, q \in Reqs :
         (Stamping(req'[p]) /\ Stamping(req'[q]) /\ req'[p].at = req'[q].at) => p = q
  BY <1>1, <1>2
<1>4. CASE messages' = messages \/ messages' = {}
  <2>1. Finite(messages') /\ Stamped(messages')
    BY <1>2, <1>4, FS_EmptySet DEF Finite, Stamped
  <2>2. \A p \in Reqs : Stamping(req'[p]) => \A m \in messages' : m.at # req'[p].at
    BY <1>1, <1>2, <1>4
  <2> QED
    BY <1>3, <2>1, <2>2 DEF StampInv
<1>5. CASE \E m : messages' = messages \cup {m} /\ Stores(r, m)
  <2>1. PICK m : messages' = messages \cup {m} /\ Stores(r, m)
    BY <1>5
  <2>2. /\ m \in Message /\ m.at = req[r].at /\ Stamping(req[r]) /\ ~Stamping(req'[r])
    BY <2>1 DEF Stores, Stamping
  <2>3. Finite(messages')
    BY <1>2, <2>1, <2>2, FS_AddElement DEF Finite
  <2>4. Stamped(messages')
    BY <1>2, <2>1, <2>2 DEF Stamped
  <2>5. \A p \in Reqs : Stamping(req'[p]) => \A n \in messages' : n.at # req'[p].at
    BY <1>1, <1>2, <2>1, <2>2
  <2> QED
    BY <1>3, <2>3, <2>4, <2>5 DEF StampInv
<1> QED
  BY <1>4, <1>5

\* Takes on a question as it is, or stamps its answer.
Quiet(p) ==
    /\ req'[p].met = req[p].met /\ req'[p].context = req[p].context
    /\ req'[p].creator = req[p].creator
    /\ req'[p].at = req[p].at \/ (req'[p].pc = "answering" /\ req'[p].at = now)
    /\ req'[p].pc \in {"created", "unsent", "open", "read"} => req'[p].pc = req[p].pc /\ req'[p].at = req[p].at
    /\ req'[p].pc # "over" => req[p].pc # "over" /\ (req'[p].pc # "unsent" => req[p].pc # "unsent")
    /\ req[p].pc = "over" => req'[p].pc = "over"

\* Is over, and has nothing to show for it.
EndsLost(p) ==
    /\ req'[p].met = req[p].met /\ req'[p].pc = "over" /\ req'[p].context = {}
    /\ \A a \in StoredAnswers' : a.by # p

\* Storing and ending take nothing from what the others know: what is stored now
\* and is older than a question is of a request that has met it.
LEMMA KnowledgeKept ==
    ASSUME TranscriptInv, KnowledgeInv, NEW r \in Reqs,
           \/ messages' = messages \/ messages' = {}
           \/ \E m : messages' = messages \cup {m} /\ Stores(r, m),
           \A p \in Reqs : Quiet(p) \/ EndsLost(p)
    PROVE  KnowledgeInv'
<1>1. /\ \A m \in messages : m.at < now /\ m.at \in Nat /\ m.by \in Reqs
      /\ \A p \in Reqs : req[p].pc # "created" => req[p].at < now
      /\ now \in Nat /\ \A p \in Reqs : req[p].at \in Nat
  BY MessageType DEF TranscriptInv, PastOnly
<1>2. \A p \in Reqs : req'[p].met = req[p].met
  BY DEF Quiet, EndsLost
<1>3. \A p, q \in Reqs : Together(p, q)' <=> Together(p, q)
  BY <1>2 DEF Together
<1>4. \A m \in messages' : m \in messages \/ (Stores(r, m) /\ messages' = messages \cup {m})
  OBVIOUS
<1>5. \A m \in messages' : m.at \in Nat /\ m.by \in Reqs
  BY <1>1, <1>4 DEF Stores
<1>6. \A p \in Reqs : req'[p].pc = "created" => req'[p].creator
  BY DEF KnowledgeInv, Quiet, EndsLost
<1>7. \A p \in Reqs : \A t \in Nat : AskedAt(p, t)' => AskedAt(p, t) /\ t < now
  <2> SUFFICES ASSUME NEW p \in Reqs, NEW t \in Nat, AskedAt(p, t)' PROVE AskedAt(p, t) /\ t < now
    OBVIOUS
  <2>1. CASE req'[p].pc \in {"open", "read"} /\ t = req'[p].at
    BY <1>1, <2>1 DEF AskedAt, Quiet, EndsLost
  <2>2. CASE \E q \in StoredQuestions' : q.by = p /\ t = q.at
    <3>1. PICK q \in messages' : q.role = "user" /\ q.by = p /\ t = q.at
      BY <2>2 DEF StoredQuestions
    <3>2. CASE q \in messages
      BY <1>1, <3>1, <3>2 DEF AskedAt, StoredQuestions
    <3>3. CASE Stores(r, q)
      BY <1>1, <3>1, <3>3 DEF AskedAt, Stores
    <3> QED
      BY <1>4, <3>1, <3>2, <3>3
  <2> QED
    BY <2>1, <2>2 DEF AskedAt
<1>8. LateIsMet'
  <2> SUFFICES ASSUME NEW q \in Reqs, NEW p \in Reqs, NEW t \in Nat, AskedAt(q, t)',
                      req'[p].pc \notin {"unsent", "over"}, req'[p].at < t
               PROVE  Together(p, q)'
    BY DEF LateIsMet
  <2>1. AskedAt(q, t) /\ t < now
    BY <1>7
  <2>2. req[p].pc \notin {"unsent", "over"} /\ req[p].at < t
    BY <1>1, <2>1 DEF Quiet, EndsLost
  <2>3. Together(p, q)
    BY <2>1, <2>2 DEF KnowledgeInv, LateIsMet
  <2> QED
    BY <1>3, <2>3
\* What is stored now by another has met the question, or is later.
<1>9. ASSUME NEW q \in Reqs, NEW t \in Nat, AskedAt(q, t), NEW m, Stores(r, m), m.at < t
      PROVE  Together(m.by, q)
  BY <1>9 DEF KnowledgeInv, LateIsMet, Stores
<1>10. ASSUME NEW q \in Reqs, Quiet(q), NEW m \in messages, Knows(q, m) PROVE Knows(q, m)'
  BY <1>1, <1>3, <1>10 DEF Knows, Quiet
<1>11. ASSUME NEW q \in Reqs, NEW m, m.by \in Reqs, Together(m.by, q) PROVE Knows(q, m)'
  BY <1>3, <1>11 DEF Knows
<1>12. ASSUME NEW q \in Reqs, req'[q].pc = "read", NEW m \in messages', m.at < req'[q].at
       PROVE  Knows(q, m)'
  <2>1. Quiet(q) /\ req[q].pc = "read" /\ req'[q].at = req[q].at /\ req[q].at \in Nat
    BY <1>1, <1>12 DEF Quiet, EndsLost
  <2>2. CASE m \in messages
    BY <1>10, <1>12, <2>1, <2>2 DEF KnowledgeInv
  <2>3. CASE Stores(r, m)
    <3>1. AskedAt(q, req[q].at)
      BY <2>1 DEF AskedAt
    <3>2. Together(m.by, q)
      BY <1>9, <1>12, <2>1, <2>3, <3>1
    <3> QED
      BY <1>5, <1>11, <3>2
  <2> QED
    BY <1>4, <2>2, <2>3
<1>13. ASSUME NEW q \in StoredQuestions', ~Lost(q.by)', NEW m \in messages', m.at < q.at
       PROVE  Knows(q.by, m)'
  <2>1. q \in messages' /\ q.role = "user" /\ q.by \in Reqs /\ q.at \in Nat /\ m.by \in Reqs /\ m.at \in Nat
    BY <1>5 DEF StoredQuestions
  <2>2. Quiet(q.by) /\ ~Lost(q.by)
    <3>1. Quiet(q.by)
      BY <1>13, <2>1 DEF EndsLost, Lost
    <3>2. ASSUME Lost(q.by) PROVE FALSE
      <4>1. req[q.by].pc = "over" /\ req'[q.by].pc = "over"
        BY <3>1, <3>2 DEF Lost, Quiet
      <4>2. PICK a \in messages' : a.role = "assistant" /\ a.by = q.by
        BY <1>13, <4>1 DEF Lost, StoredAnswers
      <4>3. a \notin messages
        BY <3>2, <4>2 DEF Lost, StoredAnswers
      <4>4. Stores(r, a)
        BY <1>4, <4>2, <4>3
      <4> QED
        BY <4>1, <4>2, <4>4 DEF Stores
    <3> QED
      BY <3>1, <3>2
  <2>3. CASE q \in messages /\ m \in messages
    <3>1. Knows(q.by, m)
      BY <1>13, <2>1, <2>2, <2>3 DEF KnowledgeInv, StoredQuestions
    <3> QED
      BY <1>10, <2>1, <2>2, <2>3, <3>1
  <2>4. CASE q \in messages /\ Stores(r, m)
    <3>1. AskedAt(q.by, q.at)
      BY <2>1, <2>4 DEF AskedAt, StoredQuestions
    <3>2. Together(m.by, q.by)
      BY <1>9, <1>13, <2>1, <2>4, <3>1
    <3> QED
      BY <1>11, <2>1, <3>2
  <2>5. CASE q \notin messages
    <3>1. Stores(r, q) /\ messages' = messages \cup {q}
      BY <1>4, <2>1, <2>5
    <3>2. req[r].pc = "read" /\ q.by = r /\ q.at = req[r].at
      BY <2>1, <3>1 DEF Stores
    <3>3. m \in messages
      BY <1>13, <2>1, <3>1
    <3>4. Knows(q.by, m)
      BY <1>13, <3>2, <3>3 DEF KnowledgeInv
    <3> QED
      BY <1>10, <2>1, <2>2, <3>3, <3>4
  <2> QED
    BY <1>4, <2>1, <2>3, <2>4, <2>5
<1>14. \A p \in Reqs : req'[p].context \subseteq Message
  BY DEF KnowledgeInv, Quiet, EndsLost
<1> QED
  BY <1>6, <1>8, <1>12, <1>13, <1>14 DEF KnowledgeInv

\* Who fails has not answered.
LEMMA NoAnswerYet ==
    ASSUME TranscriptInv, NEW r \in Reqs, req[r].pc # "over", messages' = messages,
           req'[r] = Over(r)
    PROVE  EndsLost(r) /\ ~Stamping(req'[r])
<1>1. Over(r).pc = "over" /\ Over(r).met = req[r].met /\ Over(r).context = {}
  <2>1. Over(r).context = {}
    BY DEF Over, NewRequest
  <2> QED
    BY <2>1, OverType
<1> HIDE DEF Over
<1>2. \A a \in StoredAnswers' : a.by # r
  BY DEF TranscriptInv, AnswersInOrder, StoredAnswers
<1> QED
  BY <1>1, <1>2 DEF EndsLost, Stamping

\* The steps after a context is read.
LEMMA QuietSteps ==
    ASSUME TranscriptInv, NEW r \in Reqs,
           \/ StoreQuestion(r) \/ Admit(r) \/ PauseForReview(r) \/ ResumeReview(r)
           \/ BeginAnswer(r) \/ StoreAnswer(r) \/ Fail(r)
    PROVE  /\ messages' = messages \/ \E m : messages' = messages \cup {m} /\ Stores(r, m)
           /\ \A p \in Reqs : Quiet(p) \/ EndsLost(p)
           /\ \A p \in Reqs : Stamping(req'[p]) =>
                 \/ Stamping(req[p]) /\ req'[p].at = req[p].at
                 \/ p = r /\ req'[p].at = now
<1>1. req \in [Reqs -> Held] /\ req[r] \in Held /\ req[r].at \in Nat
  BY MessageType
<1>2. ASSUME NEW p \in Reqs, req'[p] = req[p] PROVE Quiet(p) /\ (Stamping(req'[p]) => Stamping(req[p]))
  BY <1>2 DEF Quiet
<1>3. CASE PauseForReview(r) \/ ResumeReview(r)
  <2> DEFINE pc == IF req[r].pc = "running" THEN "paused" ELSE "running"
             new == [req[r] EXCEPT !.pc = pc]
  <2>1. req' = [req EXCEPT ![r] = new] /\ req[r].pc \in {"running", "paused"} /\ messages' = messages
    BY <1>3 DEF PauseForReview, ResumeReview, Goes
  <2>2. /\ new.pc \in {"running", "paused"} /\ new.at = req[r].at /\ new.met = req[r].met
        /\ new.context = req[r].context /\ new.creator = req[r].creator
    BY <1>1 DEF Held
  <2> HIDE DEF new
  <2>3. req'[r] = new /\ \A p \in Reqs \ {r} : req'[p] = req[p]
    BY <1>1, <2>1
  <2>4. Quiet(r) /\ ~Stamping(req'[r])
    BY <2>1, <2>2, <2>3 DEF Quiet, Stamping
  <2> QED
    BY <1>2, <2>1, <2>3, <2>4
<1>4. CASE BeginAnswer(r)
  <2> DEFINE new == [req[r] EXCEPT !.pc = "answering", !.at = now]
  <2>1. req' = [req EXCEPT ![r] = new] /\ req[r].pc = "running" /\ messages' = messages
    BY <1>4 DEF BeginAnswer
  <2>2. /\ new.pc = "answering" /\ new.at = now /\ new.met = req[r].met
        /\ new.context = req[r].context /\ new.creator = req[r].creator
    BY <1>1 DEF Held
  <2> HIDE DEF new
  <2>3. req'[r] = new /\ \A p \in Reqs \ {r} : req'[p] = req[p]
    BY <1>1, <2>1
  <2>4. Quiet(r) /\ req'[r].at = now
    BY <2>1, <2>2, <2>3 DEF Quiet
  <2> QED
    BY <1>2, <2>1, <2>3, <2>4
<1>5. ASSUME Fails(r), req[r].pc # "over", messages' = messages
      PROVE  /\ \A p \in Reqs : Quiet(p) \/ EndsLost(p)
             /\ \A p \in Reqs : Stamping(req'[p]) => Stamping(req[p]) /\ req'[p].at = req[p].at
  <2>1. req'[r] = Over(r) /\ \A p \in Reqs \ {r} : req'[p] = req[p]
    BY <1>1, <1>5 DEF Fails
  <2>2. EndsLost(r) /\ ~Stamping(req'[r])
    BY <1>5, <2>1, NoAnswerYet
  <2> QED
    BY <1>2, <2>1, <2>2
<1>6. CASE Fail(r)
  <2>1. Fails(r) /\ req[r].pc # "over" /\ messages' = messages
    BY <1>6 DEF Fail, InFlight
  <2> QED
    BY <1>5, <2>1
<1>7. CASE Admit(r)
  <2> DEFINE new == [req[r] EXCEPT !.pc = "running", !.answered = Answered]
  <2>1. req[r].pc = "stored" /\ messages' = messages
    BY <1>7 DEF Admit
  <2>2. \A q \in Reqs : req'[q] = IF q = r THEN new
                                 ELSE IF q \in Superseded(r) THEN Over(q) ELSE req[q]
    BY <1>7 DEF Admit
  <2>3. /\ new.pc = "running" /\ new.at = req[r].at /\ new.met = req[r].met
        /\ new.context = req[r].context /\ new.creator = req[r].creator
    BY <1>1 DEF Held
  <2> HIDE DEF new, Over
  <2>4. req'[r] = new
    BY <2>2
  <2>5. Quiet(r) /\ ~Stamping(req'[r])
    BY <2>1, <2>3, <2>4 DEF Quiet, Stamping
  <2>6. ASSUME NEW q \in Reqs \ {r}
        PROVE  /\ Quiet(q) \/ EndsLost(q)
               /\ Stamping(req'[q]) => Stamping(req[q]) /\ req'[q].at = req[q].at
    <3>1. CASE q \in Superseded(r)
      <4>1. req'[q] = Over(q) /\ req[q].pc # "over"
        BY <2>2, <3>1 DEF Superseded
      <4> QED
        BY <2>1, <4>1, NoAnswerYet
    <3>2. CASE q \notin Superseded(r)
      <4>1. req'[q] = req[q]
        BY <2>2, <3>2
      <4> QED
        BY <1>2, <4>1
    <3> QED
      BY <3>1, <3>2
  <2> QED
    BY <2>1, <2>5, <2>6
<1>8. CASE StoreQuestion(r) \/ StoreAnswer(r)
  <2>1. req[r].pc \in {"read", "answering"}
    BY <1>8 DEF StoreQuestion, StoreAnswer
  <2>2. CASE convo # "there"
    <3>1. Fails(r) /\ messages' = messages
      BY <1>8, <2>2 DEF StoreQuestion, StoreAnswer
    <3> QED
      BY <1>5, <2>1, <3>1
  <2>3. CASE convo = "there"
    <3> DEFINE pc == IF req[r].pc = "read" THEN "stored" ELSE "over"
               role == IF req[r].pc = "read" THEN "user" ELSE "assistant"
               new == [req[r] EXCEPT !.pc = pc]
               m(l) == [by |-> r, role |-> role, at |-> Created(req[r].at), length |-> l]
    <3>1. req' = [req EXCEPT ![r] = new] /\ \E l \in Lengths : messages' = messages \cup {m(l)}
      BY <1>8, <2>3 DEF StoreQuestion, StoreAnswer, Goes, Ends
    <3>2. PICK l \in Lengths : messages' = messages \cup {m(l)}
      BY <3>1
    <3>3. /\ m(l) \in Message /\ m(l).by = r /\ m(l).at = req[r].at
          /\ req[r].pc = "read" <=> m(l).role = "user"
      BY <1>1 DEF Message, Created
    <3>4. /\ new.pc \in {"stored", "over"} /\ new.at = req[r].at /\ new.met = req[r].met
          /\ new.context = req[r].context /\ new.creator = req[r].creator
      BY <1>1 DEF Held
    <3> HIDE DEF new, m
    <3>5. req'[r] = new /\ \A p \in Reqs \ {r} : req'[p] = req[p]
      BY <1>1, <3>1
    <3>6. Quiet(r) /\ ~Stamping(req'[r])
      BY <2>1, <3>4, <3>5 DEF Quiet, Stamping
    <3>7. Stores(r, m(l))
      BY <2>1, <3>3, <3>6 DEF Stores
    <3> QED
      BY <1>2, <3>2, <3>5, <3>6, <3>7
  <2> QED
    BY <2>2, <2>3
<1> QED
  BY <1>3, <1>4, <1>6, <1>7, <1>8

\* A question is sent, or its transaction begins, or reads.
LEMMA Beginnings ==
    ASSUME TranscriptInv, NEW r \in Reqs,
           AskInNew(r) \/ BeginQuestion(r) \/ AskInOpen(r) \/ ReadContext(r)
    PROVE  /\ messages' = messages /\ \A p \in Reqs \ {r} : req'[p] = req[p]
           /\ AskInNew(r) \/ AskInOpen(r) =>
                /\ req[r].pc = "unsent" /\ req'[r].at = now /\ req'[r].met = InFlight
                /\ req'[r].context = {}
                /\ \/ req'[r].pc = "created" /\ req'[r].creator
                   \/ req'[r].pc = "open"
           /\ BeginQuestion(r) =>
                /\ req[r].pc = "created" /\ req'[r].pc = "read" /\ req'[r].at = now
                /\ req'[r].met = req[r].met /\ req'[r].context = req[r].context
           /\ ReadContext(r) =>
                /\ req[r].pc = "open" /\ req'[r].pc = "read" /\ req'[r].at = req[r].at
                /\ req'[r].met = req[r].met
                /\ req'[r].context = GetConversationContext(messages)
<1>1. req \in [Reqs -> Held] /\ req[r] \in Held
  BY MessageType
<1>2. messages' = messages /\ \A p \in Reqs \ {r} : req'[p] = req[p]
  BY <1>1 DEF AskInNew, AskInOpen, Sends, BeginQuestion, ReadContext
<1>3. ASSUME NEW pc, NEW creator, Sends(r, pc, creator)
      PROVE  /\ req[r].pc = "unsent" /\ req'[r].at = now /\ req'[r].met = InFlight
             /\ req'[r].context = {}
             /\ req'[r].pc = pc /\ req'[r].creator = creator
  <2>1. req'[r] = [NewRequest EXCEPT !.pc = pc, !.creator = creator, !.at = now, !.met = InFlight]
    BY <1>1, <1>3 DEF Sends
  <2>2. NewRequest \in Held /\ req[r].pc = "unsent"
    BY <1>3, NewRequestType DEF Sends
  <2>3. NewRequest.context = {}
    BY DEF NewRequest
  <2> HIDE DEF NewRequest
  <2> QED
    BY <2>1, <2>2, <2>3 DEF Held
<1>4. ASSUME AskInNew(r) \/ AskInOpen(r)
      PROVE  /\ req[r].pc = "unsent" /\ req'[r].at = now /\ req'[r].met = InFlight
             /\ req'[r].context = {}
             /\ \/ req'[r].pc = "created" /\ req'[r].creator
                \/ req'[r].pc = "open"
  <2>1. Sends(r, "created", TRUE) \/ Sends(r, "open", FALSE)
    BY <1>4 DEF AskInNew, AskInOpen
  <2> HIDE DEF Sends
  <2> QED
    BY <1>3, <2>1
<1>5. ASSUME BeginQuestion(r)
      PROVE  /\ req[r].pc = "created" /\ req'[r].pc = "read" /\ req'[r].at = now
             /\ req'[r].met = req[r].met /\ req'[r].context = req[r].context
  BY <1>1, <1>5 DEF BeginQuestion, Held
<1>6. ASSUME ReadContext(r)
      PROVE  /\ req[r].pc = "open" /\ req'[r].pc = "read" /\ req'[r].at = req[r].at
             /\ req'[r].met = req[r].met
             /\ req'[r].context = GetConversationContext(messages)
  BY <1>1, <1>6 DEF ReadContext, Held
<1> QED
  BY <1>2, <1>4, <1>5, <1>6

\* The steps before: a creator knows nothing and was met by everybody else, the
\* others have the end of the transcript.
LEMMA KnowledgeBegins ==
    ASSUME TranscriptInv, TitleInv, StampInv, KnowledgeInv, NEW r \in Reqs,
           AskInNew(r) \/ BeginQuestion(r) \/ AskInOpen(r) \/ ReadContext(r)
    PROVE  KnowledgeInv'
<1>1. /\ messages' = messages /\ \A p \in Reqs \ {r} : req'[p] = req[p]
      /\ StoredQuestions' = StoredQuestions /\ StoredAnswers' = StoredAnswers
  BY Beginnings DEF StoredQuestions, StoredAnswers
<1>2. /\ \A m \in messages : m.by \in Reqs /\ m.at \in Nat /\ m.at < now /\ req[m.by].pc # "unsent"
      /\ now \in Nat /\ \A q \in StoredQuestions : q \in messages
  BY MessageType DEF TranscriptInv, PastOnly, TitleInv, NothingAround, StoredQuestions
<1>3. /\ \A p \in Reqs \ {r}, t \in Nat : AskedAt(p, t)' => AskedAt(p, t) /\ t < now
      /\ \A p \in Reqs \ {r} : Lost(p)' <=> Lost(p)
  <2>1. \A p \in Reqs : req[p].pc # "created" => req[p].at < now
    BY DEF TranscriptInv, PastOnly
  <2> QED
    BY <1>1, <1>2, <2>1 DEF AskedAt, Lost
<1>4. /\ \A p \in Reqs : req[p].context \subseteq Message
      /\ \A p \in Reqs : req[p].pc = "created" => req[p].creator
      /\ LateIsMet
      /\ \A p \in Reqs : req[p].pc = "read" =>
           \A m \in messages : m.at < req[p].at => Knows(p, m)
      /\ \A q \in StoredQuestions : ~Lost(q.by) =>
           \A m \in messages : m.at < q.at => Knows(q.by, m)
  BY DEF KnowledgeInv
<1>5. ASSUME AskInNew(r) \/ AskInOpen(r) PROVE KnowledgeInv'
  <2>1. /\ req[r].pc = "unsent" /\ req'[r].at = now /\ req'[r].met = InFlight
        /\ req'[r].context = {}
        /\ \/ req'[r].pc = "created" /\ req'[r].creator
           \/ req'[r].pc = "open"
    BY <1>5, Beginnings
  <2>2. \A m \in messages : m.by # r
    BY <1>2, <2>1
  <2>3. \A p, q \in Reqs \ {r} : Together(p, q)' <=> Together(p, q)
    BY <1>1 DEF Together
  <2>4. \A q \in Reqs \ {r}, m \in messages : Knows(q, m)' <=> Knows(q, m)
    BY <1>1, <1>2, <2>2, <2>3 DEF Knows
  <2>5. LateIsMet'
    <3> SUFFICES ASSUME NEW q \in Reqs, NEW p \in Reqs, NEW t \in Nat, AskedAt(q, t)',
                        req'[p].pc \notin {"unsent", "over"}, req'[p].at < t, p # q
                 PROVE  Together(p, q)'
      BY DEF LateIsMet, Together
    <3>1. CASE q = r
      <4>1. p \in InFlight
        BY <1>1, <3>1 DEF InFlight
      <4> QED
        BY <2>1, <3>1, <4>1 DEF Together
    <3>2. CASE q # r /\ p = r
      BY <1>2, <1>3, <2>1, <3>2
    <3>3. CASE q # r /\ p # r
      BY <1>1, <1>3, <1>4, <2>3, <3>3 DEF LateIsMet
    <3> QED
      BY <3>1, <3>2, <3>3
  <2>6. \A p \in Reqs : req'[p].pc = "created" => req'[p].creator
    BY <1>1, <1>4, <2>1
  <2>7. \A p \in Reqs : req'[p].pc = "read" =>
          \A m \in messages' : m.at < req'[p].at => Knows(p, m)'
    BY <1>1, <1>4, <2>1, <2>4
  <2>8. \A q \in StoredQuestions' : ~Lost(q.by)' =>
          \A m \in messages' : m.at < q.at => Knows(q.by, m)'
    BY <1>1, <1>2, <1>3, <1>4, <2>2, <2>4
  <2>9. \A p \in Reqs : req'[p].context \subseteq Message
    BY <1>1, <1>4, <2>1
  <2> QED
    BY <2>5, <2>6, <2>7, <2>8, <2>9 DEF KnowledgeInv
<1>6. ASSUME BeginQuestion(r) PROVE KnowledgeInv'
  <2>1. /\ req[r].pc = "created" /\ req'[r].pc = "read" /\ req'[r].at = now
        /\ req'[r].met = req[r].met /\ req'[r].context = req[r].context
    BY <1>6, Beginnings
  <2>2. \A p \in Reqs \ {r} : req[p].pc = "unsent" \/ r \in req[p].met
    BY <1>4, <2>1 DEF TitleInv, CreatorIsMet, Creates
  <2>3. \A p, q \in Reqs : Together(p, q)' <=> Together(p, q)
    BY <1>1, <2>1 DEF Together
  <2>4. \A q \in Reqs, m \in messages : Knows(q, m)' <=> Knows(q, m)
    BY <1>1, <1>2, <2>1, <2>3 DEF Knows
  <2>5. LateIsMet'
    <3> SUFFICES ASSUME NEW q \in Reqs, NEW p \in Reqs, NEW t \in Nat, AskedAt(q, t)',
                        req'[p].pc \notin {"unsent", "over"}, req'[p].at < t, p # q
                 PROVE  Together(p, q)'
      BY DEF LateIsMet, Together
    <3>1. CASE q = r
      BY <1>1, <2>2, <2>3, <3>1 DEF Together
    <3>2. CASE q # r /\ p = r
      BY <1>2, <1>3, <2>1, <3>2
    <3>3. CASE q # r /\ p # r
      BY <1>1, <1>3, <1>4, <2>3, <3>3 DEF LateIsMet
    <3> QED
      BY <3>1, <3>2, <3>3
  <2>6. \A p \in Reqs : req'[p].pc = "created" => req'[p].creator
    BY <1>1, <1>4, <2>1
  <2>7. ASSUME NEW p \in Reqs, req'[p].pc = "read", NEW m \in messages', m.at < req'[p].at
        PROVE  Knows(p, m)'
    <3>1. CASE p = r
      BY <1>1, <1>2, <2>2, <2>4, <3>1 DEF Knows, Together
    <3>2. CASE p # r
      BY <1>1, <1>4, <2>4, <2>7, <3>2
    <3> QED
      BY <3>1, <3>2
  <2>8. \A q \in StoredQuestions' : ~Lost(q.by)' =>
          \A m \in messages' : m.at < q.at => Knows(q.by, m)'
    <3>1. ~Lost(r) /\ ~Lost(r)'
      BY <2>1 DEF Lost
    <3> QED
      BY <1>1, <1>2, <1>3, <1>4, <2>4, <3>1
  <2>9. \A p \in Reqs : req'[p].context \subseteq Message
    BY <1>1, <1>4, <2>1
  <2> QED
    BY <2>5, <2>6, <2>7, <2>8, <2>9 DEF KnowledgeInv
<1>7. ASSUME ReadContext(r) PROVE KnowledgeInv'
  <2>1. /\ req[r].pc = "open" /\ req'[r].pc = "read" /\ req'[r].at = req[r].at
        /\ req'[r].met = req[r].met /\ req'[r].context = GetConversationContext(messages)
    BY <1>7, Beginnings
  <2>2. ASSUME NEW m \in messages PROVE Knows(r, m)'
    <3> DEFINE C == GetConversationContext(messages)
    <3>1. Finite(messages) /\ Stamped(messages)
      BY DEF StampInv
    <3>2. C \in SUBSET messages /\ C # {} /\ FitsAsEnd(messages, C)
      BY <3>1, ContextFits
    <3>3. m \in C \/ \A n \in C : m.at < n.at
      BY <3>2 DEF FitsAsEnd
    <3> HIDE DEF C
    <3>4. req'[r].context = C
      BY <2>1 DEF C
    <3> QED
      BY <3>2, <3>3, <3>4 DEF Knows
  <2>3. \A p, q \in Reqs : Together(p, q)' <=> Together(p, q)
    BY <1>1, <2>1 DEF Together
  <2>4. \A q \in Reqs \ {r}, m \in messages : Knows(q, m)' <=> Knows(q, m)
    BY <1>1, <1>2, <2>3 DEF Knows
  <2>5. LateIsMet'
    <3>1. \A q \in Reqs, t \in Nat : AskedAt(q, t)' => AskedAt(q, t)
      BY <1>1, <2>1 DEF AskedAt
    <3>2. \A p \in Reqs : /\ req'[p].at = req[p].at
                          /\ req'[p].pc \notin {"unsent", "over"} <=> req[p].pc \notin {"unsent", "over"}
      BY <1>1, <2>1
    <3> QED
      BY <1>4, <2>3, <3>1, <3>2 DEF LateIsMet
  <2>6. \A p \in Reqs : req'[p].pc = "created" => req'[p].creator
    BY <1>1, <1>4, <2>1
  <2>7. \A p \in Reqs : req'[p].pc = "read" =>
          \A m \in messages' : m.at < req'[p].at => Knows(p, m)'
    BY <1>1, <1>4, <2>1, <2>2, <2>4
  <2>8. \A q \in StoredQuestions' : ~Lost(q.by)' =>
          \A m \in messages' : m.at < q.at => Knows(q.by, m)'
    BY <1>1, <1>2, <1>3, <1>4, <2>2, <2>4
  <2>9. \A p \in Reqs : req'[p].context \subseteq Message
    <3>1. GetConversationContext(messages) \in SUBSET messages /\ messages \subseteq Message
      BY ContextFits DEF StampInv, Finite
    <3>2. req'[r].context \subseteq Message
      BY <2>1, <3>1
    <3> QED
      BY <1>1, <1>4, <3>2
  <2> QED
    BY <2>5, <2>6, <2>7, <2>8, <2>9 DEF KnowledgeInv
<1> QED
  BY <1>5, <1>6, <1>7

LEMMA StampsNext ==
    ASSUME TranscriptInv, StampInv, [Next]_convoVars
    PROVE  StampInv'
<1>1. ASSUME NEW r \in Reqs,
             AskInNew(r) \/ BeginQuestion(r) \/ AskInOpen(r) \/ ReadContext(r)
      PROVE  StampInv'
  <2>1. /\ messages' = messages /\ \A p \in Reqs \ {r} : req'[p] = req[p]
        /\ AskInNew(r) \/ AskInOpen(r) \/ BeginQuestion(r) => req'[r].at = now
        /\ ReadContext(r) => req[r].pc = "open" /\ req'[r].at = req[r].at
    BY <1>1, Beginnings
  <2>2. \A p \in Reqs : Stamping(req'[p]) =>
              \/ Stamping(req[p]) /\ req'[p].at = req[p].at
              \/ p = r /\ req'[p].at = now
    BY <1>1, <2>1 DEF Stamping
  <2> QED
    BY <2>1, <2>2, StampsStay
<1>2. ASSUME NEW r \in Reqs,
             \/ StoreQuestion(r) \/ Admit(r) \/ PauseForReview(r) \/ ResumeReview(r)
             \/ BeginAnswer(r) \/ StoreAnswer(r) \/ Fail(r)
      PROVE  StampInv'
  BY <1>2, QuietSteps, StampsStay
<1>3. CASE RenameConvo \/ DeleteConvo \/ UNCHANGED convoVars
  <2>1. (messages' = messages \/ messages' = {}) /\ req' = req
    BY <1>3 DEF RenameConvo, DeleteConvo, convoVars
  <2>2. CASE Reqs = {}
    BY <2>1, <2>2, FS_EmptySet DEF StampInv, Finite, Stamped
  <2>3. ASSUME NEW r \in Reqs PROVE StampInv'
    BY <2>1, StampsStay
  <2> QED
    BY <2>2, <2>3
<1> QED
  BY <1>1, <1>2, <1>3 DEF Next

LEMMA KnowledgeNext ==
    ASSUME TranscriptInv, TitleInv, StampInv, KnowledgeInv, [Next]_convoVars
    PROVE  KnowledgeInv'
<1>1. ASSUME NEW r \in Reqs,
             AskInNew(r) \/ BeginQuestion(r) \/ AskInOpen(r) \/ ReadContext(r)
      PROVE  KnowledgeInv'
  BY <1>1, KnowledgeBegins
<1>2. ASSUME NEW r \in Reqs,
             \/ StoreQuestion(r) \/ Admit(r) \/ PauseForReview(r) \/ ResumeReview(r)
             \/ BeginAnswer(r) \/ StoreAnswer(r) \/ Fail(r)
      PROVE  KnowledgeInv'
  BY <1>2, QuietSteps, KnowledgeKept
<1>3. CASE RenameConvo \/ DeleteConvo \/ UNCHANGED convoVars
  <2>1. (messages' = messages \/ messages' = {}) /\ req' = req
    BY <1>3 DEF RenameConvo, DeleteConvo, convoVars
  <2>2. \A p \in Reqs : Quiet(p)
    BY <2>1 DEF Quiet
  <2>3. CASE Reqs = {}
    <3>1. messages' = {} /\ StoredQuestions' = {}
      BY <2>1, <2>3 DEF TranscriptInv, HeldTypeOK, Message, StoredQuestions
    <3> QED
      BY <2>3, <3>1 DEF KnowledgeInv, LateIsMet
  <2>4. ASSUME NEW r \in Reqs PROVE KnowledgeInv'
    BY <2>1, <2>2, KnowledgeKept
  <2> QED
    BY <2>3, <2>4
<1> QED
  BY <1>1, <1>2, <1>3 DEF Next

LEMMA KnowledgeInductive == Spec => [](StampInv /\ KnowledgeInv)
<1>1. Init => StampInv /\ KnowledgeInv
  <2> SUFFICES ASSUME Init PROVE StampInv /\ KnowledgeInv
    OBVIOUS
  <2>1. /\ messages = {} /\ StoredQuestions = {}
        /\ \A r \in Reqs : req[r].pc = "unsent" /\ req[r].context = {}
    BY DEF Init, StoredQuestions, NewRequest
  <2> QED
    BY <2>1, FS_EmptySet
    DEF StampInv, Stamping, Finite, Stamped, KnowledgeInv, LateIsMet, AskedAt
<1>2. TranscriptInv /\ TitleInv /\ StampInv /\ KnowledgeInv /\ [Next]_convoVars
        => (StampInv /\ KnowledgeInv)'
  BY StampsNext, KnowledgeNext
<1> QED
  BY <1>1, <1>2, TranscriptInductive, TitleInductive, PTL DEF Spec

\* Every context is of messages, and one run at a time is under the guard.
THEOREM ContextTypeCorrect == Spec => []ContextTypeOK
<1>1. TranscriptInv /\ KnowledgeInv => ContextTypeOK
  <2> SUFFICES ASSUME TranscriptInv, KnowledgeInv PROVE ContextTypeOK
    OBVIOUS
  <2>1. ASSUME NEW r \in Reqs PROVE req[r] \in Request
    <3>1. req[r] \in Held /\ req[r].context \in SUBSET Message
      BY MessageType DEF KnowledgeInv
    <3> QED
      BY <3>1 DEF Held, Request
  <2>2. req \in [Reqs -> Request]
    BY <2>1, MessageType
  <2>3. Cardinality({r \in Reqs : Admitted(r)}) <= 1
    <3> DEFINE A == {r \in Reqs : Admitted(r)}
    <3>1. \A r, q \in A : r = q
      BY DEF TranscriptInv, OneLive, Live, Admitted
    <3>2. CASE A = {}
      BY <3>2, FS_EmptySet
    <3>3. ASSUME NEW r \in A PROVE Cardinality(A) <= 1
      <4>1. A = {r}
        BY <3>1
      <4> QED
        BY <4>1, FS_Singleton
    <3> QED
      BY <3>2, <3>3
  <2> QED
    BY <2>2, <2>3 DEF TranscriptInv, HeldTypeOK, ContextTypeOK
<1> QED
  BY <1>1, TranscriptInductive, KnowledgeInductive, PTL

\* A question's context is the longest end of the transcript that both limits
\* allow, whatever they are and however long the transcript has become: no gap,
\* nothing over the budget, nothing left out that fits.
THEOREM ContextsAreLongestEnds == Spec => ContextIsLongestTail
<1>1. TranscriptInv /\ StampInv /\ [Next]_convoVars =>
        [\A r \in Reqs : ReadContext(r) =>
           /\ FitsAsEnd(messages, req'[r].context)
           /\ \A T \in SUBSET messages : FitsAsEnd(messages, T) => T \subseteq req'[r].context]_convoVars
  <2> SUFFICES ASSUME TranscriptInv, StampInv, NEW r \in Reqs, ReadContext(r)
               PROVE  /\ FitsAsEnd(messages, req'[r].context)
                      /\ \A T \in SUBSET messages :
                           FitsAsEnd(messages, T) => T \subseteq req'[r].context
    OBVIOUS
  <2>1. req'[r].context = GetConversationContext(messages)
    BY Beginnings
  <2>2. Finite(messages) /\ Stamped(messages)
    BY DEF StampInv
  <2> QED
    BY <2>1, <2>2, ContextFits
<1> QED
  BY <1>1, TranscriptInductive, KnowledgeInductive, PTL DEF Spec, ContextIsLongestTail

\* What an answered run did not know of the transcript before its question is
\* older than everything it knew, or belongs to a request in flight with it.
THEOREM UnknownIsExplained == Spec => []UnknownIsOldOrOverlapped
<1>1. KnowledgeInv => UnknownIsOldOrOverlapped
  <2> SUFFICES ASSUME KnowledgeInv, NEW a \in StoredAnswers, NEW q \in StoredQuestions,
                      a.by = q.by, NEW m \in messages, m.at < q.at
               PROVE  \/ m \in req[a.by].context
                      \/ req[a.by].context # {} /\ \A n \in req[a.by].context : m.at < n.at
                      \/ Together(m.by, a.by)
    BY DEF UnknownIsOldOrOverlapped
  <2>1. ~Lost(q.by)
    BY DEF Lost
  <2> QED
    BY <2>1 DEF KnowledgeInv, Knows
<1> QED
  BY <1>1, KnowledgeInductive, PTL
=============================================================================
