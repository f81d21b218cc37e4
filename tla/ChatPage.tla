------------------------------ MODULE ChatPage ------------------------------
(***************************************************************************)
(* One browser tab of the chat page (pages/Chat.tsx with its ApprovalCard  *)
(* and Sidebar) against the server it talks to.  The page shows one        *)
(* conversation at a time, and has at most one question or review under    *)
(* way, whose events it reads one at a time; message loads, deletions and  *)
(* the server's run go on beside it, and the run outlives a stream that    *)
(* breaks or a page that is left.                                          *)
(*                                                                         *)
(* Of the server only what the page can tell is kept: a thread is paused   *)
(* under a token or not, and a user has at most one run (workflow_guard,   *)
(* see QueryWorkflow).  Refusals and failures are choices.                 *)
(***************************************************************************)
EXTENDS Naturals, Sequences, SequencesExt

CONSTANTS
    MaxConvs,       \* bound on conversations created
    MaxQuestions,   \* bound on questions asked
    MaxTokens,      \* bound on proposals made
    MaxLoads        \* bound on message loads under way

ASSUME ChatAssumption ==
    {MaxConvs, MaxQuestions, MaxTokens, MaxLoads} \subseteq Nat \ {0}

None == 0
Convs == 1 .. MaxConvs
Questions == 1 .. MaxQuestions
Tokens == 1 .. MaxTokens

VARIABLES
    active,     \* the conversation shown, or None (activeConversationIdRef)
    skip,       \* skipNextLoadRef
    screen,     \* what is shown of each question
    loads,      \* GET /conversations/{id}/messages under way
    stream,     \* the question or review under way; isLoadingRef says there is one
    deleting,   \* deletions whose response has not arrived
    asked,      \* questions asked so far
    created,    \* conversations created so far
    exists,     \* conversations that still exist
    home,       \* home[q]: the conversation question q was stored in
    db,         \* db[q]: what is stored of q
    paused,     \* paused[c]: the token c's thread waits under, or None
    run,        \* the user's run, or NoRun
    tokens,     \* tokens issued so far
    due,        \* history: questions whose answer the screen owes the user
    excused     \* history: the screen was spoilt in a way ScreenKeepsAnswers names

page == <<active, skip, screen, loads, stream>>
server == <<created, exists, home, db, paused, run, tokens>>
history == <<due, excused>>
chatVars == <<page, deleting, asked, server, history>>

\* live: shown by the message object the stream of events still updates.
\* submitting: the card's own state, buttons disabled.
Entry == [state : {"off", "asked", "answered", "failed"}, live : BOOLEAN,
          card : {"none", "pending", "decided"}, token : Tokens \cup {None},
          submitting : BOOLEAN]
Event == [type : {"conversation", "approval", "done", "error", "end"},
          token : Tokens \cup {None}]
MessageLoad == [conv : Convs, read : BOOLEAN, rows : [Questions -> {"off", "asked", "answered"}]]

Shown(state) == [state |-> state, live |-> FALSE, card |-> "none",
                 token |-> None, submitting |-> FALSE]
Blank == [q \in Questions |-> Shown("off")]
NoStream == [kind |-> "none", q |-> None, conv |-> None, token |-> None,
             open |-> FALSE, wire |-> <<>>]
NoRun == [q |-> None, conv |-> None, was |-> None]
Streaming == stream.kind # "none"
Signal(type) == [type |-> type, token |-> None]

ChatTypeOK ==
    /\ active \in Convs \cup {None} /\ skip \in BOOLEAN
    /\ screen \in [Questions -> Entry]
    /\ \A q \in Questions : (screen[q].card = "none") = (screen[q].token = None)
    /\ \A i \in DOMAIN loads : loads[i] \in MessageLoad
    /\ Len(loads) <= MaxLoads
    /\ stream.kind \in {"none", "question", "review"}
    /\ \A i \in DOMAIN stream.wire : stream.wire[i] \in Event
    /\ asked \in 0 .. MaxQuestions /\ created \in 0 .. MaxConvs
    /\ exists \subseteq 1 .. created /\ deleting \subseteq 1 .. created
    /\ home \in [Questions -> 0 .. created]
    /\ db \in [Questions -> {"off", "asked", "answered"}]
    /\ tokens \in 0 .. MaxTokens /\ paused \in [Convs -> 0 .. tokens]

ChatInit ==
    /\ active = None /\ skip = FALSE /\ screen = Blank /\ loads = <<>>
    /\ stream = NoStream /\ deleting = {} /\ asked = 0
    /\ created = 0 /\ exists = {} /\ home = [q \in Questions |-> None]
    /\ db = [q \in Questions |-> "off"] /\ paused = [c \in Convs |-> None]
    /\ run = NoRun /\ tokens = 0
    /\ due = {} /\ excused = FALSE

-----------------------------------------------------------------------------
(* What the user does *)

\* setActiveConversationId(c) with the effect it triggers if it changes
\* anything: skip the load, or start it.
ShowConversation(c, skipped) ==
    LET entered == c \notin {active, None} IN
    /\ active' = c
    /\ skip' = (skipped /\ ~entered)
    /\ IF entered /\ ~skipped
       THEN /\ Len(loads) < MaxLoads
            /\ loads' = Append(loads, [conv |-> c, read |-> FALSE,
                                       rows |-> [q \in Questions |-> "off"]])
       ELSE UNCHANGED loads

LoadUnderWay(c) == \E i \in DOMAIN loads : loads[i].conv = c

OpenConversation(c, skipped) ==
    /\ ~Streaming /\ c \in exists \cup deleting
    /\ ShowConversation(c, skipped)
    /\ screen' = Blank
    /\ due' = {q \in Questions : home[q] = c /\ db[q] = "answered"}
    /\ excused' = (c = active \/ LoadUnderWay(c))
    /\ UNCHANGED <<stream, deleting, asked, server>>

SelectKeepingSkip(c) == OpenConversation(c, skip)    \* mutant: no reset of the ref

\* The list may still name a conversation whose deletion is under way.
\* Selecting the active conversation blanks the screen and loads nothing; a
\* load of c still under way may overtake the one that starts now.
SelectConversation(c) == OpenConversation(c, FALSE)

ShowNothing ==
    /\ ShowConversation(None, skip)
    /\ screen' = Blank /\ due' = {} /\ excused' = FALSE

NewConversation ==
    /\ ~Streaming
    /\ ShowNothing
    /\ UNCHANGED <<stream, deleting, asked, server>>

PendingCard == \E q \in Questions : screen[q].card = "pending"

\* sendMessage up to the request.  A saved analysis starts on a blank screen.
\* A question asked while its conversation is being loaded will be overwritten.
SendQuestion(saved) ==
    /\ ~Streaming /\ asked < MaxQuestions
    /\ LET q == asked + 1
           entry == [Shown("asked") EXCEPT !.live = TRUE]
       IN /\ asked' = q
          /\ IF saved
             THEN /\ ShowConversation(None, skip)
                  /\ screen' = [Blank EXCEPT ![q] = entry]
                  /\ due' = {} /\ excused' = FALSE
             ELSE /\ screen' = [screen EXCEPT ![q] = entry]
                  /\ excused' = (excused \/ LoadUnderWay(active))
                  /\ UNCHANGED <<active, skip, loads, due>>
          /\ stream' = [NoStream EXCEPT !.kind = "question", !.q = q,
                                        !.conv = IF saved THEN None ELSE active]
    /\ UNCHANGED <<deleting, server>>

\* A review still to be given holds back the next question.
AskQuestion(saved) == ~PendingCard /\ SendQuestion(saved)

\* Approve or Reject: the card disables its buttons and calls handleReview,
\* which does nothing while a stream is open.
Review(q) ==
    /\ screen[q].card = "pending" /\ ~screen[q].submitting
    /\ IF Streaming
       THEN /\ screen' = [screen EXCEPT ![q].submitting = TRUE]
            /\ UNCHANGED stream
       ELSE /\ screen' = [screen EXCEPT ![q].submitting = TRUE, ![q].card = "decided"]
            /\ stream' = [NoStream EXCEPT !.kind = "review", !.q = q,
                                          !.conv = home[q], !.token = screen[q].token]
    /\ UNCHANGED <<active, skip, loads, deleting, asked, server, history>>

DeleteConversation(c) ==
    /\ c \in exists
    /\ exists' = exists \ {c} /\ deleting' = deleting \cup {c}
    /\ UNCHANGED <<page, asked, created, home, db, paused, run, tokens, history>>

\* The page goes on to a new analysis if it shows c, unless a stream is open.
DeletionReturns(c) ==
    /\ c \in deleting
    /\ deleting' = deleting \ {c}
    /\ IF active = c /\ ~Streaming
       THEN ShowNothing
       ELSE UNCHANGED <<active, skip, screen, loads, history>>
    /\ UNCHANGED <<stream, asked, server>>

\* The page is unmounted and later mounted anew; a request on its way has
\* reached the server by then.
Leave ==
    /\ Streaming => stream.open
    /\ active' = None /\ skip' = FALSE /\ screen' = Blank /\ loads' = <<>>
    /\ stream' = NoStream /\ deleting' = {}
    /\ due' = {} /\ excused' = FALSE
    /\ UNCHANGED <<asked, server>>

-----------------------------------------------------------------------------
(* Message loads *)

ReadMessages(i) ==
    LET c == loads[i].conv IN
    /\ ~loads[i].read /\ c \in exists
    /\ loads' = [loads EXCEPT ![i].read = TRUE,
                    ![i].rows = [q \in Questions |-> IF home[q] = c THEN db[q] ELSE "off"]]
    /\ UNCHANGED <<active, skip, screen, stream, deleting, asked, server, history>>

ShowMessages(i) == screen' = [q \in Questions |-> Shown(loads[i].rows[q])]

MessagesArriveLate(i) ==      \* mutant: an answer for another conversation is shown
    /\ loads[i].read
    /\ loads' = RemoveAt(loads, i)
    /\ ShowMessages(i)
    /\ UNCHANGED <<active, skip, stream, deleting, asked, server, history>>

MessagesArrive(i) ==
    /\ loads[i].read
    /\ loads' = RemoveAt(loads, i)
    /\ IF active = loads[i].conv THEN ShowMessages(i) ELSE UNCHANGED screen
    /\ UNCHANGED <<active, skip, stream, deleting, asked, server, history>>

LoadFails(i) ==
    /\ loads' = RemoveAt(loads, i)
    /\ excused' = (excused \/ active = loads[i].conv)
    /\ UNCHANGED <<active, skip, screen, stream, deleting, asked, server, due>>

-----------------------------------------------------------------------------
(* What the server does *)

\* The conversation of the question on its way: the one named, or a new one.
Target == IF stream.conv = None THEN created + 1 ELSE stream.conv

StoreConversation ==
    /\ Target \in exists \/ (stream.conv = None /\ Target \in Convs)
    /\ created' = IF stream.conv = None THEN Target ELSE created
    /\ exists' = exists \cup {Target}

\* The events a stream that is refused inside the generator consists of.
Refusal == <<Signal("error"), Signal("end")>>
Opened(wire) == [stream EXCEPT !.open = TRUE, !.wire = wire]

\* /chat stores the question, then the guard admits its run or refuses it.
AcceptQuestion ==
    /\ stream.kind = "question" /\ ~stream.open
    /\ StoreConversation
    /\ home' = [home EXCEPT ![stream.q] = Target]
    /\ db' = [db EXCEPT ![stream.q] = "asked"]
    /\ \/ /\ run = NoRun
          /\ run' = [q |-> stream.q, conv |-> Target, was |-> paused[Target]]
          /\ paused' = [paused EXCEPT ![Target] = None]
          /\ stream' = Opened(<<Signal("conversation")>>)
       \/ /\ stream' = Opened(Refusal)
          /\ UNCHANGED <<run, paused>>
    /\ UNCHANGED <<active, skip, screen, loads, deleting, asked, tokens, history>>

AcceptReview ==
    /\ stream.kind = "review" /\ ~stream.open /\ stream.conv \in exists
    /\ \/ /\ run = NoRun /\ paused[stream.conv] = stream.token
          /\ run' = [q |-> stream.q, conv |-> stream.conv, was |-> stream.token]
          /\ paused' = [paused EXCEPT ![stream.conv] = None]
          /\ stream' = Opened(<<>>)
       \/ /\ stream' = Opened(Refusal)
          /\ UNCHANGED <<run, paused>>
    /\ UNCHANGED <<active, skip, screen, loads, deleting, asked, created, exists,
                   home, db, tokens, history>>

\* The run's events reach the page only while it reads that run's stream.
Emit(events) ==
    stream' = IF stream.open /\ stream.q = run.q
              THEN [stream EXCEPT !.wire = @ \o events] ELSE stream

RunPauses ==
    /\ run # NoRun /\ tokens < MaxTokens
    /\ tokens' = tokens + 1
    /\ paused' = [paused EXCEPT ![run.conv] = tokens + 1]
    /\ Emit(<<[type |-> "approval", token |-> tokens + 1], Signal("end")>>)
    /\ run' = NoRun
    /\ UNCHANGED <<active, skip, screen, loads, deleting, asked, created, exists,
                   home, db, history>>

RunAnswers ==
    /\ run.conv \in exists
    /\ db' = [db EXCEPT ![run.q] = "answered"]
    /\ Emit(<<Signal("done"), Signal("end")>>)
    /\ run' = NoRun
    /\ UNCHANGED <<active, skip, screen, loads, deleting, asked, created, exists,
                   home, paused, tokens, history>>

\* A node raises, or the run is cancelled; the thread may still be paused
\* where it was if nothing was checkpointed.
RunFails ==
    /\ run # NoRun
    /\ \E t \in {None, run.was} : paused' = [paused EXCEPT ![run.conv] = t]
    /\ Emit(Refusal)
    /\ run' = NoRun
    /\ UNCHANGED <<active, skip, screen, loads, deleting, asked, created, exists,
                   home, db, tokens, history>>

-----------------------------------------------------------------------------
(* What the page makes of it *)

\* setMessages for the message of q, if it is still there.
Update(q, entry) ==
    screen' = IF screen[q].live THEN [screen EXCEPT ![q] = entry] ELSE screen

\* A request refused before its stream begins: no_api_key takes the question
\* off the screen, any other answer is shown as an error.
RefuseRequest ==
    /\ Streaming /\ ~stream.open
    /\ \/ UNCHANGED <<created, exists>>
       \/ stream.kind = "question" /\ StoreConversation
    /\ \/ Update(stream.q, [screen[stream.q] EXCEPT !.state = "failed"])
       \/ stream.kind = "question" /\ Update(stream.q, Shown("off"))
    /\ stream' = NoStream
    /\ UNCHANGED <<active, skip, loads, deleting, asked, home, db, paused, run,
                   tokens, history>>

\* The catch block of sendMessage words the failure over whatever the message
\* holds, that of handleReview after it.
StreamBreaks ==
    LET answered == screen[stream.q].state = "answered"
        kept == answered /\ stream.kind = "review"
    IN
    /\ stream.open
    /\ Update(stream.q, IF kept THEN screen[stream.q]
                        ELSE [screen[stream.q] EXCEPT !.state = "failed"])
    /\ stream' = NoStream
    /\ excused' = (excused \/ (answered /\ ~kept))
    /\ UNCHANGED <<active, skip, loads, deleting, asked, server, due>>

Reading(type) == stream.wire # <<>> /\ Head(stream.wire).type = type
NextEvent == stream' = [stream EXCEPT !.wire = Tail(@)]

JoinConversation(skipped) ==
    /\ Reading("conversation")
    /\ ShowConversation(home[stream.q], skipped)
    /\ NextEvent
    /\ UNCHANGED <<screen, deleting, asked, server, history>>

JoinAndLoad == JoinConversation(FALSE)      \* mutant: skipNextLoadRef is not set

ReadConversation == JoinConversation(TRUE)

\* A card that becomes pending forgets that it was submitted.
ReadApproval ==
    /\ Reading("approval")
    /\ Update(stream.q, [screen[stream.q] EXCEPT
                            !.card = "pending", !.token = Head(stream.wire).token,
                            !.submitting = @ /\ screen[stream.q].card = "pending"])
    /\ NextEvent
    /\ UNCHANGED <<active, skip, loads, deleting, asked, server, history>>

Finish(entry) ==
    /\ Reading("done")
    /\ Update(stream.q, [entry EXCEPT !.live = TRUE])
    /\ due' = due \cup {stream.q}
    /\ NextEvent
    /\ UNCHANGED <<active, skip, loads, deleting, asked, server, excused>>

\* mutant: the card is taken down by its status, not by setting it to null
FinishKeepingCard ==
    Finish([screen[stream.q] EXCEPT !.state = "answered", !.card = "none"])

ReadDone == Finish(Shown("answered"))

ReadError ==
    /\ Reading("error")
    /\ Update(stream.q, [screen[stream.q] EXCEPT !.state = "failed"])
    /\ NextEvent
    /\ UNCHANGED <<active, skip, loads, deleting, asked, server, history>>

ReadEndOfQuestion ==          \* mutant: handleReview has no finally block
    /\ Reading("end")
    /\ stream' = IF stream.kind = "review" THEN [stream EXCEPT !.wire = <<>>] ELSE NoStream
    /\ UNCHANGED <<active, skip, screen, loads, deleting, asked, server, history>>

ReadEnd ==
    /\ Reading("end")
    /\ stream' = NoStream
    /\ UNCHANGED <<active, skip, screen, loads, deleting, asked, server, history>>

-----------------------------------------------------------------------------
UserActs ==
    \/ NewConversation \/ Leave
    \/ \E saved \in BOOLEAN : AskQuestion(saved)
    \/ \E q \in Questions : Review(q)
    \/ \E c \in Convs : SelectConversation(c) \/ DeleteConversation(c)

RequestAnswered == AcceptQuestion \/ AcceptReview \/ RefuseRequest
RunEnds == RunPauses \/ RunAnswers \/ RunFails
ReadEvent == ReadConversation \/ ReadApproval \/ ReadDone \/ ReadError \/ ReadEnd

ChatNext ==
    \/ UserActs \/ RequestAnswered \/ RunEnds \/ ReadEvent \/ StreamBreaks
    \/ \E c \in Convs : DeletionReturns(c)
    \/ \E i \in DOMAIN loads : ReadMessages(i) \/ MessagesArrive(i) \/ LoadFails(i)

ChatSpec == ChatInit /\ [][ChatNext]_chatVars

\* A request is answered, a run ends (its awaits have timeouts) and what was
\* sent is read.  Nothing is assumed of the user, loads or broken streams.
FairChatSpec ==
    /\ ChatSpec
    /\ WF_chatVars(RequestAnswered)
    /\ WF_chatVars(RunEnds)
    /\ WF_chatVars(ReadEvent)

-----------------------------------------------------------------------------
(* Properties *)

\* A question on the screen, its answer or its card belongs to the conversation
\* the page is on, so that what is asked next continues what is seen.  Errors
\* may be left over from a question the page never learnt the conversation of.
ScreenIsActive ==
    \A q \in Questions :
        screen[q].state \in {"asked", "answered"} =>
            home[q] = active \/ stream.q = q

\* The screen owes the user what was stored in the conversation when it was
\* selected and every answer read from a stream since, whatever loads, streams
\* and deletions cross.  It breaks that promise in five ways only: the active
\* conversation is selected again, its load fails, a second load of it overtakes
\* the first, a question is asked before it has been loaded, or a question's
\* stream breaks between its answer and its end.
ScreenKeepsAnswers ==
    (~excused /\ ~LoadUnderWay(active)) =>
        \A q \in due : home[q] \in exists => screen[q].state = "answered"

\* A card that can be answered is for the proposal its thread is paused at:
\* neither a later question nor a failed run leaves a stale card behind.
CardIsCurrent ==
    \A q \in Questions :
        (screen[q].card = "pending" /\ home[q] \in exists) =>
            paused[home[q]] = screen[q].token

\* The input is never locked for good, however requests, runs and streams end.
PageBecomesReady == Streaming ~> ~Streaming

\* A card shown while nothing is under way can be answered (ApprovalCard.tsx:6).
CardsCanBeAnswered ==
    \A q \in Questions :
        (screen[q].card = "pending" /\ ~Streaming) => ~screen[q].submitting
=============================================================================
