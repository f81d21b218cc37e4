---------------------------- MODULE SourceBinding ----------------------------
(***************************************************************************)
(* How a conversation is bound to a customer connection by /chat while the *)
(* connection is deleted: QueryWorkflow takes both in one step, here they  *)
(* are the transactions they are.  PostgreSQL's READ COMMITTED is modelled *)
(* by what it does: a statement sees committed rows, a written row stays   *)
(* locked until its transaction ends, a binding to a new connection holds  *)
(* a key-share lock on that connection's row.  One user, whose connections *)
(* and conversations these are.                                            *)
(***************************************************************************)
EXTENDS Naturals, FiniteSets

CONSTANTS
    Conns,      \* ids of saved connections
    Convs,      \* conversation ids
    Reqs,       \* request slots
    Chinook     \* connection_id IS NULL: the sample database

ASSUME BindingAssumption == Chinook \notin Conns

VARIABLES
    rows,       \* committed rows of user_connections
    conv,       \* committed rows of conversations
    marked,     \* marked[r]: conversations a deletion has marked, uncommitted
    pc,         \* where each request is
    job,        \* the conversation and the source each request works on
    ran,        \* history: the sources questions of a conversation ran on
    raced       \* history: conversations bound while their source was deleted

bindVars == <<rows, conv, marked, pc, job, ran, raced>>

AnySource == Conns \cup {Chinook}
ConvRow == [open : BOOLEAN, source : AnySource, sourceDeleted : BOOLEAN]
NoConv == "none"
Job == [conv : Convs \cup {NoConv}, source : AnySource]
NoJob == [conv |-> NoConv, source |-> Chinook]
AskPcs == {"resolving", "binding", "bound", "accepted"}
DeletePcs == {"marking", "deleting"}

\* Types, and the foreign key's: a stored source exists.
BindingTypeOK ==
    /\ rows \subseteq Conns
    /\ conv \in [Convs -> ConvRow]
    /\ marked \in [Reqs -> SUBSET Convs]
    /\ pc \in [Reqs -> AskPcs \cup DeletePcs \cup {"idle"}]
    /\ job \in [Reqs -> Job]
    /\ ran \in [Convs -> SUBSET AnySource]
    /\ raced \subseteq Convs
    /\ \A c \in Convs : conv[c].source \in rows \cup {Chinook}

NewConv == [open |-> FALSE, source |-> Chinook, sourceDeleted |-> FALSE]

Init ==
    /\ rows = Conns
    /\ conv = [c \in Convs |-> NewConv]
    /\ marked = [r \in Reqs |-> {}]
    /\ pc = [r \in Reqs |-> "idle"]
    /\ job = [r \in Reqs |-> NoJob]
    /\ ran = [c \in Convs |-> {}]
    /\ raced = {}

-----------------------------------------------------------------------------
(* Row locks *)

\* The row of conversation c has an uncommitted write of another request.
RowLocked(r, c) ==
    \E q \in Reqs \ {r} : \/ c \in marked[q]
                          \/ pc[q] = "bound" /\ job[q].conv = c

\* Another request's uncommitted binding refers to connection s.
KeyShared(r, s) ==
    \E q \in Reqs \ {r} : /\ pc[q] = "bound" /\ job[q].source = s
                          /\ conv[job[q].conv].source # s

\* The request goes on in its transaction ...
GoTo(r, where) ==
    /\ pc' = [pc EXCEPT ![r] = where]
    /\ UNCHANGED <<job, marked>>

\* ... or ends, and what it has not committed with it.
End(r) ==
    /\ pc' = [pc EXCEPT ![r] = "idle"]
    /\ job' = [job EXCEPT ![r] = NoJob]
    /\ marked' = [marked EXCEPT ![r] = {}]

-----------------------------------------------------------------------------
(* POST /chat *)

\* A conversation of its own is created and committed before its source is
\* looked up; without one it runs on the sample database.
AskInNew(r, c, s) ==
    /\ pc[r] = "idle" /\ ~conv[c].open
    /\ conv' = [conv EXCEPT ![c].open = TRUE]
    /\ job' = [job EXCEPT ![r] = [conv |-> c, source |-> s]]
    /\ pc' = [pc EXCEPT ![r] = IF s = Chinook THEN "accepted" ELSE "resolving"]
    /\ UNCHANGED <<rows, marked, ran, raced>>

\* POST /conversations
CreateConversation(c) ==
    /\ ~conv[c].open
    /\ conv' = [conv EXCEPT ![c].open = TRUE]
    /\ UNCHANGED <<rows, marked, pc, job, ran, raced>>

\* Mutant of NamesItsSource: a follow-up may name any source.
NamesAnySource(c, named) == TRUE

\* A follow-up may name no source but its conversation's own.
NamesItsSource(c, named) == named # Chinook => named = conv[c].source

\* A follow-up reads its conversation: refused when marked, and on the stored
\* source when it names none.
AskInOpen(r, c, named) ==
    LET s == IF named = Chinook THEN conv[c].source ELSE named IN
    /\ pc[r] = "idle" /\ conv[c].open
    /\ ~conv[c].sourceDeleted
    /\ NamesItsSource(c, named)
    /\ job' = [job EXCEPT ![r] = [conv |-> c, source |-> s]]
    /\ pc' = [pc EXCEPT ![r] = IF s = Chinook THEN "accepted" ELSE "resolving"]
    /\ UNCHANGED <<rows, conv, marked, ran, raced>>

\* The connection is looked up: gone, and the request ends (404).
LookUp(r) ==
    /\ pc[r] = "resolving"
    /\ IF job[r].source \in rows THEN GoTo(r, "binding") ELSE End(r)
    /\ UNCHANGED <<rows, conv, ran, raced>>

\* conversations.connection_id references user_connections; a value that does
\* not change is not checked again.
ForeignKeyHolds(c, s) == conv[c].source = s \/ s \in rows

\* UPDATE conversations SET connection_id: waits for the row, then writes it or
\* fails the foreign key (and the request with it).
Bind(r) ==
    /\ pc[r] = "binding"
    /\ ~RowLocked(r, job[r].conv)
    /\ IF ForeignKeyHolds(job[r].conv, job[r].source) THEN GoTo(r, "bound") ELSE End(r)
    /\ UNCHANGED <<rows, conv, ran, raced>>

\* Requests that have marked conversations and not yet deleted s.
Deleting(s) == {q \in Reqs : pc[q] = "deleting" /\ job[q].source = s}

CommitBinding(r) ==
    LET c == job[r].conv IN
    /\ pc[r] = "bound"
    /\ conv' = [conv EXCEPT ![c].source = job[r].source]
    /\ raced' = IF Deleting(job[r].source) # {} THEN raced \cup {c} ELSE raced
    /\ GoTo(r, "accepted")
    /\ UNCHANGED <<rows, ran>>

\* The question runs on the source it was accepted for, whose engine may outlive
\* the row in a worker's pool, or stops for want of a model key or of an engine,
\* its conversation bound all the same.
RunOrStop(r) ==
    /\ pc[r] = "accepted"
    /\ \/ ran' = [ran EXCEPT ![job[r].conv] = @ \cup {job[r].source}]
       \/ UNCHANGED ran
    /\ End(r)
    /\ UNCHANGED <<rows, conv, raced>>

-----------------------------------------------------------------------------
(* DELETE /connections/{id} *)

\* The row is read; a missing one ends the request (404).
ReadConnection(r, s) ==
    /\ pc[r] = "idle" /\ s \in rows
    /\ job' = [job EXCEPT ![r].source = s]
    /\ pc' = [pc EXCEPT ![r] = "marking"]
    /\ UNCHANGED <<rows, conv, marked, ran, raced>>

Bound(s) == {c \in Convs : conv[c].source = s}

\* Mutant of MarkConversations: conversations are not marked at all.
MarkNothing(r) ==
    /\ pc[r] = "marking"
    /\ GoTo(r, "deleting")
    /\ UNCHANGED <<rows, conv, ran, raced>>

\* UPDATE conversations SET source_deleted WHERE connection_id = s: the
\* conversations committed with that source, once their rows are free.
MarkConversations(r) ==
    LET s == job[r].source IN
    /\ pc[r] = "marking"
    /\ \A c \in Bound(s) : ~RowLocked(r, c)
    /\ marked' = [marked EXCEPT ![r] = Bound(s)]
    /\ raced' = raced \cup {job[q].conv : q \in {q \in Reqs :
                                    pc[q] = "bound" /\ job[q].source = s}}
    /\ pc' = [pc EXCEPT ![r] = "deleting"]
    /\ UNCHANGED <<rows, conv, job, ran>>

\* DELETE FROM user_connections and COMMIT: waits for bindings to the row, sets
\* the references of that moment to NULL, and publishes the marks.  A row
\* another request has deleted meanwhile is not an error.
CommitDeletion(r) ==
    LET s == job[r].source IN
    /\ pc[r] = "deleting"
    /\ ~KeyShared(r, s)
    /\ \A c \in Bound(s) : ~RowLocked(r, c)
    /\ rows' = rows \ {s}
    /\ conv' = [c \in Convs |->
            [open |-> conv[c].open,
             source |-> IF conv[c].source = s THEN Chinook ELSE conv[c].source,
             sourceDeleted |-> conv[c].sourceDeleted \/ c \in marked[r]]]
    /\ End(r)
    /\ UNCHANGED <<ran, raced>>

\* The process dies or the client's transaction is lost: nothing uncommitted
\* survives.
Abort(r) ==
    /\ pc[r] # "idle"
    /\ End(r)
    /\ UNCHANGED <<rows, conv, ran, raced>>

-----------------------------------------------------------------------------
Next ==
    \/ \E c \in Convs : CreateConversation(c)
    \/ \E r \in Reqs :
         \/ \E c \in Convs, s \in AnySource : AskInNew(r, c, s) \/ AskInOpen(r, c, s)
         \/ LookUp(r) \/ Bind(r) \/ CommitBinding(r) \/ RunOrStop(r)
         \/ \E s \in Conns : ReadConnection(r, s)
         \/ MarkConversations(r) \/ CommitDeletion(r) \/ Abort(r)

Spec == Init /\ [][Next]_bindVars

-----------------------------------------------------------------------------
(* Properties *)

\* No conversation runs on two connections, whatever its requests name, and
\* however they interleave with each other and with deletions.
OneConnectionPerConversation == \A c \in Convs : Cardinality(ran[c] \cap Conns) <= 1

\* A follow-up of a conversation that has run on a connection would be
\* admitted, and would run on the sample database.
FallsBack(c) ==
    /\ conv[c].open /\ ~conv[c].sourceDeleted
    /\ conv[c].source = Chinook
    /\ ran[c] \cap Conns # {}

\* Deleting a connection marks the conversations that ran on it, so that they
\* do not fall back to sample data, except those bound while it was being
\* deleted; and a marked one keeps no source, also when a question admitted
\* before the deletion goes on to bind it.
FallbackOnlyByRace ==
    \A c \in Convs : /\ FallsBack(c) => c \in raced
                     /\ conv[c].sourceDeleted => conv[c].source = Chinook
=============================================================================
