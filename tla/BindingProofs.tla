---------------------------- MODULE BindingProofs ----------------------------
(***************************************************************************)
(* A conversation stays on one connection, and loses it to the sample      *)
(* database only by the race of /chat with a deletion, for any number of   *)
(* conversations, connections and requests.                                *)
(***************************************************************************)
EXTENDS SourceBinding, FiniteSetTheorems, TLAPS

-----------------------------------------------------------------------------
(* The inductive invariant *)

\* What conversation c has run on, is bound to, or may yet be bound to.
Asking(c) == {r \in Reqs : pc[r] \in AskPcs /\ job[r].conv = c}
Sources(c) == ran[c] \cup {conv[c].source} \cup {job[r].source : r \in Asking(c)}

\* A request works on a conversation, a connection, or both; an uncommitted
\* binding keeps the connection's row.
JobsNameTheirRows ==
    \A r \in Reqs :
        /\ pc[r] \in AskPcs => job[r].conv \in Convs
        /\ pc[r] \in {"resolving", "binding", "bound"} \cup DeletePcs =>
              job[r].source \in Conns
        /\ pc[r] = "bound" => job[r].source \in rows

\* A conversation has one connection, named by the request that created it.
OneSource ==
    \A c \in Convs : \A s, t \in Sources(c) \cap Conns : s = t

UnopenedIsFresh ==
    \A c \in Convs : ~conv[c].open =>
        Sources(c) \cap Conns = {} /\ ~conv[c].sourceDeleted

\* What a conversation ran on, or is about to run on, is stored with it, marked
\* as lost, or was deleted during its binding.
RunsAreStored ==
    \A c \in Convs, s \in Conns :
        (s \in ran[c] \/ \E r \in Asking(c) : pc[r] = "accepted" /\ job[r].source = s)
            => conv[c].source = s \/ conv[c].sourceDeleted \/ c \in raced

\* A deletion has marked what is bound to its connection, but for the races.
BoundIsMarked ==
    \A r \in Reqs : pc[r] = "deleting" =>
        \A c \in Bound(job[r].source) : c \in marked[r] \cup raced

\* Nobody changes or writes a row a deletion has marked.
MarksHold ==
    \A r \in Reqs : \A c \in marked[r] :
        /\ pc[r] = "deleting" /\ conv[c].source = job[r].source
        /\ \A q \in Reqs : ~(pc[q] = "bound" /\ job[q].conv = c)

\* What a marked conversation has lost is gone, and it can get nothing else.
LostIsGone ==
    \A c \in Convs : conv[c].sourceDeleted =>
        conv[c].source = Chinook /\ Sources(c) \cap rows = {}

BindInv ==
    /\ BindingTypeOK /\ JobsNameTheirRows
    /\ OneSource /\ UnopenedIsFresh
    /\ RunsAreStored /\ BoundIsMarked /\ MarksHold /\ LostIsGone

-----------------------------------------------------------------------------
(* Types *)

LEMMA NoJobType == NoJob \in Job /\ NoJob.source = Chinook
BY DEF NoJob, Job, AnySource

LEMMA InitTypes == Init => BindingTypeOK
BY NoJobType DEF Init, BindingTypeOK, NewConv, ConvRow, AnySource, AskPcs, DeletePcs

\* Every action but those that write the conversations or the connections.
LEMMA TypesKept ==
    ASSUME BindingTypeOK, UNCHANGED <<rows, conv>>,
           marked' \in [Reqs -> SUBSET Convs], job' \in [Reqs -> Job],
           pc' \in [Reqs -> AskPcs \cup DeletePcs \cup {"idle"}],
           ran' \in [Convs -> SUBSET AnySource], raced' \subseteq Convs
    PROVE  BindingTypeOK'
BY DEF BindingTypeOK

LEMMA EndTypes ==
    ASSUME BindingTypeOK, NEW r \in Reqs, End(r)
    PROVE  /\ marked' \in [Reqs -> SUBSET Convs] /\ job' \in [Reqs -> Job]
           /\ pc' \in [Reqs -> AskPcs \cup DeletePcs \cup {"idle"}]
           /\ pc'[r] = "idle" /\ marked'[r] = {} /\ job'[r] = NoJob
           /\ \A q \in Reqs \ {r} : /\ pc'[q] = pc[q] /\ job'[q] = job[q]
                                    /\ marked'[q] = marked[q]
BY NoJobType DEF BindingTypeOK, End

LEMMA GoToTypes ==
    ASSUME BindingTypeOK, NEW r \in Reqs, NEW where \in AskPcs \cup DeletePcs, GoTo(r, where)
    PROVE  /\ marked' = marked /\ job' = job
           /\ pc' \in [Reqs -> AskPcs \cup DeletePcs \cup {"idle"}]
           /\ pc'[r] = where
           /\ \A q \in Reqs \ {r} : pc'[q] = pc[q]
BY DEF BindingTypeOK, GoTo

-----------------------------------------------------------------------------
(* What follows from the invariant *)

\* A deletion that may commit finds no binding to its connection under way.
LEMMA DeletionFindsNoBinding ==
    ASSUME BindInv, NEW r \in Reqs, CommitDeletion(r), NEW q \in Reqs, pc[q] = "bound"
    PROVE  job[q].source # job[r].source
<1>1. q # r
  BY DEF CommitDeletion
<1>2. job[q].conv \in Convs
  BY DEF BindInv, JobsNameTheirRows, AskPcs
<1>3. SUFFICES ASSUME job[q].source = job[r].source PROVE FALSE
  OBVIOUS
<1>4. conv[job[q].conv].source = job[r].source
  BY <1>1, <1>3 DEF CommitDeletion, KeyShared
<1>5. RowLocked(r, job[q].conv)
  BY <1>1 DEF RowLocked
<1> QED
  BY <1>2, <1>4, <1>5 DEF CommitDeletion, Bound

\* No deletion commits while another has marked conversations of its connection.
LEMMA DeletionFindsNoMark ==
    ASSUME BindInv, NEW r \in Reqs, CommitDeletion(r), NEW q \in Reqs \ {r},
           NEW c \in marked[q]
    PROVE  conv[c].source # job[r].source
<1>1. c \in Convs /\ RowLocked(r, c)
  BY DEF RowLocked, BindInv, BindingTypeOK
<1> QED
  BY <1>1 DEF CommitDeletion, Bound

\* A request that binds a conversation finds it neither marked nor lost.
LEMMA BindingFindsItsSource ==
    ASSUME BindInv, NEW r \in Reqs, Bind(r), pc'[r] = "bound"
    PROVE  /\ job[r].source \in rows /\ job'[r] = job[r]
           /\ ~conv[job[r].conv].sourceDeleted
           /\ \A q \in Reqs : job[r].conv \notin marked[q]
<1> DEFINE c == job[r].conv
           s == job[r].source
<1>1. c \in Convs /\ s \in Conns /\ pc[r] = "binding"
  BY DEF BindInv, JobsNameTheirRows, AskPcs, Bind
<1>2. GoTo(r, "bound") /\ ForeignKeyHolds(c, s)
  BY DEF Bind, End, BindInv, BindingTypeOK
<1>3. s \in rows
  BY <1>1, <1>2, BindingAssumption DEF ForeignKeyHolds, BindInv, BindingTypeOK
<1>4. s \in Sources(c)
  BY <1>1 DEF Sources, Asking, AskPcs
<1>5. ~conv[c].sourceDeleted
  BY <1>1, <1>3, <1>4 DEF BindInv, LostIsGone
<1>6. ASSUME NEW q \in Reqs PROVE c \notin marked[q]
  <2>1. CASE q = r
    BY <1>1, <2>1 DEF BindInv, MarksHold
  <2>2. CASE q # r
    BY <2>2 DEF Bind, RowLocked
  <2> QED
    BY <2>1, <2>2
<1> QED
  BY <1>2, <1>3, <1>5, <1>6 DEF GoTo

-----------------------------------------------------------------------------
(* One request moves at a time *)

\* The actions of request r.
Acts(r) ==
    \/ \E c \in Convs, s \in AnySource : AskInNew(r, c, s) \/ AskInOpen(r, c, s)
    \/ LookUp(r) \/ Bind(r) \/ CommitBinding(r) \/ RunOrStop(r)
    \/ \E s \in Conns : ReadConnection(r, s)
    \/ MarkConversations(r) \/ CommitDeletion(r) \/ Abort(r)

Kept(r) ==
    /\ pc'[r] \in AskPcs \cup DeletePcs \cup {"idle"}
    /\ job'[r] \in Job /\ marked'[r] \in SUBSET Convs
    /\ \A q \in Reqs \ {r} : /\ pc'[q] = pc[q] /\ job'[q] = job[q]
                             /\ marked'[q] = marked[q]

LEMMA StepTypes ==
    ASSUME BindInv, NEW r \in Reqs, Acts(r)
    PROVE  BindingTypeOK' /\ Kept(r)
<1> USE DEF BindInv, BindingTypeOK, Kept
<1>1. ASSUME NEW c \in Convs, NEW s \in AnySource, AskInNew(r, c, s)
      PROVE  BindingTypeOK' /\ Kept(r)
  <2>1. conv' = [conv EXCEPT ![c].open = TRUE] /\ rows' = rows
    BY <1>1 DEF AskInNew
  <2>2. conv' \in [Convs -> ConvRow] /\ \A d \in Convs : conv'[d].source \in rows' \cup {Chinook}
    BY <2>1 DEF ConvRow
  <2>3. [conv |-> c, source |-> s] \in Job
    BY DEF Job
  <2> QED
    BY <1>1, <2>2, <2>3 DEF AskInNew, AskPcs
<1>2. ASSUME NEW c \in Convs, NEW s \in AnySource, AskInOpen(r, c, s)
      PROVE  BindingTypeOK' /\ Kept(r)
  BY <1>2 DEF AskInOpen, Job, ConvRow, AskPcs
<1>3. CASE LookUp(r)
  BY <1>3, EndTypes, GoToTypes DEF LookUp, GoTo, End, AskPcs
<1>4. CASE Bind(r)
  BY <1>4, EndTypes, GoToTypes DEF Bind, GoTo, End, AskPcs
<1>5. CASE CommitBinding(r)
  <2>1. job[r].conv \in Convs /\ job[r].source \in rows
    BY <1>5 DEF CommitBinding, JobsNameTheirRows, AskPcs
  <2>2. conv' = [conv EXCEPT ![job[r].conv].source = job[r].source]
    BY <1>5 DEF CommitBinding
  <2>3. conv' \in [Convs -> ConvRow]
    BY <2>1, <2>2 DEF ConvRow, AnySource
  <2>4. raced' \subseteq Convs
    BY <1>5, <2>1 DEF CommitBinding
  <2>5. \A c \in Convs : conv'[c].source \in rows' \cup {Chinook}
    BY <1>5, <2>1, <2>2 DEF CommitBinding
  <2> QED
    BY <1>5, <2>3, <2>4, <2>5, GoToTypes DEF CommitBinding, GoTo, AskPcs
<1>6. CASE RunOrStop(r)
  <2>1. job[r].conv \in Convs /\ job[r].source \in AnySource
    BY <1>6 DEF RunOrStop, JobsNameTheirRows, AskPcs, Job
  <2>2. ran' \in [Convs -> SUBSET AnySource]
    BY <1>6, <2>1 DEF RunOrStop
  <2> QED
    BY <1>6, <2>2, EndTypes DEF RunOrStop, End
<1>7. ASSUME NEW s \in Conns, ReadConnection(r, s) PROVE BindingTypeOK' /\ Kept(r)
  BY <1>7 DEF ReadConnection, Job, AnySource, DeletePcs
<1>8. CASE MarkConversations(r)
  <2>1. {job[q].conv : q \in {q \in Reqs : pc[q] = "bound" /\ job[q].source = job[r].source}}
            \subseteq Convs
    BY DEF JobsNameTheirRows, AskPcs
  <2> QED
    BY <1>8, <2>1 DEF MarkConversations, Bound, DeletePcs
<1>9. CASE CommitDeletion(r)
  <2>1. conv' \in [Convs -> ConvRow] /\ \A c \in Convs : conv'[c].source \in rows' \cup {Chinook}
    BY <1>9 DEF CommitDeletion, ConvRow, AnySource
  <2> QED
    BY <1>9, <2>1, EndTypes DEF CommitDeletion, End
<1>10. CASE Abort(r)
  BY <1>10, EndTypes DEF Abort, End
<1> QED
  BY <1>1, <1>2, <1>3, <1>4, <1>5, <1>6, <1>7, <1>8, <1>9, <1>10 DEF Acts

LEMMA StepJobs ==
    ASSUME BindInv, NEW r \in Reqs, Acts(r)
    PROVE  JobsNameTheirRows'
<1>0. BindingTypeOK' /\ Kept(r)
  BY StepTypes
<1> USE <1>0 DEF BindInv, JobsNameTheirRows, Kept, AskPcs, DeletePcs
<1>1. ASSUME NEW c \in Convs, NEW s \in AnySource, AskInNew(r, c, s) PROVE JobsNameTheirRows'
  BY <1>1 DEF AskInNew, AnySource, BindingTypeOK
<1>2. ASSUME NEW c \in Convs, NEW s \in AnySource, AskInOpen(r, c, s) PROVE JobsNameTheirRows'
  BY <1>2 DEF AskInOpen, AnySource, BindingTypeOK, ConvRow
<1>3. CASE LookUp(r)
  BY <1>3 DEF LookUp, GoTo, End, BindingTypeOK
<1>4. CASE Bind(r)
  <2>1. pc'[r] = "bound" \/ pc'[r] = "idle"
    BY <1>4 DEF Bind, GoTo, End, BindingTypeOK
  <2> QED
    BY <1>4, <2>1, BindingFindsItsSource DEF Bind
<1>5. CASE CommitBinding(r)
  BY <1>5 DEF CommitBinding, GoTo, BindingTypeOK
<1>6. CASE RunOrStop(r)
  BY <1>6 DEF RunOrStop, End, BindingTypeOK
<1>7. ASSUME NEW s \in Conns, ReadConnection(r, s) PROVE JobsNameTheirRows'
  BY <1>7 DEF ReadConnection, BindingTypeOK
<1>8. CASE MarkConversations(r)
  BY <1>8 DEF MarkConversations, BindingTypeOK
<1>9. CASE CommitDeletion(r)
  <2>1. \A q \in Reqs \ {r} : pc[q] = "bound" => job[q].source # job[r].source
    BY <1>9, DeletionFindsNoBinding
  <2>2. rows' = rows \ {job[r].source} /\ pc'[r] = "idle"
    BY <1>9 DEF CommitDeletion, End, BindingTypeOK
  <2> QED
    BY <2>1, <2>2
<1>10. CASE Abort(r)
  BY <1>10 DEF Abort, End, BindingTypeOK
<1> QED
  BY <1>1, <1>2, <1>3, <1>4, <1>5, <1>6, <1>7, <1>8, <1>9, <1>10 DEF Acts

-----------------------------------------------------------------------------
(* A conversation's sources *)

\* Only the request that creates a conversation brings a connection to it.
LEMMA StepSources ==
    ASSUME BindInv, NEW r \in Reqs, Acts(r),
           \A d \in Convs, s \in AnySource : ~AskInNew(r, d, s),
           NEW c \in Convs
    PROVE  Sources(c)' \cap Conns \subseteq Sources(c)
<1>0. BindingTypeOK /\ BindingTypeOK' /\ Kept(r) /\ Chinook \notin Conns
  BY StepTypes, BindingAssumption DEF BindInv
<1> SUFFICES ASSUME NEW s \in Conns, s \in Sources(c)' PROVE s \in Sources(c)
  OBVIOUS
<1>1. \/ s \in ran'[c] \/ s = conv'[c].source
      \/ \E q \in Reqs : pc'[q] \in AskPcs /\ job'[q].conv = c /\ job'[q].source = s
  BY DEF Sources, Asking
<1>2. ASSUME NEW q \in Reqs, pc[q] \in AskPcs, job[q].conv = c, job[q].source = s
      PROVE  s \in Sources(c)
  BY <1>2 DEF Sources, Asking
<1>3. s \in ran[c] \/ s = conv[c].source => s \in Sources(c)
  BY DEF Sources
<1>4. ASSUME NEW q \in Reqs \ {r}, pc'[q] \in AskPcs, job'[q].conv = c, job'[q].source = s
      PROVE  s \in Sources(c)
  BY <1>0, <1>2, <1>4 DEF Kept
<1>5. CASE s \in ran'[c]
  <2>1. CASE RunOrStop(r)
    BY <1>0, <1>5, <2>1, <1>2, <1>3 DEF RunOrStop, AskPcs, BindingTypeOK
  <2>2. CASE ~RunOrStop(r)
    <3>1. ran' = ran
      BY <2>2 DEF Acts, AskInNew, AskInOpen, LookUp, Bind, CommitBinding,
           ReadConnection, MarkConversations, CommitDeletion, Abort
    <3> QED
      BY <1>3, <1>5, <3>1
  <2> QED
    BY <2>1, <2>2
<1>6. CASE s = conv'[c].source
  <2>1. CASE CommitBinding(r)
    <3>1. s = conv[c].source \/ (pc[r] = "bound" /\ job[r].conv = c /\ job[r].source = s)
      BY <1>0, <1>6, <2>1 DEF CommitBinding, BindingTypeOK, ConvRow
    <3> QED
      BY <1>2, <1>3, <3>1 DEF AskPcs
  <2>2. CASE CommitDeletion(r)
    BY <1>0, <1>3, <1>6, <2>2 DEF CommitDeletion
  <2>3. CASE ~CommitBinding(r) /\ ~CommitDeletion(r)
    <3>1. conv' = conv
      BY <2>3 DEF Acts, AskInOpen, LookUp, Bind, RunOrStop,
           ReadConnection, MarkConversations, Abort
    <3> QED
      BY <1>3, <1>6, <3>1
  <2> QED
    BY <2>1, <2>2, <2>3
<1>7. CASE pc'[r] \in AskPcs /\ job'[r].conv = c /\ job'[r].source = s
  <2>1. CASE \E d \in Convs, t \in AnySource : AskInOpen(r, d, t)
    <3>1. s = conv[c].source
      BY <1>0, <1>7, <2>1 DEF AskInOpen, NamesItsSource, BindingTypeOK
    <3> QED
      BY <1>3, <3>1
  <2>2. CASE LookUp(r) \/ Bind(r) \/ CommitBinding(r)
    <3>1. pc[r] \in AskPcs /\ job'[r] = job[r]
      BY <1>0, <1>7, <2>2 DEF LookUp, Bind, CommitBinding, GoTo, End, AskPcs, BindingTypeOK
    <3> QED
      BY <1>2, <1>7, <3>1
  <2>3. CASE RunOrStop(r) \/ CommitDeletion(r) \/ Abort(r)
    BY <1>0, <1>7, <2>3 DEF RunOrStop, CommitDeletion, Abort, End, AskPcs, BindingTypeOK
  <2>4. CASE MarkConversations(r) \/ \E t \in Conns : ReadConnection(r, t)
    BY <1>0, <1>7, <2>4 DEF MarkConversations, ReadConnection, AskPcs, BindingTypeOK
  <2> QED
    BY <2>1, <2>2, <2>3, <2>4 DEF Acts
<1> QED
  BY <1>1, <1>4, <1>5, <1>6, <1>7

\* The request that creates c brings at most the connection it names.
LEMMA NewSources ==
    ASSUME BindInv, NEW r \in Reqs, NEW d \in Convs, NEW t \in AnySource,
           AskInNew(r, d, t), NEW c \in Convs
    PROVE  /\ c # d => Sources(c)' \cap Conns \subseteq Sources(c)
           /\ c = d => Sources(c)' \cap Conns \subseteq {t}
           /\ c = d => ~conv[c].open /\ conv'[c].open /\ ~conv'[c].sourceDeleted
<1>0. BindingTypeOK /\ BindingTypeOK' /\ Kept(r) /\ Chinook \notin Conns
  BY StepTypes, BindingAssumption DEF BindInv, Acts
<1>1. /\ conv' = [conv EXCEPT ![d].open = TRUE] /\ ran' = ran /\ ~conv[d].open
      /\ pc[r] = "idle" /\ job'[r] = [conv |-> d, source |-> t]
  BY <1>0 DEF AskInNew, BindingTypeOK
<1>2. conv'[c].source = conv[c].source /\ conv'[c].sourceDeleted = conv[c].sourceDeleted
  BY <1>0, <1>1 DEF BindingTypeOK, ConvRow
<1>3. Sources(c)' \subseteq Sources(c) \cup (IF c = d THEN {t} ELSE {})
  <2> SUFFICES ASSUME NEW s \in Sources(c)'
               PROVE  s \in Sources(c) \/ (c = d /\ s = t)
    OBVIOUS
  <2>1. \/ s \in ran[c] \/ s = conv[c].source
        \/ \E q \in Reqs : pc'[q] \in AskPcs /\ job'[q].conv = c /\ job'[q].source = s
    BY <1>1, <1>2 DEF Sources, Asking
  <2>2. ASSUME NEW q \in Reqs, pc'[q] \in AskPcs, job'[q].conv = c, job'[q].source = s
        PROVE  s \in Sources(c) \/ (c = d /\ s = t)
    BY <1>0, <1>1, <2>2 DEF Kept, Sources, Asking
  <2> QED
    BY <2>1, <2>2 DEF Sources
<1>4. c = d => Sources(c) \cap Conns = {} /\ ~conv[c].sourceDeleted /\ conv'[c].open
  BY <1>0, <1>1 DEF BindInv, UnopenedIsFresh, BindingTypeOK, ConvRow
<1> QED
  BY <1>1, <1>2, <1>3, <1>4

\* A row is written where a conversation is created, bound or unbound.
LEMMA StepRows ==
    ASSUME BindInv, NEW r \in Reqs, Acts(r), NEW c \in Convs
    PROVE  /\ conv[c].open => conv'[c].open
           /\ conv[c].sourceDeleted => conv'[c].sourceDeleted
           /\ conv'[c].sourceDeleted => conv[c].sourceDeleted
                                        \/ (CommitDeletion(r) /\ c \in marked[r])
           /\ conv'[c].source = conv[c].source
                \/ (CommitBinding(r) /\ job[r].conv = c /\ conv'[c].source = job[r].source)
                \/ (CommitDeletion(r) /\ conv[c].source = job[r].source
                                      /\ conv'[c].source = Chinook)
<1>0. BindingTypeOK
  BY DEF BindInv
<1>1. ASSUME NEW d \in Convs, NEW s \in AnySource, AskInNew(r, d, s)
      PROVE  /\ conv[c].open => conv'[c].open
             /\ conv'[c].sourceDeleted = conv[c].sourceDeleted
             /\ conv'[c].source = conv[c].source
  BY <1>0, <1>1 DEF AskInNew, BindingTypeOK, ConvRow
<1>2. CASE CommitBinding(r)
  BY <1>0, <1>2 DEF CommitBinding, BindingTypeOK, ConvRow
<1>3. CASE CommitDeletion(r)
  BY <1>0, <1>3 DEF CommitDeletion, BindingTypeOK, ConvRow
<1>4. CASE /\ ~CommitBinding(r) /\ ~CommitDeletion(r)
           /\ \A d \in Convs, s \in AnySource : ~AskInNew(r, d, s)
  <2>1. conv' = conv
    BY <1>4 DEF Acts, AskInOpen, LookUp, Bind, RunOrStop, ReadConnection,
         MarkConversations, Abort
  <2> QED
    BY <2>1
<1> QED
  BY <1>1, <1>2, <1>3, <1>4

LEMMA StepOneSource ==
    ASSUME BindInv, NEW r \in Reqs, Acts(r)
    PROVE  OneSource' /\ UnopenedIsFresh'
<1>1. CASE \A d \in Convs, s \in AnySource : ~AskInNew(r, d, s)
  <2>1. \A c \in Convs : Sources(c)' \cap Conns \subseteq Sources(c)
    BY <1>1, StepSources
  <2>2. ASSUME NEW c \in Convs, ~conv'[c].open
        PROVE  Sources(c)' \cap Conns = {} /\ ~conv'[c].sourceDeleted
    <3>1. Sources(c) \cap Conns = {} /\ ~conv[c].sourceDeleted
      BY <2>2, StepRows DEF BindInv, UnopenedIsFresh
    <3>2. ASSUME CommitDeletion(r), c \in marked[r] PROVE FALSE
      <4>1. conv[c].source = job[r].source /\ job[r].source \in Conns
        BY <3>2 DEF BindInv, MarksHold, JobsNameTheirRows, CommitDeletion, DeletePcs
      <4> QED
        BY <3>1, <4>1 DEF Sources
    <3> QED
      BY <2>1, <3>1, <3>2, StepRows
  <2>3. OneSource'
    BY <2>1 DEF BindInv, OneSource
  <2> QED
    BY <2>2, <2>3 DEF UnopenedIsFresh
<1>2. ASSUME NEW d \in Convs, NEW t \in AnySource, AskInNew(r, d, t)
      PROVE  OneSource' /\ UnopenedIsFresh'
  <2>1. \A c \in Convs : c # d => /\ Sources(c)' \cap Conns \subseteq Sources(c)
                                  /\ conv'[c] = conv[c]
    BY <1>2, NewSources DEF AskInNew, BindInv, BindingTypeOK
  <2>2. Sources(d)' \cap Conns \subseteq {t} /\ conv'[d].open
    BY <1>2, NewSources
  <2>3. ASSUME NEW c \in Convs, NEW s \in Sources(c)' \cap Conns, NEW u \in Sources(c)' \cap Conns
        PROVE  s = u
    BY <2>1, <2>2 DEF BindInv, OneSource
  <2>4. ASSUME NEW c \in Convs, ~conv'[c].open
        PROVE  Sources(c)' \cap Conns = {} /\ ~conv'[c].sourceDeleted
    BY <2>1, <2>2, <2>4 DEF BindInv, UnopenedIsFresh
  <2> QED
    BY <2>3, <2>4 DEF OneSource, UnopenedIsFresh
<1> QED
  BY <1>1, <1>2

-----------------------------------------------------------------------------
(* Marks *)

LEMMA StepMarks ==
    ASSUME BindInv, NEW r \in Reqs, Acts(r)
    PROVE  MarksHold'
<1>0. BindingTypeOK /\ BindingTypeOK' /\ Kept(r)
  BY StepTypes DEF BindInv
<1> SUFFICES ASSUME NEW q \in Reqs, NEW c \in marked'[q]
             PROVE  /\ pc'[q] = "deleting" /\ conv'[c].source = job'[q].source
                    /\ \A w \in Reqs : ~(pc'[w] = "bound" /\ job'[w].conv = c)
  BY DEF MarksHold
<1>1. c \in Convs
  BY <1>0 DEF BindingTypeOK
\* Of another request's marks: r neither binds nor deletes its row.
<1>2. CASE q # r
  <2>1. /\ pc'[q] = pc[q] /\ job'[q] = job[q] /\ c \in marked[q]
    BY <1>0, <1>2 DEF Kept
  <2>2. /\ pc[q] = "deleting" /\ conv[c].source = job[q].source
        /\ \A w \in Reqs : ~(pc[w] = "bound" /\ job[w].conv = c)
    BY <2>1 DEF BindInv, MarksHold
  <2>3. conv'[c].source = conv[c].source
    <3>1. ~(CommitBinding(r) /\ job[r].conv = c)
      BY <2>2 DEF CommitBinding
    <3>2. ~(CommitDeletion(r) /\ conv[c].source = job[r].source)
      BY <1>2, <2>1, DeletionFindsNoMark
    <3> QED
      BY <1>1, <3>1, <3>2, StepRows
  <2>4. ~(pc'[r] = "bound" /\ job'[r].conv = c)
    <3> SUFFICES ASSUME pc'[r] = "bound" PROVE job'[r].conv # c
      OBVIOUS
    <3>1. Bind(r)
      BY <1>0 DEF Acts, AskInNew, AskInOpen, LookUp, CommitBinding, RunOrStop, ReadConnection,
           MarkConversations, CommitDeletion, Abort, GoTo, End, BindingTypeOK
    <3> QED
      BY <2>1, <3>1, BindingFindsItsSource
  <2> QED
    BY <1>0, <2>1, <2>2, <2>3, <2>4 DEF Kept
\* Of its own: it has just made them, its row free.
<1>3. CASE q = r
  <2>1. MarkConversations(r)
    <3>1. \A d \in marked[r] : pc[r] = "deleting"
      BY DEF BindInv, MarksHold
    <3>2. CASE LookUp(r) \/ Bind(r)
      BY <1>0, <1>3, <3>1, <3>2 DEF LookUp, Bind, GoTo, End, BindingTypeOK
    <3>3. CASE CommitBinding(r)
      BY <1>0, <1>3, <3>1, <3>3 DEF CommitBinding, GoTo, BindingTypeOK
    <3>4. CASE RunOrStop(r) \/ CommitDeletion(r) \/ Abort(r)
      BY <1>0, <1>3, <3>4 DEF RunOrStop, CommitDeletion, Abort, End, BindingTypeOK
    <3>5. CASE \/ \E d \in Convs, s \in AnySource : AskInNew(r, d, s) \/ AskInOpen(r, d, s)
               \/ \E s \in Conns : ReadConnection(r, s)
      BY <1>0, <1>3, <3>1, <3>5 DEF AskInNew, AskInOpen, ReadConnection
    <3> QED
      BY <3>2, <3>3, <3>4, <3>5 DEF Acts
  <2>2. /\ marked'[r] = Bound(job[r].source) /\ pc'[r] = "deleting"
        /\ job' = job /\ conv' = conv
        /\ \A d \in Bound(job[r].source) : ~RowLocked(r, d)
    BY <1>0, <2>1 DEF MarkConversations, BindingTypeOK
  <2>3. conv[c].source = job[r].source /\ ~RowLocked(r, c)
    BY <1>3, <2>2 DEF Bound
  <2>4. \A w \in Reqs \ {r} : ~(pc'[w] = "bound" /\ job'[w].conv = c)
    BY <1>0, <2>3 DEF RowLocked, Kept
  <2> QED
    BY <1>3, <2>2, <2>3, <2>4
<1> QED
  BY <1>2, <1>3

LEMMA StepBound ==
    ASSUME BindInv, NEW r \in Reqs, Acts(r)
    PROVE  BoundIsMarked'
<1>0. BindingTypeOK /\ BindingTypeOK' /\ Kept(r) /\ Chinook \notin Conns
  BY StepTypes, BindingAssumption DEF BindInv
<1> SUFFICES ASSUME NEW q \in Reqs, pc'[q] = "deleting", NEW c \in Convs,
                    conv'[c].source = job'[q].source
             PROVE  c \in marked'[q] \cup raced'
  BY DEF BoundIsMarked, Bound
<1>1. raced \subseteq raced'
  BY DEF Acts, AskInNew, AskInOpen, LookUp, Bind, CommitBinding, RunOrStop, ReadConnection,
       MarkConversations, CommitDeletion, Abort
<1>2. CASE q # r
  <2>1. /\ pc[q] = "deleting" /\ job'[q] = job[q] /\ marked'[q] = marked[q]
        /\ job[q].source \in Conns
    BY <1>0, <1>2 DEF Kept, BindInv, JobsNameTheirRows, DeletePcs
  <2>2. CASE conv[c].source = job[q].source
    BY <1>1, <2>1, <2>2 DEF BindInv, BoundIsMarked, Bound
  <2>3. CASE conv[c].source # job[q].source
    <3>1. CommitBinding(r) /\ job[r].conv = c /\ job[r].source = job[q].source
      BY <1>0, <2>1, <2>3, StepRows
    <3>2. q \in Deleting(job[r].source)
      BY <2>1, <3>1 DEF Deleting
    <3> QED
      BY <3>1, <3>2 DEF CommitBinding
  <2> QED
    BY <2>2, <2>3
<1>3. CASE q = r
  <2>1. MarkConversations(r)
    BY <1>0, <1>3 DEF Acts, AskInNew, AskInOpen, LookUp, Bind, CommitBinding, RunOrStop,
         ReadConnection, CommitDeletion, Abort, GoTo, End, BindingTypeOK
  <2> QED
    BY <1>0, <1>3, <2>1 DEF MarkConversations, Bound, BindingTypeOK
<1> QED
  BY <1>2, <1>3

-----------------------------------------------------------------------------
(* What ran and what is lost *)

\* What comes to be accepted or to run was accepted, or is being bound by r.
LEMMA StepAccepted ==
    ASSUME BindInv, NEW r \in Reqs, Acts(r), NEW c \in Convs, NEW s \in Conns,
           \/ s \in ran'[c]
           \/ \E q \in Asking(c)' : pc'[q] = "accepted" /\ job'[q].source = s
    PROVE  \/ s \in ran[c]
           \/ \E q \in Asking(c) : pc[q] = "accepted" /\ job[q].source = s
           \/ CommitBinding(r) /\ job[r].conv = c /\ job[r].source = s
<1>0. BindingTypeOK /\ BindingTypeOK' /\ Kept(r) /\ Chinook \notin Conns
  BY StepTypes, BindingAssumption DEF BindInv
<1>1. ASSUME NEW q \in Reqs, pc[q] = "accepted", job[q].conv = c, job[q].source = s
      PROVE  \E w \in Asking(c) : pc[w] = "accepted" /\ job[w].source = s
  BY <1>1 DEF Asking, AskPcs
<1>2. CASE s \in ran'[c]
  <2>1. CASE RunOrStop(r)
    <3>1. s \in ran[c] \/ (pc[r] = "accepted" /\ job[r].conv = c /\ job[r].source = s)
      BY <1>0, <1>2, <2>1 DEF RunOrStop, BindingTypeOK
    <3> QED
      BY <1>1, <3>1
  <2>2. CASE ~RunOrStop(r)
    <3>1. ran' = ran
      BY <2>2 DEF Acts, AskInNew, AskInOpen, LookUp, Bind, CommitBinding,
           ReadConnection, MarkConversations, CommitDeletion, Abort
    <3> QED
      BY <1>2, <3>1
  <2> QED
    BY <2>1, <2>2
<1>3. ASSUME NEW q \in Asking(c)', pc'[q] = "accepted", job'[q].source = s, q # r
      PROVE  \E w \in Asking(c) : pc[w] = "accepted" /\ job[w].source = s
  BY <1>0, <1>1, <1>3 DEF Kept, Asking
<1>4. CASE r \in Asking(c)' /\ pc'[r] = "accepted" /\ job'[r].source = s
  <2>1. CommitBinding(r)
    <3>1. ~\E d \in Convs, t \in AnySource : AskInNew(r, d, t) \/ AskInOpen(r, d, t)
      BY <1>0, <1>4 DEF AskInNew, AskInOpen, BindingTypeOK
    <3>2. ~(LookUp(r) \/ Bind(r))
      BY <1>0, <1>4 DEF LookUp, Bind, GoTo, End, BindingTypeOK
    <3>3. ~(RunOrStop(r) \/ CommitDeletion(r) \/ Abort(r))
      BY <1>0, <1>4 DEF RunOrStop, CommitDeletion, Abort, End, BindingTypeOK
    <3>4. ~(MarkConversations(r) \/ \E t \in Conns : ReadConnection(r, t))
      BY <1>0, <1>4 DEF MarkConversations, ReadConnection, BindingTypeOK
    <3> QED
      BY <3>1, <3>2, <3>3, <3>4 DEF Acts
  <2> QED
    BY <1>0, <1>4, <2>1 DEF CommitBinding, GoTo, Asking
<1> QED
  BY <1>2, <1>3, <1>4

LEMMA StepRuns ==
    ASSUME BindInv, NEW r \in Reqs, Acts(r)
    PROVE  RunsAreStored'
<1>0. BindingTypeOK /\ BindingTypeOK' /\ Kept(r) /\ Chinook \notin Conns
  BY StepTypes, BindingAssumption DEF BindInv
<1> SUFFICES ASSUME NEW c \in Convs, NEW s \in Conns,
                    \/ s \in ran'[c]
                    \/ \E q \in Asking(c)' : pc'[q] = "accepted" /\ job'[q].source = s
             PROVE  conv'[c].source = s \/ conv'[c].sourceDeleted \/ c \in raced'
  BY DEF RunsAreStored
<1>1. raced \subseteq raced'
  BY DEF Acts, AskInNew, AskInOpen, LookUp, Bind, CommitBinding, RunOrStop, ReadConnection,
       MarkConversations, CommitDeletion, Abort
<1>2. CASE CommitBinding(r) /\ job[r].conv = c /\ job[r].source = s
  BY <1>0, <1>2 DEF CommitBinding, BindingTypeOK, ConvRow
<1>3. CASE ~(CommitBinding(r) /\ job[r].conv = c /\ job[r].source = s)
  <2>1. s \in ran[c] \/ \E q \in Asking(c) : pc[q] = "accepted" /\ job[q].source = s
    BY <1>3, StepAccepted
  <2>2. s \in Sources(c) /\ (conv[c].source = s \/ conv[c].sourceDeleted \/ c \in raced)
    BY <2>1 DEF BindInv, RunsAreStored, Sources, Asking
  <2>3. ~(CommitBinding(r) /\ job[r].conv = c)
    <3> SUFFICES ASSUME CommitBinding(r), job[r].conv = c PROVE FALSE
      OBVIOUS
    <3>1. job[r].source \in Sources(c) \cap Conns
      BY DEF CommitBinding, Sources, Asking, AskPcs, BindInv, JobsNameTheirRows
    <3> QED
      BY <1>3, <2>2, <3>1 DEF BindInv, OneSource
  <2>4. ASSUME CommitDeletion(r), conv[c].source = job[r].source
        PROVE  conv'[c].sourceDeleted \/ c \in raced'
    <3>1. c \in marked[r] \cup raced
      BY <2>4 DEF BindInv, BoundIsMarked, Bound, CommitDeletion
    <3>2. c \in marked[r] => conv'[c].sourceDeleted
      BY <2>4 DEF CommitDeletion
    <3> QED
      BY <1>1, <3>1, <3>2
  <2> QED
    BY <1>1, <2>2, <2>3, <2>4, StepRows
<1> QED
  BY <1>2, <1>3

LEMMA StepLost ==
    ASSUME BindInv, NEW r \in Reqs, Acts(r)
    PROVE  LostIsGone'
<1>0. BindingTypeOK /\ BindingTypeOK' /\ Kept(r) /\ Chinook \notin Conns
  BY StepTypes, BindingAssumption DEF BindInv
<1> SUFFICES ASSUME NEW c \in Convs, conv'[c].sourceDeleted
             PROVE  conv'[c].source = Chinook /\ Sources(c)' \cap rows' = {}
  BY DEF LostIsGone
<1>1. rows' \subseteq rows /\ rows \subseteq Conns
  BY <1>0 DEF BindingTypeOK, Acts, AskInNew, AskInOpen, LookUp, Bind, CommitBinding, RunOrStop,
       ReadConnection, MarkConversations, CommitDeletion, Abort
<1>2. conv[c].open
  <2>1. CASE CommitDeletion(r) /\ c \in marked[r]
    <3>1. conv[c].source = job[r].source /\ job[r].source \in Conns
      BY <2>1 DEF BindInv, MarksHold, JobsNameTheirRows, CommitDeletion, DeletePcs
    <3> QED
      BY <3>1 DEF BindInv, UnopenedIsFresh, Sources
  <2> QED
    BY <2>1, StepRows DEF BindInv, UnopenedIsFresh
<1>3. Sources(c)' \cap Conns \subseteq Sources(c)
  BY <1>2, StepSources, NewSources
<1>4. CASE conv[c].sourceDeleted
  <2>1. conv[c].source = Chinook /\ Sources(c) \cap rows = {}
    BY <1>4 DEF BindInv, LostIsGone
  <2>2. ~(CommitBinding(r) /\ job[r].conv = c)
    BY <2>1 DEF CommitBinding, Sources, Asking, AskPcs, BindInv, JobsNameTheirRows
  <2> QED
    BY <1>1, <1>3, <2>1, <2>2, StepRows
<1>5. CASE CommitDeletion(r) /\ c \in marked[r]
  <2>1. conv[c].source = job[r].source /\ job[r].source \in Conns
    BY <1>5 DEF BindInv, MarksHold, JobsNameTheirRows, CommitDeletion, DeletePcs
  <2>2. conv'[c].source = Chinook /\ job[r].source \notin rows'
    BY <1>5, <2>1 DEF CommitDeletion
  <2>3. \A s \in Sources(c) \cap Conns : s = job[r].source
    BY <2>1 DEF BindInv, OneSource, Sources
  <2> QED
    BY <1>1, <1>3, <2>2, <2>3
<1> QED
  BY <1>4, <1>5, StepRows

-----------------------------------------------------------------------------
(* Theorems *)

LEMMA InitInv == Init => BindInv
<1> SUFFICES ASSUME Init PROVE BindInv
  OBVIOUS
<1>1. /\ BindingTypeOK /\ \A c \in Convs : Sources(c) = {Chinook}
      /\ \A r \in Reqs : pc[r] = "idle" /\ marked[r] = {}
  BY InitTypes DEF Init, Sources, Asking, AskPcs, NewConv
<1>2. JobsNameTheirRows /\ OneSource
  BY <1>1, BindingAssumption DEF JobsNameTheirRows, AskPcs, DeletePcs, OneSource
<1>3. UnopenedIsFresh /\ LostIsGone
  BY <1>1, BindingAssumption DEF UnopenedIsFresh, LostIsGone, Init, NewConv
<1>4. RunsAreStored /\ BoundIsMarked /\ MarksHold
  BY <1>1 DEF RunsAreStored, BoundIsMarked, MarksHold, Asking, AskPcs, Init
<1> QED
  BY <1>1, <1>2, <1>3, <1>4 DEF BindInv

LEMMA CreateInv ==
    ASSUME BindInv, NEW c \in Convs, CreateConversation(c)
    PROVE  BindInv'
<1>0. BindingTypeOK
  BY DEF BindInv
<1>1. /\ \A d \in Convs : /\ conv'[d].source = conv[d].source
                          /\ conv'[d].sourceDeleted = conv[d].sourceDeleted
                          /\ conv'[d].open = (conv[d].open \/ d = c)
      /\ UNCHANGED <<rows, marked, pc, job, ran, raced>>
  BY <1>0 DEF CreateConversation, BindingTypeOK, ConvRow
<1>2. BindingTypeOK'
  BY <1>0, <1>1 DEF CreateConversation, BindingTypeOK, ConvRow
<1>3. \A d \in Convs : Asking(d)' = Asking(d) /\ Sources(d)' = Sources(d)
  BY <1>1 DEF Sources, Asking
<1>4. JobsNameTheirRows' /\ MarksHold' /\ BoundIsMarked'
  <2>1. \A s : Bound(s)' = Bound(s)
    BY <1>1 DEF Bound
  <2>2. \A r \in Reqs : marked[r] \subseteq Convs
    BY <1>0 DEF BindingTypeOK
  <2> QED
    BY <1>1, <2>1, <2>2 DEF BindInv, JobsNameTheirRows, MarksHold, BoundIsMarked
<1>5. OneSource' /\ UnopenedIsFresh' /\ LostIsGone'
  <2>1. OneSource' /\ LostIsGone'
    BY <1>1, <1>3 DEF BindInv, OneSource, LostIsGone
  <2>2. ASSUME NEW d \in Convs, ~conv'[d].open
        PROVE  Sources(d)' \cap Conns = {} /\ ~conv'[d].sourceDeleted
    <3>1. ~conv[d].open
      BY <1>1, <2>2
    <3> QED
      BY <1>1, <1>3, <3>1 DEF BindInv, UnopenedIsFresh
  <2> QED
    BY <2>1, <2>2 DEF UnopenedIsFresh
<1>6. RunsAreStored'
  BY <1>1, <1>3 DEF BindInv, RunsAreStored
<1> QED
  BY <1>2, <1>4, <1>5, <1>6 DEF BindInv

LEMMA StepInv == BindInv /\ [Next]_bindVars => BindInv'
<1> SUFFICES ASSUME BindInv, [Next]_bindVars PROVE BindInv'
  OBVIOUS
<1>1. ASSUME NEW r \in Reqs, Acts(r) PROVE BindInv'
  BY <1>1, StepTypes, StepJobs, StepOneSource, StepRuns, StepBound, StepMarks, StepLost
     DEF BindInv
<1>2. CASE UNCHANGED bindVars
  BY <1>2 DEF bindVars, BindInv, BindingTypeOK, JobsNameTheirRows, OneSource, UnopenedIsFresh,
       RunsAreStored, BoundIsMarked, MarksHold, LostIsGone, Sources, Asking, Bound
<1> QED
  BY <1>1, <1>2, CreateInv DEF Next, Acts

LEMMA Bindings == Spec => []BindInv
BY InitInv, StepInv, PTL DEF Spec

\* Every stored source exists, and every variable keeps its type: the foreign
\* key of conversations holds without anyone checking it twice.
THEOREM BindingTypeCorrect == Spec => []BindingTypeOK
<1>1. BindInv => BindingTypeOK
  BY DEF BindInv
<1> QED
  BY <1>1, Bindings, PTL

\* A conversation's questions never run on two customers' databases, whatever
\* sources they name and however they cross each other and deletions.
THEOREM OneConnectionEach == Spec => []OneConnectionPerConversation
<1>1. ASSUME BindInv, NEW c \in Convs PROVE Cardinality(ran[c] \cap Conns) <= 1
  <2>1. \A s, t \in ran[c] \cap Conns : s = t
    BY <1>1 DEF BindInv, OneSource, Sources
  <2>2. CASE ran[c] \cap Conns = {}
    BY <2>2, FS_EmptySet
  <2>3. CASE ran[c] \cap Conns # {}
    <3>1. PICK s \in ran[c] \cap Conns : TRUE
      BY <2>3
    <3>2. ran[c] \cap Conns = {s}
      BY <2>1, <3>1
    <3> QED
      BY <3>2, FS_Singleton
  <2> QED
    BY <2>2, <2>3
<1>2. BindInv => OneConnectionPerConversation
  BY <1>1 DEF OneConnectionPerConversation
<1> QED
  BY <1>2, Bindings, PTL

\* A conversation that ran on a connection goes on to sample data unnoticed
\* only when it was bound while the connection was deleted, and never gets back
\* what it was told it has lost.
THEOREM FallsBackOnlyByRace == Spec => []FallbackOnlyByRace
<1>1. BindInv => FallbackOnlyByRace
  <2> SUFFICES ASSUME BindInv, NEW c \in Convs
               PROVE  /\ FallsBack(c) => c \in raced
                      /\ conv[c].sourceDeleted => conv[c].source = Chinook
    BY DEF FallbackOnlyByRace
  <2>1. ASSUME FallsBack(c) PROVE c \in raced
    <3>1. PICK s \in ran[c] \cap Conns : TRUE
      BY <2>1 DEF FallsBack
    <3> QED
      BY <2>1, <3>1, BindingAssumption DEF FallsBack, BindInv, RunsAreStored
  <2> QED
    BY <2>1 DEF BindInv, LostIsGone
<1> QED
  BY <1>1, Bindings, PTL
=============================================================================
