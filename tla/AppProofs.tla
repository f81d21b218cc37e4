------------------------------ MODULE AppProofs ------------------------------
(***************************************************************************)
(* Proofs about AppPool: its type invariant with the bounds of the pools   *)
(* and of the engine lock, how far a user can exceed the cap, and that a   *)
(* worker that stands still has a full pool and is woken by a timeout.     *)
(***************************************************************************)
EXTENDS AppPool, FiniteSetTheorems, TLAPS

\* The steps of one request.
Step(r) ==
    \/ \E n \in Names : CreateConnection(r, n)
    \/ \E c \in Conns :
         \/ \E n \in Names \cup {KeepName} : UpdateConnection(r, c, n)
         \/ DeleteConnection(r, c) \/ TestConnection(r, c)
    \/ Chat(r) \/ SampleChat(r)
    \/ Continue(r)
    \/ TimeOut(r) \/ GiveUpEngine(r) \/ Disconnect(r)

LEMMA NextIsStep == Next <=> \E r \in Reqs : Step(r)
  BY DEF Next, Step

VarsOK ==
    /\ req \in [Reqs -> Request]
    /\ name \in [Conns -> Names \cup {"unborn", "gone"}]
    /\ overshoot \in Nat
    /\ \A r \in Reqs : (req[r].kind = "create" /\ req[r].pc = "testing") => req[r].name \in Names

Holders == {r \in Reqs : Holds(r)}
GuardedOnes == {r \in Reqs : Guarded(r)}
Builders == {r \in Reqs : req[r].pc = "building"}

-----------------------------------------------------------------------------
(* What a step changes *)

LEMMA BoundsAreNat ==
  /\ Size \in Nat /\ 0 < Size /\ LockSize \in Nat /\ 0 < LockSize /\ Cap \in Nat
  /\ "unborn" \notin Names
  <1>1. Size \in Nat \ {0} /\ LockSize \in Nat \ {0} /\ Cap \in Nat
    BY BoundsAssumption
  <1>2. "unborn" \notin Names
    BY BoundsAssumption
  <1> QED
    BY <1>1, <1>2

LEMMA IdleIsRequest == Idle \in Request
  BY BoundsAssumption DEF Idle, Request, Pcs, Kinds, KeepName

\* A step of r changes no other request's kind, name or place.
OthersStay(r) == \A q \in Reqs \ {r} :
    req'[q].pc = req[q].pc /\ req'[q].kind = req[q].kind /\ req'[q].name = req[q].name

\* What r has after its step and not before it was free.
TakesWhatIsFree(r) ==
    /\ Holds(r)' => Holds(r) \/ FreeConnection
    /\ Guarded(r)' => Guarded(r) \/ FreeLock
    /\ req'[r].pc = "building" => FreeEngines

LEMMA VarsStayOK ==
  ASSUME VarsOK, NEW r \in Reqs, req' \in [Reqs -> Request], OthersStay(r),
         name' \in [Conns -> Names \cup {"unborn", "gone"}], overshoot' \in Nat,
         req'[r].pc # "testing" \/ req'[r].kind # "create" \/ req'[r].name \in Names
  PROVE  VarsOK'
  BY DEF VarsOK, OthersStay

LEMMA EndsOK ==
  ASSUME VarsOK, NEW r \in Reqs, Ends(r)
  PROVE  /\ req' \in [Reqs -> Request] /\ OthersStay(r) /\ TakesWhatIsFree(r)
         /\ req'[r].pc = "idle"
  <1>1. req' = [req EXCEPT ![r] = Idle]
    BY DEF Ends
  <1>2. req'[r].pc = "idle"
    BY <1>1 DEF VarsOK, Idle
  <1>3. req' \in [Reqs -> Request]
    BY <1>1, IdleIsRequest DEF VarsOK
  <1>4. OthersStay(r)
    BY <1>1 DEF OthersStay, VarsOK
  <1> QED
    BY <1>2, <1>3, <1>4 DEF TakesWhatIsFree, Holds, Guarded

LEMMA GoesOK ==
  ASSUME VarsOK, NEW r \in Reqs, NEW pc \in Pcs, Goes(r, pc)
  PROVE  /\ req' \in [Reqs -> Request] /\ OthersStay(r)
         /\ req'[r].pc = pc
  BY DEF Goes, VarsOK, Request, OthersStay

LEMMA StartsOK ==
  ASSUME VarsOK, NEW r \in Reqs, NEW kind \in Kinds, NEW c \in Conns,
         NEW n \in Names \cup {KeepName}, NEW pc \in {"testing", "evicting", "committing", "charging"},
         StartsAt(r, kind, c, n, pc)
  PROVE  /\ req' \in [Reqs -> Request] /\ OthersStay(r) /\ TakesWhatIsFree(r)
         /\ req'[r].pc = pc /\ req'[r].kind = kind /\ req'[r].name = n
  <1> DEFINE new == [Idle EXCEPT !.pc = pc, !.kind = kind, !.conn = c, !.name = n]
  <1>1. req' = [req EXCEPT ![r] = new] /\ FreeConnection
    BY DEF StartsAt
  <1>2. new \in Request /\ new.pc = pc /\ new.kind = kind /\ new.name = n
    BY IdleIsRequest DEF Request, Pcs, Idle
  <1>3. req' \in [Reqs -> Request] /\ OthersStay(r) /\ req'[r] = new
    BY <1>1, <1>2 DEF VarsOK, OthersStay
  <1> QED
    BY <1>1, <1>2, <1>3 DEF TakesWhatIsFree, Guarded

LEMMA WrittenOK ==
  ASSUME VarsOK, NEW r \in Reqs
  PROVE  /\ Written(r) \in [Reqs -> Request] /\ Written(r)[r].pc = "refreshing"
         /\ \A q \in Reqs \ {r} : Written(r)[q] = req[q]
  <1> DEFINE new == [Idle EXCEPT !.pc = "refreshing", !.kind = req[r].kind]
  <1>1. new \in Request /\ new.pc = "refreshing"
    BY IdleIsRequest DEF Request, Pcs, Idle, VarsOK
  <1> QED
    BY <1>1 DEF Written, VarsOK

LEMMA TellOK ==
  ASSUME NEW rs \in [Reqs -> Request], NEW r \in Reqs, NEW n
  PROVE  /\ Tell(rs, r, n) \in [Reqs -> Request]
         /\ Tell(rs, r, n)[r] = rs[r]
         /\ \A q \in Reqs \ {r} : /\ Tell(rs, r, n)[q].pc = rs[q].pc
                                  /\ Tell(rs, r, n)[q].kind = rs[q].kind
                                  /\ Tell(rs, r, n)[q].name = rs[q].name
                                  /\ (rs[q].kind = "create" /\ rs[q].pc = "testing") =>
                                        Tell(rs, r, n)[q].others
                                          = rs[q].others + (IF req[r].kind = "create" THEN 1 ELSE 0)
  <1> SUFFICES ASSUME NEW q \in Reqs
               PROVE  /\ Tell(rs, r, n)[q] \in Request
                      /\ q = r => Tell(rs, r, n)[q] = rs[q]
                      /\ Tell(rs, r, n)[q].pc = rs[q].pc
                      /\ Tell(rs, r, n)[q].kind = rs[q].kind
                      /\ Tell(rs, r, n)[q].name = rs[q].name
                      /\ (q # r /\ rs[q].kind = "create" /\ rs[q].pc = "testing") =>
                            Tell(rs, r, n)[q].others
                              = rs[q].others + (IF req[r].kind = "create" THEN 1 ELSE 0)
    BY DEF Tell
  <1>1. rs[q] \in Request
    OBVIOUS
  <1>2. CASE q = r
    BY <1>1, <1>2 DEF Tell
  <1>3. CASE q # r /\ rs[q].kind = "create" /\ rs[q].pc = "testing"
    BY <1>1, <1>3 DEF Tell, Request
  <1>4. CASE q # r /\ rs[q].kind = "update" /\ rs[q].pc \in {"evicting", "committing"}
    BY <1>1, <1>4 DEF Tell, Request
  <1>5. CASE q # r /\ ~(rs[q].kind = "create" /\ rs[q].pc = "testing")
             /\ ~(rs[q].kind = "update" /\ rs[q].pc \in {"evicting", "committing"})
    BY <1>1, <1>5 DEF Tell
  <1> QED
    BY <1>2, <1>3, <1>4, <1>5

-----------------------------------------------------------------------------
(* Types, and what each step takes *)

\* Every step keeps the types, changes one request, and takes what is free.
LEMMA StepsAreSound ==
  ASSUME VarsOK, NEW r \in Reqs, Step(r)
  PROVE  VarsOK' /\ OthersStay(r) /\ TakesWhatIsFree(r)
  <1> DEFINE Sound == VarsOK' /\ OthersStay(r) /\ TakesWhatIsFree(r)
  <1> USE DEF Pcs, Kinds
  <1>1. ASSUME Ends(r), UNCHANGED <<name, overshoot>> PROVE Sound
    <2>1. name' = name /\ overshoot' = overshoot
      BY <1>1
    <2> QED
      BY <1>1, <2>1, EndsOK, VarsStayOK DEF VarsOK
  <1>2. ASSUME NEW pc \in {"committing", "locking", "storing"}, Goes(r, pc),
               UNCHANGED <<name, overshoot>>,
               pc = "committing" => Holds(r), pc = "storing" => Guarded(r)
        PROVE  Sound
    <2>1. req' \in [Reqs -> Request] /\ OthersStay(r) /\ req'[r].pc = pc
      BY <1>2, GoesOK
    <2>2. VarsOK'
      BY <1>2, <2>1, VarsStayOK DEF VarsOK
    <2>3. TakesWhatIsFree(r)
      BY <1>2, <2>1 DEF TakesWhatIsFree, Holds, Guarded
    <2> QED
      BY <2>1, <2>2, <2>3
  <1>3. ASSUME NEW n \in Names, CreateConnection(r, n) PROVE Sound
    <2>1. Idle.conn \in Conns
      BY IdleIsRequest DEF Request
    <2>2. StartsAt(r, "create", Idle.conn, n, "testing") /\ UNCHANGED <<name, overshoot>>
      BY <1>3 DEF CreateConnection, StartsAt
    <2>3. /\ req' \in [Reqs -> Request] /\ OthersStay(r) /\ TakesWhatIsFree(r)
          /\ req'[r].name = n
      BY <2>1, <2>2, StartsOK
    <2> QED
      BY <2>2, <2>3, VarsStayOK DEF VarsOK
  <1>4. ASSUME NEW c \in Conns, NEW n \in Names \cup {KeepName}, UpdateConnection(r, c, n)
        PROVE  Sound
    <2> DEFINE m == IF n = name[c] THEN KeepName ELSE n
    <2>1. PICK pc \in {"evicting", "committing"} : StartsAt(r, "update", c, m, pc)
      BY <1>4 DEF UpdateConnection
    <2>2. m \in Names \cup {KeepName}
      OBVIOUS
    <2>3. /\ req' \in [Reqs -> Request] /\ OthersStay(r) /\ TakesWhatIsFree(r)
          /\ req'[r].kind = "update"
      BY <2>1, <2>2, StartsOK
    <2>4. UNCHANGED <<name, overshoot>>
      BY <2>1 DEF StartsAt
    <2> QED
      BY <2>3, <2>4, VarsStayOK DEF VarsOK
  <1>5. ASSUME NEW c \in Conns, DeleteConnection(r, c) \/ TestConnection(r, c) PROVE Sound
    <2>1. PICK kind \in {"delete", "test"}, pc \in {"evicting", "testing"} :
            StartsAt(r, kind, c, KeepName, pc)
      BY <1>5 DEF DeleteConnection, TestConnection
    <2>2. /\ req' \in [Reqs -> Request] /\ OthersStay(r) /\ TakesWhatIsFree(r)
          /\ req'[r].kind = kind
      BY <2>1, StartsOK
    <2>3. UNCHANGED <<name, overshoot>>
      BY <2>1 DEF StartsAt
    <2> QED
      BY <2>2, <2>3, VarsStayOK DEF VarsOK
  <1>6. ASSUME Chat(r) \/ SampleChat(r) PROVE Sound
    <2>1. Idle.conn \in Conns
      BY IdleIsRequest DEF Request
    <2>2. PICK kind \in {"chat", "sample"} : StartsAt(r, kind, Idle.conn, KeepName, "charging")
      BY <1>6 DEF Chat, SampleChat
    <2>3. /\ req' \in [Reqs -> Request] /\ OthersStay(r) /\ TakesWhatIsFree(r)
          /\ req'[r].pc = "charging"
      BY <2>1, <2>2, StartsOK
    <2>4. UNCHANGED <<name, overshoot>>
      BY <2>2 DEF StartsAt
    <2> QED
      BY <2>3, <2>4, VarsStayOK DEF VarsOK
  <1>7. ASSUME NEW n \in Names, req' = Tell(Written(r), r, n),
               name' \in [Conns -> Names \cup {"unborn", "gone"}], overshoot' \in Nat
        PROVE  Sound
    <2>1. req' \in [Reqs -> Request] /\ OthersStay(r) /\ req'[r].pc = "refreshing"
      BY <1>7, WrittenOK, TellOK DEF OthersStay
    <2> QED
      BY <1>7, <2>1, VarsStayOK DEF TakesWhatIsFree, Holds, Guarded
  <1>8. ASSUME NEW c \in Conns, Insert(r, c) PROVE Sound
    <2>1. req[r].name \in Names /\ req[r].others \in Nat
      BY <1>8 DEF Insert, VarsOK, Request
    <2> QED
      BY <1>7, <1>8, <2>1 DEF Insert, VarsOK
  <1>9. ASSUME CommitUpdate(r) PROVE Sound
    <2>1. CASE req[r].conn \in Live /\ req[r].name # KeepName
      <3>1. req[r].name \in Names
        BY <2>1 DEF VarsOK, Request
      <3> QED
        BY <1>7, <1>9, <2>1, <3>1 DEF CommitUpdate, VarsOK
    <2>2. CASE req[r].conn \in Live /\ req[r].name = KeepName
      <3>1. req' = Written(r) /\ UNCHANGED <<name, overshoot>>
        BY <1>9, <2>2 DEF CommitUpdate
      <3>2. req' \in [Reqs -> Request] /\ OthersStay(r) /\ req'[r].pc = "refreshing"
        BY <3>1, WrittenOK DEF OthersStay
      <3> QED
        BY <3>1, <3>2, VarsStayOK DEF VarsOK, TakesWhatIsFree, Holds, Guarded
    <2>3. CASE req[r].conn \notin Live
      BY <1>1, <1>9, <2>3 DEF CommitUpdate
    <2> QED
      BY <2>1, <2>2, <2>3
  <1>10. ASSUME CommitDelete(r) PROVE Sound
    BY <1>10, EndsOK, VarsStayOK DEF CommitDelete, VarsOK
  <1>11. ASSUME NEW pc \in Pcs, Goes(r, pc), UNCHANGED <<name, overshoot>>,
                \/ pc = "refreshing"
                \/ pc = "evicting" /\ FreeConnection
                \/ pc = "running" /\ FreeLock
                \/ pc = "asking" /\ req[r].pc = "running"
                \/ pc = "building" /\ req[r].pc = "asking" /\ FreeEngines
         PROVE  Sound
    <2>1. req' \in [Reqs -> Request] /\ OthersStay(r) /\ req'[r].pc = pc
      BY <1>11, GoesOK
    <2>2. VarsOK'
      BY <1>11, <2>1, VarsStayOK DEF VarsOK
    <2>3. TakesWhatIsFree(r)
      BY <1>11, <2>1 DEF TakesWhatIsFree, Holds, Guarded
    <2> QED
      BY <2>1, <2>2, <2>3
  <1>12. ASSUME CommitTest(r) \/ CommitFails(r) \/ Refresh(r) PROVE Sound
    BY <1>1, <1>11, <1>12 DEF CommitTest, CommitFails, Refresh
  <1>13. ASSUME Evict(r) \/ Charge(r) PROVE Sound
    BY <1>1, <1>2, <1>13 DEF Evict, Charge, Holds
  <1>14. ASSUME TakeGuard(r) \/ RunNodes(r) \/ AskForEngine(r) PROVE Sound
    BY <1>1, <1>2, <1>11, <1>14 DEF TakeGuard, RunNodes, AskForEngine, Guarded
  <1>15. ASSUME BuildEngine(r) \/ StoreAnswer(r) \/ TimeOut(r) \/ GiveUpEngine(r) \/ Disconnect(r)
         PROVE  Sound
    BY <1>1, <1>2, <1>15 DEF BuildEngine, StoreAnswer, TimeOut, GiveUpEngine, Disconnect, Guarded
  <1> QED
    BY <1>3, <1>4, <1>5, <1>6, <1>8, <1>9, <1>10, <1>12, <1>13, <1>14, <1>15 DEF Step, Continue

-----------------------------------------------------------------------------
(* The bounds of the pools and of the lock *)

\* A set that gains at most one element, and only below its bound, keeps it.
LEMMA GrowsBelowBound ==
  ASSUME NEW S, NEW T, NEW r, NEW n \in Nat, IsFiniteSet(S), IsFiniteSet(T),
         T \subseteq S \cup {r}, r \in T => r \in S \/ Cardinality(S) < n,
         Cardinality(S) <= n
  PROVE  Cardinality(T) <= n
  <1>1. Cardinality(S) \in Nat /\ Cardinality(T) \in Nat
    BY FS_CardinalityType
  <1>2. CASE T \subseteq S
    BY <1>1, <1>2, FS_Subset
  <1>3. CASE ~(T \subseteq S)
    <2>1. r \notin S /\ Cardinality(S) < n
      BY <1>3
    <2>2. /\ IsFiniteSet(S \cup {r})
          /\ Cardinality(S \cup {r}) = Cardinality(S) + 1
      BY <2>1, FS_AddElement
    <2>3. Cardinality(T) <= Cardinality(S \cup {r})
      BY <2>2, FS_Subset
    <2> QED
      BY <1>1, <2>1, <2>2, <2>3
  <1> QED
    BY <1>2, <1>3

LEMMA RequestSetsFinite ==
  /\ IsFiniteSet(Holders) /\ IsFiniteSet(GuardedOnes) /\ IsFiniteSet(Builders)
  /\ IsFiniteSet(Holders') /\ IsFiniteSet(GuardedOnes') /\ IsFiniteSet(Builders')
  BY BoundsAssumption, FS_Subset DEF Holders, GuardedOnes, Builders

BoundsKept ==
    /\ Cardinality(Holders) <= Size
    /\ Cardinality(GuardedOnes) <= LockSize
    /\ Cardinality(Builders) <= 1

LEMMA BoundsStay ==
  ASSUME VarsOK, BoundsKept, NEW r \in Reqs, OthersStay(r), TakesWhatIsFree(r)
  PROVE  BoundsKept'
  <1>1. Holders' \subseteq Holders \cup {r}
    BY DEF Holders, Holds, OthersStay
  <1>2. r \in Holders' => r \in Holders \/ Cardinality(Holders) < Size
    BY DEF Holders, TakesWhatIsFree, FreeConnection
  <1>3. GuardedOnes' \subseteq GuardedOnes \cup {r}
    BY DEF GuardedOnes, Guarded, OthersStay
  <1>4. r \in GuardedOnes' => r \in GuardedOnes \/ Cardinality(GuardedOnes) < LockSize
    BY DEF GuardedOnes, TakesWhatIsFree, FreeLock
  <1>5. Builders' \subseteq Builders \cup {r}
    BY DEF Builders, OthersStay
  <1>6. r \in Builders' => Cardinality(Builders) < 1
    <2>1. ASSUME r \in Builders' PROVE Builders = {}
      BY <2>1 DEF Builders, TakesWhatIsFree, FreeEngines
    <2> QED
      BY <2>1, FS_EmptySet
  <1>7. Size \in Nat /\ LockSize \in Nat /\ 1 \in Nat
    BY BoundsAssumption
  <1>8. Cardinality(Holders') <= Size
    BY <1>1, <1>2, <1>7, RequestSetsFinite, GrowsBelowBound DEF BoundsKept
  <1>9. Cardinality(GuardedOnes') <= LockSize
    BY <1>3, <1>4, <1>7, RequestSetsFinite, GrowsBelowBound DEF BoundsKept
  <1>10. Cardinality(Builders') <= 1
    BY <1>5, <1>6, <1>7, RequestSetsFinite, GrowsBelowBound DEF BoundsKept
  <1> QED
    BY <1>8, <1>9, <1>10 DEF BoundsKept

-----------------------------------------------------------------------------
(* The cap *)

\* A creation that is being tested saw room under the cap; since then there were
\* no more insertions than it has let pass.
RoomWasSeen == \A r \in Reqs :
    (req[r].kind = "create" /\ req[r].pc = "testing")
        => Cardinality(Live) < Cap + req[r].others

CapInv == RoomWasSeen /\ CapKeptButForOverlap

LEMMA LiveFinite == IsFiniteSet(Live) /\ IsFiniteSet(Live')
  BY BoundsAssumption, FS_Subset DEF Live

\* A step after which no more connections live and whose only new creation saw
\* room keeps the invariant.
LEMMA FewerLiveKeepsCap ==
  ASSUME VarsOK, CapInv, NEW r \in Reqs, VarsOK', OthersStay(r),
         Live' \subseteq Live, overshoot' = overshoot,
         \A q \in Reqs \ {r} : req'[q].others = req[q].others,
         (req'[r].kind = "create" /\ req'[r].pc = "testing")
            => Cardinality(Live) < Cap + req'[r].others
  PROVE  CapInv'
  <1>1. /\ Cardinality(Live') <= Cardinality(Live)
        /\ Cardinality(Live') \in Nat /\ Cardinality(Live) \in Nat /\ Cap \in Nat
    BY LiveFinite, FS_Subset, FS_CardinalityType, BoundsAssumption
  <1>2. CapKeptButForOverlap'
    BY <1>1 DEF CapInv, CapKeptButForOverlap, VarsOK
  <1>3. ASSUME NEW q \in Reqs, req'[q].kind = "create" /\ req'[q].pc = "testing"
        PROVE  Cardinality(Live') < Cap + req'[q].others
    <2>1. req'[q].others \in Nat
      BY DEF VarsOK, Request
    <2>2. Cardinality(Live) < Cap + req'[q].others
      BY <1>3 DEF OthersStay, CapInv, RoomWasSeen
    <2> QED
      BY <1>1, <2>1, <2>2
  <1> QED
    BY <1>2, <1>3 DEF CapInv, RoomWasSeen

\* A step that writes no connection and begins no creation.
Quiet(r) ==
    /\ \A q \in Reqs \ {r} : req'[q] = req[q]
    /\ req'[r].pc # "testing" \/ req'[r].kind # "create"
    /\ UNCHANGED <<name, overshoot>>

LEMMA EndingIsQuiet ==
  ASSUME VarsOK, NEW r \in Reqs, Ends(r), UNCHANGED <<name, overshoot>>
  PROVE  Quiet(r)
  BY DEF Quiet, Ends, VarsOK, Idle

LEMMA GoingIsQuiet ==
  ASSUME VarsOK, NEW r \in Reqs, NEW pc \in Pcs \ {"testing"}, Goes(r, pc),
         UNCHANGED <<name, overshoot>>
  PROVE  Quiet(r)
  BY DEF Quiet, Goes, VarsOK, Request

LEMMA StartingIsQuiet ==
  ASSUME VarsOK, NEW r \in Reqs, NEW kind \in Kinds \ {"create"}, NEW c, NEW n, NEW pc,
         StartsAt(r, kind, c, n, pc)
  PROVE  Quiet(r)
  BY DEF Quiet, StartsAt, VarsOK, Idle

\* No step brings the cap further from being kept than it says.
LEMMA CapStays ==
  ASSUME VarsOK, VarsOK', CapInv, NEW r \in Reqs, OthersStay(r), Step(r)
  PROVE  CapInv'
  <1>1. ASSUME Quiet(r) PROVE CapInv'
    BY <1>1, FewerLiveKeepsCap DEF Quiet, Live
  <1>2. ASSUME NEW n \in Names, CreateConnection(r, n) PROVE CapInv'
    <2>1. /\ UnderCap /\ UNCHANGED <<name, overshoot>>
          /\ \A q \in Reqs \ {r} : req'[q] = req[q]
          /\ req'[r].others = 0
      BY <1>2 DEF CreateConnection, StartsAt, VarsOK, Idle
    <2>2. Live' = Live
      BY <2>1 DEF Live
    <2>3. Cardinality(Live) < Cap + req'[r].others
      BY <1>2, <2>1, BoundsAreNat DEF UnderCap, CreateConnection
    <2> QED
      BY <2>1, <2>2, <2>3, FewerLiveKeepsCap
  <1>3. ASSUME NEW c \in Conns, NEW n \in Names \cup {KeepName}, UpdateConnection(r, c, n)
        PROVE  CapInv'
    BY <1>1, <1>3, StartingIsQuiet DEF UpdateConnection, Kinds
  <1>4. ASSUME NEW c \in Conns, DeleteConnection(r, c) \/ TestConnection(r, c) PROVE CapInv'
    BY <1>1, <1>4, StartingIsQuiet DEF DeleteConnection, TestConnection, Kinds
  <1>5. ASSUME Chat(r) \/ SampleChat(r) PROVE CapInv'
    BY <1>1, <1>5, StartingIsQuiet DEF Chat, SampleChat, Kinds
  <1>6. ASSUME NEW c \in Conns, Insert(r, c) PROVE CapInv'
    <2>1. /\ req[r].kind = "create" /\ req[r].pc = "testing" /\ name[c] = "unborn"
          /\ name' = [name EXCEPT ![c] = req[r].name]
          /\ overshoot' = IF req[r].others > overshoot THEN req[r].others ELSE overshoot
          /\ req' = Tell(Written(r), r, req[r].name)
      BY <1>6 DEF Insert
    <2>2. /\ Cardinality(Live) < Cap + req[r].others
          /\ req[r].others \in Nat /\ overshoot \in Nat /\ Cap \in Nat
          /\ Cardinality(Live) \in Nat
      BY <2>1, LiveFinite, FS_CardinalityType, BoundsAssumption
      DEF CapInv, RoomWasSeen, VarsOK, Request
    <2>3. Live' = Live \cup {c} /\ c \notin Live
      BY <2>1, BoundsAssumption DEF Live, VarsOK
    <2>4. Cardinality(Live') = Cardinality(Live) + 1
      BY <2>3, LiveFinite, FS_AddElement
    <2>5. CapKeptButForOverlap'
      BY <2>1, <2>2, <2>4 DEF CapKeptButForOverlap
    <2>6. ASSUME NEW q \in Reqs, req'[q].kind = "create" /\ req'[q].pc = "testing"
          PROVE  Cardinality(Live') < Cap + req'[q].others
      <3>1. Written(r) \in [Reqs -> Request] /\ Written(r)[r].pc = "refreshing"
        BY WrittenOK
      <3>2. q # r
        BY <2>1, <2>6, <3>1, TellOK
      <3>3. Written(r)[q] = req[q] /\ req[q].kind = "create" /\ req[q].pc = "testing"
        BY <2>6, <3>2, WrittenOK DEF OthersStay
      <3>4. req'[q].others = req[q].others + 1 /\ req[q].others \in Nat
        BY <2>1, <3>1, <3>2, <3>3, TellOK DEF VarsOK, Request
      <3>5. Cardinality(Live) < Cap + req[q].others
        BY <3>3 DEF CapInv, RoomWasSeen
      <3> QED
        BY <2>2, <2>4, <3>4, <3>5
    <2> QED
      BY <2>5, <2>6 DEF CapInv, RoomWasSeen
  <1>7. ASSUME CommitUpdate(r) PROVE CapInv'
    <2>1. CASE req[r].conn \in Live /\ req[r].name # KeepName
      <3>1. /\ name' = [name EXCEPT ![req[r].conn] = req[r].name]
            /\ req' = Tell(Written(r), r, req[r].name) /\ overshoot' = overshoot
            /\ req[r].kind = "update" /\ req[r].name \in Names
        BY <1>7, <2>1 DEF CommitUpdate, VarsOK, Request
      <3>2. Live' = Live
        BY <2>1, <3>1 DEF Live, VarsOK
      <3>3. Written(r) \in [Reqs -> Request] /\ Written(r)[r].pc = "refreshing"
        BY WrittenOK
      <3>4. req'[r].pc = "refreshing"
        BY <3>1, <3>3, TellOK
      <3>5. ASSUME NEW q \in Reqs, req'[q].kind = "create" /\ req'[q].pc = "testing"
            PROVE  Cardinality(Live') < Cap + req'[q].others
        <4>1. q # r
          BY <3>4, <3>5
        <4>2. Written(r)[q] = req[q] /\ req[q].kind = "create" /\ req[q].pc = "testing"
          BY <3>5, <4>1, WrittenOK DEF OthersStay
        <4>3. req'[q].others = req[q].others + 0 /\ req[q].others \in Nat
          BY <3>1, <3>3, <4>1, <4>2, TellOK DEF VarsOK, Request
        <4> QED
          BY <3>2, <4>2, <4>3 DEF CapInv, RoomWasSeen
      <3> QED
        BY <3>1, <3>2, <3>5 DEF CapInv, RoomWasSeen, CapKeptButForOverlap
    <2>2. CASE req[r].conn \in Live /\ req[r].name = KeepName
      <3>1. req' = Written(r) /\ UNCHANGED <<name, overshoot>>
        BY <1>7, <2>2 DEF CommitUpdate
      <3> QED
        BY <1>1, <3>1, WrittenOK DEF Quiet
    <2>3. CASE req[r].conn \notin Live
      BY <1>1, <1>7, <2>3, EndingIsQuiet DEF CommitUpdate
    <2> QED
      BY <2>1, <2>2, <2>3
  <1>8. ASSUME CommitDelete(r) PROVE CapInv'
    <2>1. /\ name' = [name EXCEPT ![req[r].conn] = "gone"] /\ overshoot' = overshoot
          /\ req' = [req EXCEPT ![r] = Idle]
      BY <1>8 DEF CommitDelete, Ends
    <2>2. ASSUME NEW c \in Conns, name'[c] \in Names PROVE name[c] \in Names
      <3>1. "gone" \notin Names
        BY BoundsAssumption
      <3> QED
        BY <2>1, <2>2, <3>1 DEF VarsOK
    <2>3. Live' \subseteq Live
      BY <2>2 DEF Live
    <2>4. req'[r].pc = "idle" /\ \A q \in Reqs \ {r} : req'[q] = req[q]
      BY <2>1 DEF VarsOK, Idle
    <2> QED
      BY <2>1, <2>3, <2>4, FewerLiveKeepsCap
  <1>9. ASSUME CommitTest(r) \/ CommitFails(r) \/ Refresh(r) \/ Evict(r) PROVE CapInv'
    BY <1>1, <1>9, EndingIsQuiet, GoingIsQuiet DEF CommitTest, CommitFails, Refresh, Evict, Pcs
  <1>10. ASSUME Charge(r) \/ TakeGuard(r) \/ RunNodes(r) \/ AskForEngine(r) PROVE CapInv'
    BY <1>1, <1>10, EndingIsQuiet, GoingIsQuiet DEF Charge, TakeGuard, RunNodes, AskForEngine, Pcs
  <1>11. ASSUME \/ BuildEngine(r) \/ StoreAnswer(r) \/ TimeOut(r) \/ GiveUpEngine(r)
                \/ Disconnect(r)
         PROVE  CapInv'
    BY <1>1, <1>11, EndingIsQuiet, GoingIsQuiet
    DEF BuildEngine, StoreAnswer, TimeOut, GiveUpEngine, Disconnect, Pcs
  <1> QED
    BY <1>2, <1>3, <1>4, <1>5, <1>6, <1>7, <1>8, <1>9, <1>10, <1>11 DEF Step, Continue

-----------------------------------------------------------------------------
(* Names *)

\* An update that will give its connection a name, which nobody was given since.
Claims(r) ==
    /\ req[r].kind = "update" /\ req[r].pc \in {"evicting", "committing"}
    /\ req[r].name # KeepName /\ ~req[r].raced

ClaimIsFree(r) == \A d \in Live \ {req[r].conn} : name[d] # req[r].name

NameWasFree == \A r \in Reqs : Claims(r) => ClaimIsFree(r)

\* No name is given, and what r claims afterwards it claimed before or has found
\* free now.
LEMMA FreeNamesStay ==
  ASSUME VarsOK, NameWasFree, NEW r \in Reqs, \A q \in Reqs \ {r} : req'[q] = req[q],
         \A d \in Live' : d \in Live /\ name'[d] = name[d],
         Claims(r)' => \/ /\ Claims(r)
                          /\ req'[r].conn = req[r].conn /\ req'[r].name = req[r].name
                       \/ ClaimIsFree(r)'
  PROVE  NameWasFree'
  <1>1. ASSUME NEW q \in Reqs \ {r}, Claims(q)' PROVE ClaimIsFree(q)'
    <2>1. Claims(q) /\ req'[q].conn = req[q].conn /\ req'[q].name = req[q].name
      BY <1>1 DEF Claims
    <2> QED
      BY <2>1 DEF NameWasFree, ClaimIsFree
  <1>2. ASSUME Claims(r)' PROVE ClaimIsFree(r)'
    BY <1>2 DEF NameWasFree, ClaimIsFree
  <1> QED
    BY <1>1, <1>2 DEF NameWasFree

\* The writer of a name tells every update that has checked it.
LEMMA TellTells ==
  ASSUME VarsOK, NEW r \in Reqs, NEW n, req' = Tell(Written(r), r, n)
  PROVE  /\ ~Claims(r)'
         /\ \A q \in Reqs \ {r} : Claims(q)' =>
              /\ Claims(q) /\ req[q].name # n
              /\ req'[q].conn = req[q].conn /\ req'[q].name = req[q].name
  <1>1. Written(r) \in [Reqs -> Request] /\ Written(r)[r].pc = "refreshing"
    BY WrittenOK
  <1>2. req'[r].pc = "refreshing"
    BY <1>1, TellOK
  <1>3. ASSUME NEW q \in Reqs \ {r}, Claims(q)'
        PROVE  /\ Claims(q) /\ req[q].name # n
               /\ req'[q].conn = req[q].conn /\ req'[q].name = req[q].name
    <2>1. Written(r)[q] = req[q] /\ req[q] \in Request
      BY WrittenOK DEF VarsOK
    <2>2. /\ req'[q].kind = req[q].kind /\ req'[q].pc = req[q].pc
          /\ req'[q].name = req[q].name
      BY <1>1, <2>1, TellOK
    <2>3. req[q].kind = "update" /\ req[q].pc \in {"evicting", "committing"}
      BY <1>3, <2>2 DEF Claims
    <2>4. req'[q] = [req[q] EXCEPT !.raced = req[q].raced \/ req[q].name = n]
      BY <2>1, <2>3 DEF Tell
    <2>5. /\ req'[q].conn = req[q].conn
          /\ req'[q].raced <=> (req[q].raced \/ req[q].name = n)
      BY <2>1, <2>4 DEF Request
    <2> QED
      BY <1>3, <2>2, <2>5 DEF Claims
  <1> QED
    BY <1>2, <1>3 DEF Claims

LEMMA WritingKeepsFree ==
  ASSUME VarsOK, NameWasFree, NEW r \in Reqs, NEW c \in Conns, NEW n \in Names,
         name' = [name EXCEPT ![c] = n], req' = Tell(Written(r), r, n)
  PROVE  NameWasFree'
  <1>1. \A d \in Live' : \/ d = c /\ name'[d] = n
                         \/ d \in Live /\ name'[d] = name[d]
    BY DEF VarsOK, Live
  <1>2. ASSUME NEW q \in Reqs, Claims(q)' PROVE ClaimIsFree(q)'
    <2>1. /\ Claims(q) /\ req[q].name # n
          /\ req'[q].conn = req[q].conn /\ req'[q].name = req[q].name
      BY <1>2, TellTells
    <2> QED
      BY <1>1, <2>1 DEF NameWasFree, ClaimIsFree
  <1> QED
    BY <1>2 DEF NameWasFree

LEMMA NamesStayFree ==
  ASSUME VarsOK, NameWasFree, NEW r \in Reqs, Step(r)
  PROVE  NameWasFree'
  <1>1. ASSUME Ends(r), \A d \in Live' : d \in Live /\ name'[d] = name[d]
        PROVE  NameWasFree'
    <2>1. req'[r].pc = "idle" /\ \A q \in Reqs \ {r} : req'[q] = req[q]
      BY <1>1 DEF Ends, VarsOK, Idle
    <2> QED
      BY <1>1, <2>1, FreeNamesStay DEF Claims
  <1>2. ASSUME NEW pc \in Pcs, Goes(r, pc), UNCHANGED name,
               pc = "committing" => req[r].pc = "evicting",
               pc = "evicting" => req[r].kind = "test"
        PROVE  NameWasFree'
    <2>1. /\ \A q \in Reqs \ {r} : req'[q] = req[q]
          /\ req'[r] = [req[r] EXCEPT !.pc = pc] /\ req[r] \in Request
      BY <1>2 DEF Goes, VarsOK
    <2>2. /\ req'[r].pc = pc /\ req'[r].kind = req[r].kind /\ req'[r].name = req[r].name
          /\ req'[r].conn = req[r].conn /\ req'[r].raced = req[r].raced
      BY <2>1 DEF Request
    <2>3. \A d \in Live' : d \in Live /\ name'[d] = name[d]
      BY <1>2 DEF Live
    <2> QED
      BY <1>2, <2>1, <2>2, <2>3, FreeNamesStay DEF Claims
  <1>3. ASSUME NEW kind \in Kinds, NEW c \in Conns, NEW n \in Names \cup {KeepName}, NEW pc,
               StartsAt(r, kind, c, n, pc),
               kind = "update" => n = KeepName \/ ~NameTaken(c, n)
        PROVE  NameWasFree'
    <2>1. /\ \A q \in Reqs \ {r} : req'[q] = req[q]
          /\ req'[r].kind = kind /\ req'[r].conn = c /\ req'[r].name = n
          /\ UNCHANGED name
      BY <1>3 DEF StartsAt, VarsOK, Idle
    <2>2. \A d \in Live' : d \in Live /\ name'[d] = name[d]
      BY <2>1 DEF Live
    <2>3. Claims(r)' => ClaimIsFree(r)'
      BY <1>3, <2>1, <2>2 DEF Claims, ClaimIsFree, NameTaken
    <2> QED
      BY <2>1, <2>2, <2>3, FreeNamesStay
  <1>4. Idle.conn \in Conns
    BY IdleIsRequest DEF Request
  <1>5. ASSUME \/ \E n \in Names : CreateConnection(r, n)
               \/ \E c \in Conns : DeleteConnection(r, c) \/ TestConnection(r, c)
               \/ Chat(r) \/ SampleChat(r)
        PROVE  NameWasFree'
    BY <1>3, <1>4, <1>5
    DEF CreateConnection, DeleteConnection, TestConnection, Chat, SampleChat, Kinds
  <1>6. ASSUME NEW c \in Conns, NEW n \in Names \cup {KeepName}, UpdateConnection(r, c, n)
        PROVE  NameWasFree'
    BY <1>3, <1>6 DEF UpdateConnection, Kinds
  <1>7. ASSUME NEW c \in Conns, Insert(r, c) PROVE NameWasFree'
    BY <1>7, WritingKeepsFree DEF Insert, VarsOK
  <1>8. ASSUME CommitUpdate(r) PROVE NameWasFree'
    <2> DEFINE c == req[r].conn
    <2>1. c \in Conns /\ req[r].name \in Names \cup {KeepName}
      BY DEF VarsOK, Request
    <2>2. CASE c \in Live /\ req[r].name # KeepName
      BY <1>8, <2>1, <2>2, WritingKeepsFree DEF CommitUpdate
    <2>3. CASE c \in Live /\ req[r].name = KeepName
      <3>1. req' = Written(r) /\ UNCHANGED name
        BY <1>8, <2>3 DEF CommitUpdate
      <3>2. req'[r].pc = "refreshing" /\ \A q \in Reqs \ {r} : req'[q] = req[q]
        BY <3>1, WrittenOK
      <3> QED
        BY <3>1, <3>2, FreeNamesStay DEF Claims, Live
    <2>4. CASE c \notin Live
      BY <1>1, <1>8, <2>4 DEF CommitUpdate, Live
    <2> QED
      BY <2>2, <2>3, <2>4
  <1>9. ASSUME CommitDelete(r) PROVE NameWasFree'
    <2>1. name' = [name EXCEPT ![req[r].conn] = "gone"] /\ Ends(r)
      BY <1>9 DEF CommitDelete
    <2>2. \A d \in Live' : d \in Live /\ name'[d] = name[d]
      BY <2>1, BoundsAssumption DEF Live, VarsOK
    <2> QED
      BY <1>1, <2>1, <2>2
  <1>10. ASSUME CommitTest(r) \/ CommitFails(r) \/ Refresh(r) \/ Evict(r) PROVE NameWasFree'
    BY <1>1, <1>2, <1>10 DEF CommitTest, CommitFails, Refresh, Evict, Pcs, Live
  <1>11. ASSUME Charge(r) \/ TakeGuard(r) \/ RunNodes(r) \/ AskForEngine(r) PROVE NameWasFree'
    BY <1>1, <1>2, <1>11 DEF Charge, TakeGuard, RunNodes, AskForEngine, Pcs, Live
  <1>12. ASSUME \/ BuildEngine(r) \/ StoreAnswer(r) \/ TimeOut(r) \/ GiveUpEngine(r)
                \/ Disconnect(r)
         PROVE  NameWasFree'
    BY <1>1, <1>2, <1>12
    DEF BuildEngine, StoreAnswer, TimeOut, GiveUpEngine, Disconnect, Pcs, Live
  <1> QED
    BY <1>5, <1>6, <1>7, <1>8, <1>9, <1>10, <1>11, <1>12 DEF Step, Continue

\* The name that a step gives was claimed, or it is a new connection's.
LEMMA ClashIsRaced ==
  ASSUME VarsOK, NameWasFree, NEW r \in Reqs, Step(r),
         NEW c \in Conns, NEW d \in Conns, c # d, name'[c] \in Names, name'[d] = name'[c],
         name[c] # name'[c]
  PROVE  \/ name[c] = "unborn"
         \/ \E q \in Reqs : req[q].pc = "committing" /\ req[q].conn = c /\ req[q].raced
  <1>1. \/ \E e \in Conns : Insert(r, e)
        \/ CommitUpdate(r) \/ CommitDelete(r) \/ name' = name
    BY DEF Step, Continue, CreateConnection, UpdateConnection, DeleteConnection, TestConnection,
       Chat, SampleChat, StartsAt, CommitTest, CommitFails, Refresh, Evict, Charge, TakeGuard,
       RunNodes, AskForEngine, BuildEngine, StoreAnswer, TimeOut, GiveUpEngine, Disconnect
  <1>2. ASSUME NEW e \in Conns, Insert(r, e) PROVE name[c] = "unborn"
    BY <1>2 DEF Insert, VarsOK
  <1>3. ~CommitDelete(r)
    BY BoundsAssumption DEF CommitDelete, VarsOK
  <1>4. ASSUME CommitUpdate(r)
        PROVE  req[r].pc = "committing" /\ req[r].conn = c /\ req[r].raced
    <2>1. /\ req[r].kind = "update" /\ req[r].pc = "committing" /\ req[r].name # KeepName
          /\ name' = [name EXCEPT ![req[r].conn] = req[r].name]
      BY <1>4 DEF CommitUpdate
    <2>2. c = req[r].conn /\ name'[c] = req[r].name /\ name'[d] = name[d]
      BY <2>1 DEF VarsOK
    <2>3. d \in Live \ {req[r].conn} /\ name[d] = req[r].name
      BY <2>2 DEF Live
    <2> QED
      BY <2>1, <2>2, <2>3 DEF NameWasFree, Claims, ClaimIsFree
  <1> QED
    BY <1>1, <1>2, <1>3, <1>4

-----------------------------------------------------------------------------
(* Standstills *)

AppInv == VarsOK /\ BoundsKept /\ CapInv

\* In a standstill somebody who is waiting for the application's pool finds it
\* full, or somebody is waiting for a guard that is: whichever resource is asked
\* for, the chain of who has it ends there.
LEMMA StandstillChain ==
  ASSUME VarsOK, Standstill
  PROVE  /\ ~FreeConnection
         /\ \E r \in Reqs : WaitsForPool(r)
  <1>1. PICK r \in Reqs : req[r].pc # "idle" /\ Waits(r)
    BY DEF Standstill
  <1>2. ASSUME NEW q \in Reqs, NeedsConnection(q), ~FreeConnection
        PROVE  ~FreeConnection /\ \E p \in Reqs : WaitsForPool(p)
    BY <1>2 DEF WaitsForPool
  <1>3. ASSUME ~FreeEngines PROVE ~FreeConnection /\ \E p \in Reqs : WaitsForPool(p)
    <2>1. PICK q \in Reqs : req[q].pc = "building"
      BY <1>3 DEF FreeEngines
    <2>2. NeedsConnection(q) /\ Waits(q)
      BY <2>1 DEF Standstill, NeedsConnection
    <2>3. ~FreeConnection
      BY <2>1, <2>2 DEF Waits
    <2> QED
      BY <1>2, <2>2, <2>3
  <1>4. ASSUME ~FreeLock PROVE ~FreeConnection /\ \E p \in Reqs : WaitsForPool(p)
    <2>1. PICK q \in Reqs : Guarded(q)
      <3>1. SUFFICES ASSUME GuardedOnes = {} PROVE FALSE
        BY DEF GuardedOnes
      <3>2. Cardinality(GuardedOnes) = 0 /\ 0 < LockSize
        BY <3>1, FS_EmptySet, BoundsAreNat
      <3> QED
        BY <1>4, <3>2 DEF FreeLock, GuardedOnes
    <2>2. Waits(q) /\ req[q].pc \in {"running", "asking", "building", "storing"}
      BY <2>1 DEF Guarded, Standstill
    <2>3. \/ NeedsConnection(q) /\ ~FreeConnection
          \/ ~FreeEngines
      BY <2>2 DEF Waits
    <2> QED
      BY <1>2, <1>3, <2>3
  <1> QED
    BY <1>1, <1>2, <1>3, <1>4 DEF Waits

LEMMA StandstillHolders ==
  ASSUME VarsOK, Standstill
  PROVE  StandstillNeedsAFullPool /\ StandstillsTimeOut
  <1> DEFINE Stuck == {r \in Reqs : Holds(r) /\ req[r].pc \in {"evicting", "charging"}}
  <1>1. Stuck = Holders
    <2>1. ASSUME NEW r \in Reqs, Holds(r) PROVE req[r].pc \in {"evicting", "charging"}
      <3>1. req[r].pc \notin {"idle", "testing", "committing"}
        BY <2>1 DEF Standstill, Holds, Waits, NeedsConnection
      <3> QED
        BY <2>1, <3>1 DEF Holds
    <2> QED
      BY <2>1 DEF Stuck, Holders
  <1>2. ~FreeConnection
    BY StandstillChain
  <1>3. Cardinality(Stuck) >= Size
    <2>1. Stuck \subseteq Holders /\ Holders \subseteq Stuck
      BY <1>1 DEF Stuck, Holders
    <2>2. Stuck = Holders
      BY <2>1
    <2>3. ~(Cardinality(Holders) < Size)
      BY <1>2 DEF FreeConnection, Holders
    <2>4. Cardinality(Holders) \in Nat
      BY RequestSetsFinite, FS_CardinalityType
    <2> QED
      BY <2>2, <2>3, <2>4, BoundsAreNat
  <1> QED
    BY <1>3, StandstillChain DEF StandstillNeedsAFullPool, StandstillsTimeOut

-----------------------------------------------------------------------------
(* The theorems *)

LEMMA InitAppInv == Init => AppInv
  <1> SUFFICES ASSUME Init PROVE AppInv
    OBVIOUS
  <1>1. VarsOK
    BY IdleIsRequest DEF Init, VarsOK, Idle
  <1>2. \A r \in Reqs : req[r].pc = "idle"
    BY DEF Init, Idle
  <1>3. BoundsKept
    <2>1. Holders = {} /\ GuardedOnes = {} /\ Builders = {}
      BY <1>2 DEF Holders, GuardedOnes, Builders, Holds, Guarded
    <2> QED
      BY <2>1, FS_EmptySet, BoundsAreNat DEF BoundsKept
  <1>4. CapKeptButForOverlap
    <2>1. "unborn" \notin Names
      BY BoundsAssumption
    <2>2. Live = {} /\ overshoot = 0
      BY <2>1 DEF Init, Live
    <2> QED
      BY <2>2, FS_EmptySet, BoundsAreNat DEF CapKeptButForOverlap
  <1>5. RoomWasSeen
    BY <1>2 DEF RoomWasSeen
  <1> QED
    BY <1>1, <1>3, <1>4, <1>5 DEF AppInv, CapInv

LEMMA NextAppInv == AppInv /\ [Next]_appVars => AppInv'
  <1> SUFFICES ASSUME AppInv, [Next]_appVars PROVE AppInv'
    OBVIOUS
  <1>1. ASSUME NEW r \in Reqs, Step(r) PROVE AppInv'
    BY <1>1, StepsAreSound, BoundsStay, CapStays DEF AppInv
  <1>2. CASE UNCHANGED appVars
    BY <1>2 DEF AppInv, VarsOK, BoundsKept, CapInv, RoomWasSeen, CapKeptButForOverlap,
                appVars, Holders, GuardedOnes, Builders, Live, Holds, Guarded
  <1> QED
    BY <1>1, <1>2, NextIsStep

LEMMA AlwaysAppInv == Spec => []AppInv
  BY InitAppInv, NextAppInv, PTL DEF Spec

\* Types, and that neither pool nor the engine lock is ever given out beyond its
\* bound, for pools of every size.
THEOREM AppTypeCorrect == Spec => []AppTypeOK
  <1>1. AppInv => AppTypeOK
    BY DEF AppInv, VarsOK, BoundsKept, AppTypeOK, Holders, GuardedOnes, Builders
  <1> QED
    BY <1>1, AlwaysAppInv, PTL

\* However many creations of connections are tested together, the cap is exceeded
\* by at most as many as overlapped one of them.
THEOREM CapHoldsButForOverlap == Spec => []CapKeptButForOverlap
  <1>1. AppInv => CapKeptButForOverlap
    BY DEF AppInv, CapInv
  <1> QED
    BY <1>1, AlwaysAppInv, PTL

\* A worker stands still only if its pool is full of evictions and of sample
\* visitors being charged, for pools of every size.
THEOREM StandstillsHaveAFullPool == Spec => []StandstillNeedsAFullPool
  <1>1. AppInv => StandstillNeedsAFullPool
    BY StandstillHolders DEF AppInv, StandstillNeedsAFullPool
  <1> QED
    BY <1>1, AlwaysAppInv, PTL

\* No wait between the pools, the guard and the engine lock is without an end:
\* in every standstill a pool's timeout is running.
THEOREM NoLastingStandstill == Spec => []StandstillsTimeOut
  <1>1. AppInv => StandstillsTimeOut
    BY StandstillHolders DEF AppInv, StandstillsTimeOut
  <1> QED
    BY <1>1, AlwaysAppInv, PTL

\* Two connections of a user get one name only by a creation, or by an update
\* whose name was given away between its check and its commit.
THEOREM ClashesAreRaced == Spec => ClashOnlyByRace
  <1>1. Init => NameWasFree
    BY DEF Init, NameWasFree, Claims, Idle
  <1>2. AppInv /\ NameWasFree /\ [Next]_appVars => NameWasFree'
    <2>1. AppInv /\ NameWasFree /\ Next => NameWasFree'
      BY NextIsStep, NamesStayFree DEF AppInv
    <2>2. NameWasFree /\ UNCHANGED appVars => NameWasFree'
      BY DEF appVars, NameWasFree, Claims, ClaimIsFree, Live
    <2> QED
      BY <2>1, <2>2
  <1>3. AppInv /\ NameWasFree /\ [Next]_appVars =>
          [\A c, d \in Conns :
             (c # d /\ name'[c] \in Names /\ name'[d] = name'[c] /\ name[c] # name'[c])
               => \/ name[c] = "unborn"
                  \/ \E r \in Reqs : /\ req[r].pc = "committing" /\ req[r].conn = c
                                     /\ req[r].raced]_appVars
    BY NextIsStep, ClashIsRaced DEF AppInv
  <1> QED
    BY <1>1, <1>2, <1>3, AlwaysAppInv, PTL DEF Spec, ClashOnlyByRace
=============================================================================
