------------------------------- MODULE AppPool -------------------------------
(***************************************************************************)
(* How the requests of one worker share what is bounded: the connections   *)
(* of the application database's pool (db.py), those of the lock engine    *)
(* (workflow_security.py), the lock of the engine cache (engine_pool.py),  *)
(* and one user's allowance of saved connections                           *)
(* (connections_router.py).  A statement that needs a connection for no    *)
(* longer than itself is one step; a request that keeps one while it       *)
(* awaits something else has it in Holds.                                  *)
(***************************************************************************)
EXTENDS Integers, FiniteSets

CONSTANTS
    Reqs,       \* request slots of the worker
    Conns,      \* ids of saved connections, each created at most once
    Names,      \* names a user gives to connections
    Size,       \* app_db_pool_size + app_db_pool_overflow
    LockSize,   \* lock_db_pool_size + lock_db_pool_overflow
    Cap         \* max_connections_per_user

ASSUME BoundsAssumption ==
    /\ Size \in Nat \ {0} /\ LockSize \in Nat \ {0} /\ Cap \in Nat
    /\ IsFiniteSet(Reqs) /\ IsFiniteSet(Conns)
    /\ Conns # {} /\ Names # {}
    /\ Names \cap {"unborn", "gone", "as it was"} = {}

VARIABLES
    req,        \* what each request is doing
    name,       \* name[c]: the name in the row of c, "unborn" or "gone"
    overshoot   \* history: most insertions one creation has let pass between
                \* its cap check and its own insertion

appVars == <<req, name, overshoot>>

Kinds == {"create", "update", "delete", "test", "chat", "sample"}

Pcs == {"idle", "testing", "evicting", "committing", "refreshing",
        "charging", "locking", "running", "asking", "building", "storing"}

KeepName == "as it was"

\* others: history, connections inserted since this creation's cap check.
\* raced: history, the name this update checked was given away since.
Request == [pc : Pcs, kind : Kinds, conn : Conns, name : Names \cup {KeepName},
            others : Nat, raced : BOOLEAN]

Idle == [pc |-> "idle", kind |-> "chat", conn |-> CHOOSE c \in Conns : TRUE,
         name |-> KeepName, others |-> 0, raced |-> FALSE]

Live == {c \in Conns : name[c] \in Names}

\* A handler's session keeps its connection from its first statement to its
\* commit; a sample visitor's is charged in a second session before that.
Holds(r) ==
    \/ req[r].pc \in {"testing", "evicting", "committing"}
    \/ req[r].pc = "charging" /\ req[r].kind = "sample"

\* The guard's transaction keeps its own connection while the run goes on.
Guarded(r) == req[r].pc \in {"running", "asking", "building", "storing"}

\* Mutant of FreeConnection: guard transactions come from this pool too.
FreeConnectionOfOne == Cardinality({r \in Reqs : Holds(r) \/ Guarded(r)}) < Size

FreeConnection == Cardinality({r \in Reqs : Holds(r)}) < Size

FreeLock == Cardinality({r \in Reqs : Guarded(r)}) < LockSize

\* The engine cache's lock is kept over an await only to build an engine.
FreeEngines == \A r \in Reqs : req[r].pc # "building"

AppTypeOK ==
    /\ req \in [Reqs -> Request]
    /\ name \in [Conns -> Names \cup {"unborn", "gone"}]
    /\ overshoot \in Nat
    /\ Cardinality({r \in Reqs : Holds(r)}) <= Size
    /\ Cardinality({r \in Reqs : Guarded(r)}) <= LockSize
    /\ Cardinality({r \in Reqs : req[r].pc = "building"}) <= 1

Init ==
    /\ req = [r \in Reqs |-> Idle]
    /\ name = [c \in Conns |-> "unborn"]
    /\ overshoot = 0

Goes(r, pc) == req' = [req EXCEPT ![r].pc = pc]
Ends(r) == req' = [req EXCEPT ![r] = Idle]

-----------------------------------------------------------------------------
(* A request begins with its first connection, on which it reads the account   *)
(* and goes as far as its first wait.  Before that it holds nothing; while it  *)
(* waits it is not begun.                                                      *)

StartsAt(r, kind, c, n, pc) ==
    /\ req[r].pc = "idle" /\ FreeConnection
    /\ req' = [req EXCEPT ![r] =
                 [Idle EXCEPT !.pc = pc, !.kind = kind, !.conn = c, !.name = n]]
    /\ UNCHANGED <<name, overshoot>>

\* Mutant of UnderCap: off by one.
UnderCapOrAt == Cardinality(Live) <= Cap

UnderCap == Cardinality(Live) < Cap

\* The cap, then the test of the customer's database: seconds.  Refused, the
\* request ends where it began; so below.
CreateConnection(r, n) ==
    UnderCap /\ StartsAt(r, "create", Idle.conn, n, "testing")

\* Mutant of NameTaken: the name is compared with the connection's own row.
NameTakenByItself(c, n) == name[c] = n

NameTaken(c, n) == \E d \in Live \ {c} : name[d] = n

\* A new name is checked, and written only if it differs from the loaded one; a
\* new password evicts the engine before the commit.
UpdateConnection(r, c, n) ==
    /\ c \in Live /\ ~NameTaken(c, n)
    /\ \E pc \in {"evicting", "committing"} :
         StartsAt(r, "update", c, IF n = name[c] THEN KeepName ELSE n, pc)

DeleteConnection(r, c) == c \in Live /\ StartsAt(r, "delete", c, KeepName, "evicting")

TestConnection(r, c) == c \in Live /\ StartsAt(r, "test", c, KeepName, "testing")

\* /chat and /chat/review of an account: the question is stored and the session
\* closed before the stream begins, which charges in a session of its own.
Chat(r) == StartsAt(r, "chat", Idle.conn, KeepName, "charging")

\* Those of a sample visitor: charged while the handler's session is open.
SampleChat(r) == StartsAt(r, "sample", Idle.conn, KeepName, "charging")

-----------------------------------------------------------------------------
(* The handlers of /connections *)

\* What the writer of name n changes in those that have checked and not written.
Tell(rs, r, n) ==
    [q \in Reqs |->
       IF q = r THEN rs[q]
       ELSE IF rs[q].kind = "create" /\ rs[q].pc = "testing"
              THEN [rs[q] EXCEPT !.others = @ + (IF req[r].kind = "create" THEN 1 ELSE 0)]
       ELSE IF rs[q].kind = "update" /\ rs[q].pc \in {"evicting", "committing"}
              THEN [rs[q] EXCEPT !.raced = @ \/ rs[q].name = n]
       ELSE rs[q]]

\* After the commit only the row is read again.
Written(r) == [req EXCEPT ![r] = [Idle EXCEPT !.pc = "refreshing", !.kind = req[r].kind]]

\* Inserted whatever its name: the schema has no constraint on it.
Insert(r, c) ==
    /\ req[r].pc = "testing" /\ req[r].kind = "create"
    /\ name[c] = "unborn"
    /\ name' = [name EXCEPT ![c] = req[r].name]
    /\ overshoot' = IF req[r].others > overshoot THEN req[r].others ELSE overshoot
    /\ req' = Tell(Written(r), r, req[r].name)

\* A row deleted meanwhile fails the request, here and below.
CommitTest(r) ==
    /\ req[r].pc = "testing" /\ req[r].kind = "test"
    /\ IF req[r].conn \in Live THEN Goes(r, "refreshing") ELSE Ends(r)
    /\ UNCHANGED <<name, overshoot>>

CommitUpdate(r) ==
    LET c == req[r].conn IN
    /\ req[r].pc = "committing" /\ req[r].kind = "update"
    /\ \/ /\ c \in Live /\ req[r].name # KeepName
          /\ name' = [name EXCEPT ![c] = req[r].name]
          /\ req' = Tell(Written(r), r, req[r].name)
       \/ /\ c \in Live /\ req[r].name = KeepName
          /\ req' = Written(r)
          /\ UNCHANGED name
       \/ c \notin Live /\ Ends(r) /\ UNCHANGED name
    /\ UNCHANGED overshoot

CommitDelete(r) ==
    /\ req[r].pc = "committing" /\ req[r].kind = "delete"
    /\ name' = [name EXCEPT ![req[r].conn] = "gone"]
    /\ Ends(r)
    /\ UNCHANGED overshoot

\* The database refuses or is gone: rolled back, and the request fails.
CommitFails(r) ==
    /\ req[r].pc \in {"testing", "committing"}
    /\ Ends(r)
    /\ UNCHANGED <<name, overshoot>>

\* session.refresh after a commit takes a connection again; a test goes on to
\* evict the engine and keeps it meanwhile.
Refresh(r) ==
    /\ req[r].pc = "refreshing" /\ FreeConnection
    /\ IF req[r].kind = "test" /\ req[r].conn \in Live
         THEN Goes(r, "evicting") ELSE Ends(r)
    /\ UNCHANGED <<name, overshoot>>

\* engine_pool.remove waits for the engine lock, for as long as it takes.
Evict(r) ==
    /\ req[r].pc = "evicting" /\ FreeEngines
    /\ IF req[r].kind = "test" THEN Ends(r) ELSE Goes(r, "committing")
    /\ UNCHANGED <<name, overshoot>>

-----------------------------------------------------------------------------
(* Chats: charged, guarded, run and answered *)

\* Counted, or refused over the quota; a sample visitor's handler then stores
\* the question and closes its session.
Charge(r) ==
    /\ req[r].pc = "charging" /\ FreeConnection
    /\ Goes(r, "locking") \/ Ends(r)
    /\ UNCHANGED <<name, overshoot>>

\* The advisory locks, on a connection of the lock engine, or the refusal.
TakeGuard(r) ==
    /\ req[r].pc = "locking" /\ FreeLock
    /\ Goes(r, "running") \/ Ends(r)
    /\ UNCHANGED <<name, overshoot>>

\* A node reads keys or references, and goes on to ask for the engine of an
\* account's own database, to the answer, or to the pause for a review.
RunNodes(r) ==
    /\ req[r].pc = "running" /\ FreeConnection
    /\ \/ req[r].kind = "chat" /\ Goes(r, "asking")
       \/ Goes(r, "storing")
       \/ Ends(r)
    /\ UNCHANGED <<name, overshoot>>

\* get_engine under the lock: cached, or built by whoever asked.
AskForEngine(r) ==
    /\ req[r].pc = "asking" /\ FreeEngines
    /\ Goes(r, "storing") \/ Goes(r, "building")
    /\ UNCHANGED <<name, overshoot>>

\* _build_engine reads the credentials in a session of its own.
BuildEngine(r) ==
    /\ req[r].pc = "building" /\ FreeConnection
    /\ Goes(r, "storing")
    /\ UNCHANGED <<name, overshoot>>

StoreAnswer(r) ==
    /\ req[r].pc = "storing" /\ FreeConnection
    /\ Ends(r)
    /\ UNCHANGED <<name, overshoot>>

\* The browser goes away: a generator is cancelled and gives everything back.
Disconnect(r) ==
    /\ \/ Guarded(r) \/ req[r].pc = "locking"
       \/ req[r].pc = "charging" /\ ~Holds(r)
    /\ Ends(r)
    /\ UNCHANGED <<name, overshoot>>

-----------------------------------------------------------------------------
(* Timeouts and the specification *)

NeedsConnection(r) ==
    req[r].pc \in {"refreshing", "charging", "running", "building", "storing"}

\* Mutant of WaitsForPool: whoever builds an engine waits for a connection
\* without a timeout.
WaitsForPoolButBuilding(r) ==
    \/ NeedsConnection(r) /\ req[r].pc # "building" /\ ~FreeConnection
    \/ req[r].pc = "locking" /\ ~FreeLock

WaitsForPool(r) ==
    \/ NeedsConnection(r) /\ ~FreeConnection
    \/ req[r].pc = "locking" /\ ~FreeLock

\* A wait for either pool fails after its pool_timeout (30 s and 5 s), and with
\* it the request; all that it holds is given back.
TimeOut(r) ==
    /\ WaitsForPool(r)
    /\ Ends(r)
    /\ UNCHANGED <<name, overshoot>>

\* execute_sql gives get_engine six seconds, whoever has the lock.
GiveUpEngine(r) ==
    /\ req[r].pc \in {"asking", "building"}
    /\ Goes(r, "storing")
    /\ UNCHANGED <<name, overshoot>>

\* A request's own next step.
Continue(r) ==
    \/ \E c \in Conns : Insert(r, c)
    \/ CommitTest(r) \/ CommitUpdate(r) \/ CommitDelete(r) \/ CommitFails(r)
    \/ Refresh(r) \/ Evict(r)
    \/ Charge(r) \/ TakeGuard(r) \/ RunNodes(r)
    \/ AskForEngine(r) \/ BuildEngine(r) \/ StoreAnswer(r)

Next == \E r \in Reqs :
    \/ \E n \in Names : CreateConnection(r, n)
    \/ \E c \in Conns :
         \/ \E n \in Names \cup {KeepName} : UpdateConnection(r, c, n)
         \/ DeleteConnection(r, c) \/ TestConnection(r, c)
    \/ Chat(r) \/ SampleChat(r)
    \/ Continue(r)
    \/ TimeOut(r) \/ GiveUpEngine(r) \/ Disconnect(r)

Spec == Init /\ [][Next]_appVars

-----------------------------------------------------------------------------
(* Properties *)

\* A user has more saved connections than the cap allows only by creations that
\* were tested at the same time, and by no more than overlapped one of them.
CapKeptButForOverlap == Cardinality(Live) <= Cap + overshoot

\* A step that gives a connection a name another one has is a creation, which
\* checks no name, or an update whose name was given away after its check.
ClashOnlyByRace ==
    [][\A c, d \in Conns :
         (c # d /\ name'[c] \in Names /\ name'[d] = name'[c] /\ name[c] # name'[c])
           => \/ name[c] = "unborn"
              \/ \E r \in Reqs : /\ req[r].pc = "committing" /\ req[r].conn = c
                                 /\ req[r].raced]_appVars

Waits(r) ==
    \/ NeedsConnection(r) /\ ~FreeConnection
    \/ req[r].pc = "locking" /\ ~FreeLock
    \/ req[r].pc \in {"evicting", "asking"} /\ ~FreeEngines

Standstill ==
    /\ \E r \in Reqs : req[r].pc # "idle"
    /\ \A r \in Reqs : req[r].pc = "idle" \/ Waits(r)

\* The worker stands still until a timeout only when as many requests as the
\* pool has connections keep one while they wait for another resource: sample
\* visitors being charged, and handlers that evict an engine.  Guards, runs and
\* whoever builds an engine never bring that about.
StandstillNeedsAFullPool ==
    Standstill =>
        Cardinality({r \in Reqs : Holds(r) /\ req[r].pc \in {"evicting", "charging"}}) >= Size

\* The worker never stands still for good, though an eviction waits for the
\* engine lock without a timeout: when nobody can go on, one of those who wait
\* is timed out, and what it held is free.
StandstillsTimeOut == Standstill => \E r \in Reqs : WaitsForPool(r)
=============================================================================
