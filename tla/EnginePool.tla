----------------------------- MODULE EnginePool -----------------------------
(***************************************************************************)
(* The per-worker cache of customer database engines (engine_pool.py) and  *)
(* the handlers of /connections that change what it caches.  Tasks are the *)
(* coroutines of one worker: they interleave at every await, and only      *)
(* get_engine keeps the pool's asyncio.Lock while others can observe       *)
(* anything, so the lock is held by whoever is building an engine.         *)
(***************************************************************************)
EXTENDS Integers, FiniteSets

CONSTANTS
    Conns,      \* connection ids, each created at most once
    Tasks,      \* coroutine slots
    Passwords,  \* passwords a user may store
    Ttl,        \* byodb_engine_ttl, in ticks
    MaxClock    \* bound on the clock

ASSUME PoolAssumption ==
    /\ Ttl \in Nat /\ MaxClock \in Nat
    /\ Conns # {} /\ Passwords # {}

VARIABLES
    rows,       \* committed rows of user_connections
    cache,      \* cache[c]: _engines[c], or NoEngine
    open,       \* open[c]: engines of c built and not disposed
    task,       \* what each coroutine is doing
    sweep,      \* "now" of the eviction under way, or Asleep
    clock,      \* time.monotonic()
    handed      \* history: when an engine of c was last handed out

poolVars == <<rows, cache, open, task, sweep, clock, handed>>

Statuses == {"connected", "connection_failed", "untested"}

\* about: history, the password the stored status speaks of: the stored one, one
\* that was being changed while it was tested, or another.
Row == [life : {"unborn", "live", "gone"}, password : Passwords,
        status : Statuses, about : {"current", "crossed", "former"}]

\* late: history, its credentials were read between another task's eviction of
\* the engine and the commit that eviction was for.
Engine == [password : Passwords, used : 0 .. MaxClock, late : BOOLEAN]
NoEngine == [password |-> "none"]

Pcs == {"idle", "getting", "reading", "installing", "testing", "removing", "committing"}

\* password and status are what the coroutine holds in local variables and in
\* its loaded row, as long as it may still use them.
Task == [pc : Pcs, op : {"get", "update", "delete", "test"}, conn : Conns,
         password : Passwords, status : Statuses, late : BOOLEAN]

Asleep == -1

PoolTypeOK ==
    /\ rows \in [Conns -> Row]
    /\ cache \in [Conns -> Engine \cup {NoEngine}]
    /\ open \in [Conns -> Nat]
    /\ task \in [Tasks -> Task]
    /\ sweep \in 0 .. MaxClock \cup {Asleep}
    /\ clock \in 0 .. MaxClock
    /\ handed \in [Conns -> 0 .. MaxClock]

NewTask == [pc |-> "idle", op |-> "get", conn |-> CHOOSE c \in Conns : TRUE,
            password |-> CHOOSE p \in Passwords : TRUE,
            status |-> "untested", late |-> FALSE]
NewRow == [life |-> "unborn", password |-> CHOOSE p \in Passwords : TRUE,
           status |-> "untested", about |-> "current"]

\* A worker that has just started.
NothingCached ==
    /\ cache' = [c \in Conns |-> NoEngine]
    /\ open' = [c \in Conns |-> 0]
    /\ task' = [t \in Tasks |-> NewTask]
    /\ sweep' = Asleep

Init ==
    /\ rows = [c \in Conns |-> NewRow]
    /\ cache = [c \in Conns |-> NoEngine]
    /\ open = [c \in Conns |-> 0]
    /\ task = [t \in Tasks |-> NewTask]
    /\ sweep = Asleep
    /\ clock = 0
    /\ handed = [c \in Conns |-> 0]

Cached(c) == cache[c] # NoEngine
Live(c) == rows[c].life = "live"

Goes(t, pc) == task' = [task EXCEPT ![t].pc = pc]
Ends(t) == task' = [task EXCEPT ![t] = NewTask]

Building(t) == task[t].pc \in {"reading", "installing"}

\* Mutant of LockFree: the pool has no lock.
NoLock(t) == TRUE

\* self._lock can be taken: no other coroutine is building an engine.
LockFree(t) == \A u \in Tasks \ {t} : ~Building(u)

\* Some task has evicted the engine of c and not committed what it did it for.
Evicted(c) == \E t \in Tasks : task[t].pc = "committing" /\ task[t].conn = c

-----------------------------------------------------------------------------
(* get_engine *)

\* A node of a query of c asks for the engine, perhaps after c is deleted.
GetEngine(t, c) ==
    /\ task[t].pc = "idle" /\ rows[c].life # "unborn"
    /\ task' = [task EXCEPT ![t] = [NewTask EXCEPT !.pc = "getting", !.conn = c]]
    /\ UNCHANGED <<rows, cache, open, sweep, clock, handed>>

\* Mutant of Touched: a hit does not refresh last_used.
NotTouched(e) == e

Touched(e) == [e EXCEPT !.used = clock]

Hit(t) ==
    LET c == task[t].conn IN
    /\ task[t].pc = "getting" /\ LockFree(t)
    /\ Cached(c)
    /\ cache' = [cache EXCEPT ![c] = Touched(@)]
    /\ handed' = [handed EXCEPT ![c] = clock]
    /\ Ends(t)
    /\ UNCHANGED <<rows, open, sweep, clock>>

Miss(t) ==
    /\ task[t].pc = "getting" /\ LockFree(t)
    /\ ~Cached(task[t].conn)
    /\ Goes(t, "reading")
    /\ UNCHANGED <<rows, cache, open, sweep, clock, handed>>

\* Mutant of ReadCredentials: LookupError leaves the lock taken.
ReadCredentialsKeepingLock(t) ==
    LET c == task[t].conn IN
    /\ task[t].pc = "reading" /\ Live(c)
    /\ task' = [task EXCEPT ![t].pc = "installing", ![t].password = rows[c].password,
                            ![t].late = Evicted(c)]
    /\ UNCHANGED <<rows, cache, open, sweep, clock, handed>>

\* _build_engine reads the row in a session of its own: LookupError without one.
ReadCredentials(t) ==
    LET c == task[t].conn IN
    /\ task[t].pc = "reading"
    /\ IF Live(c)
         THEN task' = [task EXCEPT ![t].pc = "installing",
                                   ![t].password = rows[c].password,
                                   ![t].late = Evicted(c)]
         ELSE Ends(t)
    /\ UNCHANGED <<rows, cache, open, sweep, clock, handed>>

\* The session is closed, the engine built, cached and handed out.
Install(t) ==
    LET c == task[t].conn IN
    /\ task[t].pc = "installing"
    /\ cache' = [cache EXCEPT ![c] = [password |-> task[t].password,
                                      used |-> clock, late |-> task[t].late]]
    /\ open' = [open EXCEPT ![c] = @ + 1]
    /\ handed' = [handed EXCEPT ![c] = clock]
    /\ Ends(t)
    /\ UNCHANGED <<rows, sweep, clock>>

-----------------------------------------------------------------------------
(* remove, evict_expired and the loop that calls it *)

\* The engines of these connections leave the cache and are disposed.
Dispose(cs) ==
    /\ cache' = [c \in Conns |-> IF c \in cs THEN NoEngine ELSE cache[c]]
    /\ open' = [c \in Conns |-> open[c] - (IF c \in cs THEN 1 ELSE 0)]

\* Mutant of Removed: the cached engine stays.
RemovedNever(c) == {}

Removed(c) == IF Cached(c) THEN {c} ELSE {}

\* An update or deletion goes on to its commit; a test is finished.
Remove(t) ==
    /\ task[t].pc = "removing" /\ LockFree(t)
    /\ Dispose(Removed(task[t].conn))
    /\ IF task[t].op = "test" THEN Ends(t) ELSE Goes(t, "committing")
    /\ UNCHANGED <<rows, sweep, clock, handed>>

\* The loop wakes up, and reads the clock before it waits for the lock.
StartSweep ==
    /\ sweep = Asleep
    /\ sweep' = clock
    /\ UNCHANGED <<rows, cache, open, task, clock, handed>>

Expired(now) == {c \in Conns : Cached(c) /\ now - cache[c].used > Ttl}

FinishSweep ==
    /\ sweep # Asleep /\ \A t \in Tasks : ~Building(t)
    /\ Dispose(Expired(sweep))
    /\ sweep' = Asleep
    /\ UNCHANGED <<rows, task, clock, handed>>

-----------------------------------------------------------------------------
(* The handlers of /connections; a request refused with 404 or 422 and one   *)
(* that only renames the connection change nothing here.                     *)

\* POST: tested first, then inserted with the outcome.
CreateConnection(c, p, status) ==
    /\ rows[c].life = "unborn"
    /\ rows' = [rows EXCEPT ![c] = [life |-> "live", password |-> p,
                                    status |-> status, about |-> "current"]]
    /\ UNCHANGED <<cache, open, task, sweep, clock, handed>>

\* A handler loads the row and goes on to its first await.
Load(t, c, op, p, s, pc) ==
    /\ task[t].pc = "idle" /\ Live(c)
    /\ task' = [task EXCEPT ![t] = [NewTask EXCEPT
            !.pc = pc, !.op = op, !.conn = c, !.password = p, !.status = s]]
    /\ UNCHANGED <<rows, cache, open, sweep, clock, handed>>

\* PATCH with a new password, DELETE, POST test with the stored password.
UpdateConnection(t, c, p) == Load(t, c, "update", p, rows[c].status, "removing")
DeleteConnection(t, c) == Load(t, c, "delete", NewTask.password, NewTask.status, "removing")
TestConnection(t, c) == Load(t, c, "test", rows[c].password, rows[c].status, "testing")

\* The status an update leaves: only attributes that differ from the loaded ones
\* are written, so one loaded as "untested" is not reset.
Reset(loaded, stored) == IF loaded = "untested" THEN stored ELSE "untested"

\* Mutant of Updated: the status is not reset.
UpdatedPasswordOnly(row, password, loaded) ==
    [row EXCEPT !.password = password,
                !.about = IF @ = "current" /\ row.password # password
                            THEN "former" ELSE @]

\* An update writes the password, encrypted anew, and the status.
Updated(row, password, loaded) ==
    [row EXCEPT !.password = password,
                !.status = Reset(loaded, @),
                !.about = CASE Reset(loaded, row.status) = "untested" -> "current"
                            [] @ = "current" /\ row.password # password -> "former"
                            [] OTHER -> @]

CommitUpdate(t) ==
    LET c == task[t].conn IN
    /\ task[t].pc = "committing" /\ task[t].op = "update"
    /\ rows' = IF ~Live(c) THEN rows
               ELSE [rows EXCEPT ![c] = Updated(@, task[t].password, task[t].status)]
    /\ Ends(t)
    /\ UNCHANGED <<cache, open, sweep, clock, handed>>

CommitDelete(t) ==
    /\ task[t].pc = "committing" /\ task[t].op = "delete"
    /\ rows' = [rows EXCEPT ![task[t].conn] = [NewRow EXCEPT !.life = "gone"]]
    /\ Ends(t)
    /\ UNCHANGED <<cache, open, sweep, clock, handed>>

\* The password of c is being changed, or is no longer the one task t has tested.
Crossing(t, c) ==
    \/ task[t].password # rows[c].password
    \/ \E u \in Tasks : /\ task[u].op = "update" /\ task[u].conn = c
                        /\ task[u].pc \in {"removing", "committing"}

\* The outcome is written over the loaded status, then the engine is removed;
\* a row deleted meanwhile fails the request.
CommitTest(t, outcome) ==
    LET c == task[t].conn IN
    /\ task[t].pc = "testing"
    /\ rows' = IF ~Live(c) \/ task[t].status = outcome THEN rows
               ELSE [rows EXCEPT ![c].status = outcome, ![c].about = IF Crossing(t, c) THEN "crossed" ELSE "current"]
    /\ IF Live(c)
         THEN task' = [task EXCEPT ![t] = [NewTask EXCEPT
                                              !.pc = "removing", !.op = "test", !.conn = c]]
         ELSE Ends(t)
    /\ UNCHANGED <<cache, open, sweep, clock, handed>>

-----------------------------------------------------------------------------
Tick ==
    /\ clock < MaxClock
    /\ clock' = clock + 1
    /\ UNCHANGED <<rows, cache, open, task, sweep, handed>>

\* The worker dies and starts again; nothing uncommitted survives.
Restart ==
    /\ NothingCached
    /\ UNCHANGED <<rows, clock, handed>>

Outcomes == {"connected", "connection_failed"}

\* A coroutine's own next step, whatever it is doing.
Continue(t) ==
    \/ Hit(t) \/ Miss(t) \/ ReadCredentials(t) \/ Install(t)
    \/ Remove(t) \/ CommitUpdate(t) \/ CommitDelete(t)
    \/ \E outcome \in Outcomes : CommitTest(t, outcome)

Next ==
    \/ \E c \in Conns, p \in Passwords, s \in Outcomes : CreateConnection(c, p, s)
    \/ \E t \in Tasks :
         \/ \E c \in Conns :
              \/ GetEngine(t, c) \/ DeleteConnection(t, c) \/ TestConnection(t, c)
              \/ \E p \in Passwords : UpdateConnection(t, c, p)
         \/ Continue(t)
    \/ StartSweep \/ FinishSweep
    \/ Tick \/ Restart

Spec == Init /\ [][Next]_poolVars

-----------------------------------------------------------------------------
(* Properties *)

\* Two concurrent queries, or a query and an eviction, never leave an engine
\* open outside the cache, where nothing would dispose it.
EveryOpenEngineIsCached ==
    \A c \in Conns : open[c] = (IF Cached(c) THEN 1 ELSE 0)

\* A cached engine has the stored password of an existing connection, unless its
\* credentials were read between an eviction and the commit it was for.
StaleOnlyByRace ==
    \A c \in Conns : Cached(c) /\ ~cache[c].late =>
        Live(c) /\ cache[c].password = rows[c].password

\* Eviction takes no engine that was handed out within the TTL, however long the
\* sweep waited for the lock.
EvictionSparesRecent ==
    [][FinishSweep => \A c \in Conns :
          (Cached(c) /\ cache'[c] = NoEngine) => clock - handed[c] > Ttl]_poolVars

\* A node that asks for an engine gets one or an error: the lock it waits for is
\* always released, on every path of its holders.
GetEngineReturns ==
    \A t \in Tasks : task[t].pc = "getting" ~> task[t].pc = "idle"

\* "Reset - must re-test after password change" (update_connection): a password
\* that was never tested is shown as connected only when a test of its
\* predecessor was under way while it was stored.
UntestedOnlyByOverlap ==
    \A c \in Conns : (Live(c) /\ rows[c].status = "connected")
        => rows[c].about # "former"
=============================================================================
