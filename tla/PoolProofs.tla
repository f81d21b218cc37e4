----------------------------- MODULE PoolProofs -----------------------------
(***************************************************************************)
(* The engine cache loses no engine and keeps no stale one but by the race *)
(* between an eviction and its commit, for any number of connections,      *)
(* coroutines and passwords; and it does so under the schema catalog,      *)
(* which is renewed with the engines.                                      *)
(***************************************************************************)
EXTENDS SchemaCatalog, TLAPS

-----------------------------------------------------------------------------
(* The inductive invariant *)

\* The lock has one holder, and it builds what is not cached.
OneBuilder == \A t, u \in Tasks : Building(t) /\ Building(u) => t = u
BuildsTheMissing == \A t \in Tasks : Building(t) => ~Cached(task[t].conn)

\* Credentials read with no eviction uncommitted stay current: an eviction has to
\* wait for the lock, or finds the engine and takes it.
ReadIsCurrent ==
    \A t \in Tasks : LET c == task[t].conn IN
        (task[t].pc = "installing" /\ ~task[t].late) =>
            Live(c) /\ task[t].password = rows[c].password /\ ~Evicted(c)

CachedIsKept == \A c \in Conns : Cached(c) /\ ~cache[c].late => ~Evicted(c)

PoolInv ==
    /\ PoolTypeOK
    /\ OneBuilder
    /\ BuildsTheMissing
    /\ ReadIsCurrent
    /\ CachedIsKept
    /\ EveryOpenEngineIsCached
    /\ StaleOnlyByRace

-----------------------------------------------------------------------------
(* Types, and what leaves the cache *)

LEMMA NewTaskType == NewTask \in Task /\ NewTask.pc = "idle"
<1>1. (CHOOSE c \in Conns : TRUE) \in Conns /\ (CHOOSE p \in Passwords : TRUE) \in Passwords
  BY PoolAssumption
<1> QED
  BY <1>1 DEF NewTask, Task, Pcs, Statuses

LEMMA NewRowType == NewRow \in Row
<1>1. (CHOOSE p \in Passwords : TRUE) \in Passwords
  BY PoolAssumption
<1> QED
  BY <1>1 DEF NewRow, Row, Statuses

LEMMA UpdatedType ==
    ASSUME NEW row \in Row, NEW p \in Passwords, NEW loaded \in Statuses
    PROVE  /\ Updated(row, p, loaded) \in Row
           /\ Updated(row, p, loaded).life = row.life
           /\ Updated(row, p, loaded).password = p
           /\ Updated(row, p, loaded).status = Reset(loaded, row.status)
           /\ Updated(row, p, loaded).about =
                 CASE Reset(loaded, row.status) = "untested" -> "current"
                   [] row.about = "current" /\ row.password # p -> "former"
                   [] OTHER -> row.about
<1> DEFINE s == Reset(loaded, row.status)
           a == CASE s = "untested" -> "current"
                  [] row.about = "current" /\ row.password # p -> "former"
                  [] OTHER -> row.about
<1>1. s \in Statuses
  BY DEF Reset, Row, Statuses
<1>2. a \in {"current", "crossed", "former"}
  BY DEF Row
<1>3. Updated(row, p, loaded) = [row EXCEPT !.password = p, !.status = s, !.about = a]
  BY DEF Updated, Row
<1> HIDE DEF s, a
<1>4. /\ [row EXCEPT !.password = p, !.status = s, !.about = a] \in Row
      /\ [row EXCEPT !.password = p, !.status = s, !.about = a].life = row.life
      /\ [row EXCEPT !.password = p, !.status = s, !.about = a].password = p
      /\ [row EXCEPT !.password = p, !.status = s, !.about = a].status = s
      /\ [row EXCEPT !.password = p, !.status = s, !.about = a].about = a
  BY <1>1, <1>2 DEF Row
<1> QED
  BY <1>3, <1>4 DEF s, a

LEMMA EngineType ==
    ASSUME NEW p \in Passwords, NEW u \in 0 .. MaxClock, NEW l \in BOOLEAN
    PROVE  /\ [password |-> p, used |-> u, late |-> l] \in Engine
           /\ [password |-> p, used |-> u, late |-> l] # NoEngine
<1>1. DOMAIN [password |-> p, used |-> u, late |-> l] # DOMAIN NoEngine
  BY DEF NoEngine
<1> QED
  BY <1>1 DEF Engine

\* Whatever cached engines are disposed, the rest of the invariant that speaks of
\* the cache survives.
LEMMA DisposeKeeps ==
    ASSUME PoolInv, NEW cs \in SUBSET Conns, \A c \in cs : Cached(c), Dispose(cs)
    PROVE  /\ cache' \in [Conns -> Engine \cup {NoEngine}]
           /\ open' \in [Conns -> Nat]
           /\ \A c \in Conns : open'[c] = (IF cache'[c] # NoEngine THEN 1 ELSE 0)
           /\ \A c \in Conns : cache'[c] # NoEngine => cache'[c] = cache[c] /\ c \notin cs
           /\ \A c \in cs : cache'[c] = NoEngine
<1>1. \A c \in Conns : open[c] = (IF cache[c] # NoEngine THEN 1 ELSE 0)
  BY DEF PoolInv, EveryOpenEngineIsCached, Cached
<1>2. \A c \in Conns : cache'[c] = IF c \in cs THEN NoEngine ELSE cache[c]
  BY DEF Dispose
<1>3. \A c \in Conns : open'[c] = IF c \in cs THEN 0 ELSE open[c]
  BY <1>1 DEF Dispose, Cached
<1>4. open' \in [Conns -> Nat]
  BY <1>1, <1>3 DEF Dispose
<1>5. cache' \in [Conns -> Engine \cup {NoEngine}]
  BY <1>2 DEF Dispose, PoolInv, PoolTypeOK
<1> QED
  BY <1>1, <1>2, <1>3, <1>4, <1>5

-----------------------------------------------------------------------------
(* The steps *)

LEMMA PoolInit == Init => PoolInv
BY NewTaskType, NewRowType, PoolAssumption
   DEF Init, PoolInv, PoolTypeOK, OneBuilder, Building, BuildsTheMissing, ReadIsCurrent,
       CachedIsKept, EveryOpenEngineIsCached, StaleOnlyByRace, Cached, Asleep

\* A coroutine that starts, ends or goes on without building or committing.
LEMMA PoolTask ==
    ASSUME PoolInv, NEW t \in Tasks, NEW new \in Task,
           task' = [task EXCEPT ![t] = new],
           new.pc \notin {"reading", "installing", "committing"},
           UNCHANGED <<rows, cache, open, sweep, clock, handed>>
    PROVE  PoolInv'
<1>1. \A u \in Tasks : task'[u] = IF u = t THEN new ELSE task[u]
  BY DEF PoolInv, PoolTypeOK
<1>2. \A c \in Conns : Evicted(c)' => Evicted(c)
  BY <1>1 DEF Evicted
<1>3. \A c \in Conns : (Live(c)' <=> Live(c)) /\ (Cached(c)' <=> Cached(c))
  BY DEF Live, Cached
<1>4. PoolTypeOK'
  BY DEF PoolInv, PoolTypeOK
<1>5. OneBuilder' /\ BuildsTheMissing'
  BY <1>1, <1>3 DEF PoolInv, PoolTypeOK, OneBuilder, BuildsTheMissing, Building, Task, Cached
<1>6. ReadIsCurrent'
  BY <1>1, <1>2, <1>3 DEF PoolInv, PoolTypeOK, ReadIsCurrent, Task, Live
<1> QED
  BY <1>2, <1>3, <1>4, <1>5, <1>6 DEF PoolInv, CachedIsKept, EveryOpenEngineIsCached,
     StaleOnlyByRace, Live, Cached

\* Handlers begin, and tasks that find nothing to do end.
LEMMA PoolBegins ==
    ASSUME PoolInv, NEW t \in Tasks, NEW c \in Conns, NEW p \in Passwords,
           \/ GetEngine(t, c) \/ UpdateConnection(t, c, p)
           \/ DeleteConnection(t, c) \/ TestConnection(t, c)
    PROVE  PoolInv'
<1>1. rows[c].status \in Statuses /\ rows[c].password \in Passwords
  BY DEF PoolInv, PoolTypeOK, Row
<1>2. CASE GetEngine(t, c)
  <2>1. [NewTask EXCEPT !.pc = "getting", !.conn = c] \in Task
    BY NewTaskType DEF Task, Pcs
  <2>2. [NewTask EXCEPT !.pc = "getting", !.conn = c].pc = "getting"
    BY NewTaskType DEF Task
  <2> QED
    BY <1>2, <2>1, <2>2, PoolTask DEF GetEngine
<1>3. ASSUME NEW op \in {"update", "delete", "test"}, NEW q \in Passwords, NEW s \in Statuses,
             NEW pc \in {"removing", "testing"}, Load(t, c, op, q, s, pc)
      PROVE  PoolInv'
  <2> DEFINE new == [NewTask EXCEPT !.pc = pc, !.op = op, !.conn = c,
                                    !.password = q, !.status = s]
  <2>1. new \in Task /\ new.pc = pc
    BY <1>1, NewTaskType DEF Task, Pcs
  <2>2. task' = [task EXCEPT ![t] = new] /\ UNCHANGED <<rows, cache, open, sweep, clock, handed>>
    BY <1>3 DEF Load
  <2> HIDE DEF new
  <2> QED
    BY <2>1, <2>2, PoolTask
<1>4. NewTask.password \in Passwords /\ NewTask.status \in Statuses
  BY NewTaskType DEF Task
<1> QED
  BY <1>1, <1>2, <1>3, <1>4 DEF UpdateConnection, DeleteConnection, TestConnection

LEMMA PoolHit ==
    ASSUME PoolInv, NEW t \in Tasks, Hit(t)
    PROVE  PoolInv'
<1> DEFINE c == task[t].conn
<1>1. c \in Conns /\ cache[c] \in Engine /\ clock \in 0 .. MaxClock
  BY DEF PoolInv, PoolTypeOK, Hit, Task, Cached
<1>2. /\ Touched(cache[c]) \in Engine
      /\ Touched(cache[c]).password = cache[c].password
      /\ Touched(cache[c]).late = cache[c].late
  BY <1>1 DEF Touched, Engine
<1>3. Touched(cache[c]) # NoEngine
  BY <1>2, <1>1, EngineType DEF Engine, NoEngine, Touched
<1>4. /\ cache' = [cache EXCEPT ![c] = Touched(cache[c])]
      /\ task' = [task EXCEPT ![t] = NewTask]
      /\ UNCHANGED <<rows, open, sweep, clock>>
      /\ handed' = [handed EXCEPT ![c] = clock]
  BY DEF Hit, Ends
<1>5. \A d \in Conns : /\ Cached(d)' <=> Cached(d)
                       /\ Cached(d) => /\ cache'[d].password = cache[d].password
                                       /\ cache'[d].late = cache[d].late
  BY <1>1, <1>2, <1>3, <1>4 DEF Cached, PoolInv, PoolTypeOK, Hit
<1>6. \A u \in Tasks : task'[u] = IF u = t THEN NewTask ELSE task[u]
  BY <1>4 DEF PoolInv, PoolTypeOK
<1>7. \A d \in Conns : Evicted(d)' => Evicted(d)
  BY <1>6, NewTaskType DEF Evicted
<1>8. \A d \in Conns : Live(d)' <=> Live(d)
  BY <1>4 DEF Live
<1>9. PoolTypeOK'
  <2>1. cache' \in [Conns -> Engine \cup {NoEngine}]
    BY <1>1, <1>2, <1>4 DEF PoolInv, PoolTypeOK
  <2>2. task' \in [Tasks -> Task] /\ handed' \in [Conns -> 0 .. MaxClock]
    BY <1>1, <1>4, NewTaskType DEF PoolInv, PoolTypeOK
  <2> QED
    BY <1>4, <2>1, <2>2 DEF PoolInv, PoolTypeOK
<1>10. OneBuilder' /\ BuildsTheMissing'
  BY <1>5, <1>6, NewTaskType DEF PoolInv, PoolTypeOK, OneBuilder, BuildsTheMissing, Building, Task
<1>11. ReadIsCurrent'
  BY <1>4, <1>6, <1>7, <1>8, NewTaskType DEF PoolInv, PoolTypeOK, ReadIsCurrent, Task
<1>12. CachedIsKept' /\ EveryOpenEngineIsCached' /\ StaleOnlyByRace'
  BY <1>4, <1>5, <1>7, <1>8 DEF PoolInv, CachedIsKept, EveryOpenEngineIsCached, StaleOnlyByRace
<1> QED
  BY <1>9, <1>10, <1>11, <1>12 DEF PoolInv

LEMMA PoolMiss ==
    ASSUME PoolInv, NEW t \in Tasks, Miss(t)
    PROVE  PoolInv'
<1> DEFINE new == [task[t] EXCEPT !.pc = "reading"]
<1>1. /\ task' = [task EXCEPT ![t] = new]
      /\ UNCHANGED <<rows, cache, open, sweep, clock, handed>>
  BY DEF Miss, Goes
<1>2. new \in Task /\ new.pc = "reading" /\ new.conn = task[t].conn
  BY DEF PoolInv, PoolTypeOK, Task, Pcs
<1>3. \A u \in Tasks : task'[u] = IF u = t THEN new ELSE task[u]
  BY <1>1 DEF PoolInv, PoolTypeOK
<1> HIDE DEF new
<1>4. \A c \in Conns : (Evicted(c)' => Evicted(c)) /\ (Live(c)' <=> Live(c)) /\ (Cached(c)' <=> Cached(c))
  BY <1>1, <1>2, <1>3 DEF Evicted, Live, Cached
<1>5. PoolTypeOK'
  BY <1>1, <1>2 DEF PoolInv, PoolTypeOK
<1>6. OneBuilder'
  BY <1>2, <1>3 DEF PoolInv, OneBuilder, Building, Miss, LockFree
<1>7. BuildsTheMissing'
  BY <1>1, <1>2, <1>3, <1>4 DEF PoolInv, PoolTypeOK, BuildsTheMissing, Building, Miss, Task, Cached
<1>8. ReadIsCurrent'
  BY <1>1, <1>2, <1>3, <1>4 DEF PoolInv, PoolTypeOK, ReadIsCurrent, Task, Live
<1> QED
  BY <1>1, <1>4, <1>5, <1>6, <1>7, <1>8 DEF PoolInv, CachedIsKept, EveryOpenEngineIsCached,
     StaleOnlyByRace, Live, Cached

LEMMA PoolRead ==
    ASSUME PoolInv, NEW t \in Tasks, ReadCredentials(t)
    PROVE  PoolInv'
<1> DEFINE c == task[t].conn
           new == [task[t] EXCEPT !.pc = "installing", !.password = rows[c].password,
                                  !.late = Evicted(c)]
<1>1. CASE ~Live(c)
  BY <1>1, PoolTask, NewTaskType DEF ReadCredentials, Ends
<1>2. CASE Live(c)
  <2>1. /\ task' = [task EXCEPT ![t] = new]
        /\ UNCHANGED <<rows, cache, open, sweep, clock, handed>>
    BY <1>2 DEF ReadCredentials, PoolInv, PoolTypeOK, Task
  <2>2. c \in Conns /\ rows[c].password \in Passwords
    BY DEF PoolInv, PoolTypeOK, Task, Row
  <2>3. Evicted(c) \in BOOLEAN
    BY DEF Evicted
  <2>4. /\ new \in Task /\ new.pc = "installing" /\ new.conn = c
        /\ new.password = rows[c].password /\ new.late = Evicted(c)
    <3> DEFINE e == Evicted(c)
    <3>1. e \in BOOLEAN
      BY <2>3
    <3> HIDE DEF e
    <3>2. [task[t] EXCEPT !.pc = "installing", !.password = rows[c].password, !.late = e] \in Task
      BY <2>2, <3>1 DEF PoolInv, PoolTypeOK, Task, Pcs
    <3>3. \A k \in Task : \A q, b :
            LET n == [k EXCEPT !.pc = "installing", !.password = q, !.late = b]
            IN  n.pc = "installing" /\ n.conn = k.conn /\ n.password = q /\ n.late = b
      BY DEF Task
    <3> QED
      BY <3>2, <3>3 DEF e, PoolInv, PoolTypeOK
  <2>5. \A u \in Tasks : task'[u] = IF u = t THEN new ELSE task[u]
    BY <2>1 DEF PoolInv, PoolTypeOK
  <2> HIDE DEF new
  <2>6. \A d \in Conns : (Evicted(d)' => Evicted(d)) /\ (Live(d)' <=> Live(d)) /\ (Cached(d)' <=> Cached(d))
    BY <2>1, <2>4, <2>5 DEF Evicted, Live, Cached
  <2>7. PoolTypeOK'
    BY <2>1, <2>4 DEF PoolInv, PoolTypeOK
  <2>8. OneBuilder'
    BY <2>4, <2>5 DEF PoolInv, OneBuilder, Building, ReadCredentials
  <2>9. BuildsTheMissing'
    BY <2>1, <2>4, <2>5, <2>6 DEF PoolInv, PoolTypeOK, BuildsTheMissing, Building,
       ReadCredentials, Task, Cached
  <2>10. ReadIsCurrent'
    BY <1>2, <2>1, <2>2, <2>4, <2>5, <2>6 DEF PoolInv, PoolTypeOK, ReadIsCurrent, Task, Live
  <2> QED
    BY <2>1, <2>6, <2>7, <2>8, <2>9, <2>10 DEF PoolInv, CachedIsKept,
       EveryOpenEngineIsCached, StaleOnlyByRace, Live, Cached
<1> QED
  BY <1>1, <1>2

LEMMA PoolInstall ==
    ASSUME PoolInv, NEW t \in Tasks, Install(t)
    PROVE  PoolInv'
<1> DEFINE c == task[t].conn
           e == [password |-> task[t].password, used |-> clock, late |-> task[t].late]
<1>1. /\ c \in Conns /\ ~Cached(c)
      /\ task[t].password \in Passwords /\ task[t].late \in BOOLEAN
      /\ clock \in 0 .. MaxClock
  BY DEF PoolInv, PoolTypeOK, Task, BuildsTheMissing, Building, Install
<1>2. /\ e \in Engine /\ e # NoEngine
      /\ e.password = task[t].password /\ e.late = task[t].late
  BY <1>1, EngineType
<1>3. /\ cache' = [cache EXCEPT ![c] = e]
      /\ open' = [open EXCEPT ![c] = open[c] + 1]
      /\ task' = [task EXCEPT ![t] = NewTask]
      /\ handed' = [handed EXCEPT ![c] = clock]
      /\ UNCHANGED <<rows, sweep, clock>>
  BY DEF Install, Ends
<1> HIDE DEF e
<1>4. \A u \in Tasks : task'[u] = IF u = t THEN NewTask ELSE task[u]
  BY <1>3 DEF PoolInv, PoolTypeOK
<1>5. \A d \in Conns : (Evicted(d)' => Evicted(d)) /\ (Live(d)' <=> Live(d))
  BY <1>3, <1>4, NewTaskType DEF Evicted, Live
<1>6. \A d \in Conns : cache'[d] = IF d = c THEN e ELSE cache[d]
  BY <1>1, <1>3 DEF PoolInv, PoolTypeOK
<1>7. open[c] = 0
  BY <1>1 DEF PoolInv, EveryOpenEngineIsCached
<1>8. open' \in [Conns -> Nat] /\ \A d \in Conns : open'[d] = IF d = c THEN 1 ELSE open[d]
  BY <1>1, <1>3, <1>7 DEF PoolInv, PoolTypeOK
<1>9. PoolTypeOK'
  <2>1. cache' \in [Conns -> Engine \cup {NoEngine}]
    BY <1>2, <1>3 DEF PoolInv, PoolTypeOK
  <2>2. task' \in [Tasks -> Task] /\ handed' \in [Conns -> 0 .. MaxClock]
    BY <1>1, <1>3, NewTaskType DEF PoolInv, PoolTypeOK
  <2> QED
    BY <1>3, <1>8, <2>1, <2>2 DEF PoolInv, PoolTypeOK
<1>10. OneBuilder' /\ \A u \in Tasks : ~Building(u)'
  BY <1>4, NewTaskType DEF PoolInv, OneBuilder, Building, Install
<1>11. BuildsTheMissing' /\ ReadIsCurrent'
  BY <1>10 DEF BuildsTheMissing, ReadIsCurrent, Building
<1>12. CachedIsKept' /\ StaleOnlyByRace'
  BY <1>1, <1>2, <1>3, <1>5, <1>6 DEF PoolInv, ReadIsCurrent, CachedIsKept, StaleOnlyByRace,
     Cached, Install
<1>13. EveryOpenEngineIsCached'
  BY <1>2, <1>6, <1>8 DEF PoolInv, EveryOpenEngineIsCached, Cached
<1> QED
  BY <1>9, <1>10, <1>11, <1>12, <1>13 DEF PoolInv

\* An eviction holds the lock: nothing is being built, and what stays in the
\* cache is as it was.
LEMMA PoolDispose ==
    ASSUME PoolInv, NEW cs \in SUBSET Conns, \A c \in cs : Cached(c), Dispose(cs),
           task' \in [Tasks -> Task], sweep' \in 0 .. MaxClock \cup {Asleep},
           \A u \in Tasks : ~Building(u)',
           \A c \in Conns : Evicted(c)' => Evicted(c) \/ c \in cs \/ ~Cached(c),
           UNCHANGED <<rows, clock, handed>>
    PROVE  PoolInv'
<1>1. /\ cache' \in [Conns -> Engine \cup {NoEngine}]
      /\ open' \in [Conns -> Nat]
      /\ \A c \in Conns : open'[c] = (IF cache'[c] # NoEngine THEN 1 ELSE 0)
      /\ \A c \in Conns : cache'[c] # NoEngine => cache'[c] = cache[c] /\ c \notin cs
  BY DisposeKeeps
<1>2. PoolTypeOK'
  BY <1>1 DEF PoolInv, PoolTypeOK
<1>3. OneBuilder' /\ BuildsTheMissing' /\ ReadIsCurrent'
  BY DEF OneBuilder, BuildsTheMissing, ReadIsCurrent, Building
<1>4. CachedIsKept' /\ StaleOnlyByRace'
  BY <1>1 DEF PoolInv, CachedIsKept, StaleOnlyByRace, Cached, Live
<1> QED
  BY <1>1, <1>2, <1>3, <1>4 DEF PoolInv, EveryOpenEngineIsCached, Cached

LEMMA PoolRemove ==
    ASSUME PoolInv, NEW t \in Tasks, Remove(t)
    PROVE  PoolInv'
<1> DEFINE c == task[t].conn
           new == IF task[t].op = "test" THEN NewTask ELSE [task[t] EXCEPT !.pc = "committing"]
<1>1. c \in Conns /\ Removed(c) \in SUBSET Conns /\ \A d \in Removed(c) : Cached(d)
  BY DEF PoolInv, PoolTypeOK, Task, Removed
<1>2. /\ task' = [task EXCEPT ![t] = new] /\ Dispose(Removed(c))
      /\ UNCHANGED <<rows, sweep, clock, handed>>
  BY DEF Remove, Ends, Goes
<1>3. /\ new \in Task /\ new.pc \in {"idle", "committing"}
      /\ new.pc = "committing" => new.conn = c
  BY NewTaskType DEF PoolInv, PoolTypeOK, Task, Pcs
<1> HIDE DEF new
<1>4. task' \in [Tasks -> Task] /\ \A u \in Tasks : task'[u] = IF u = t THEN new ELSE task[u]
  BY <1>2, <1>3 DEF PoolInv, PoolTypeOK
<1>5. \A u \in Tasks : ~Building(u)'
  BY <1>3, <1>4 DEF Building, Remove, LockFree
<1>6. \A d \in Conns : Evicted(d)' => Evicted(d) \/ d \in Removed(c) \/ ~Cached(d)
  BY <1>3, <1>4 DEF Evicted, Removed
<1>7. sweep' \in 0 .. MaxClock \cup {Asleep}
  BY <1>2 DEF PoolInv, PoolTypeOK
<1> QED
  BY <1>1, <1>2, <1>4, <1>5, <1>6, <1>7, PoolDispose

LEMMA PoolFinishSweep ==
    ASSUME PoolInv, FinishSweep
    PROVE  PoolInv'
<1>1. Expired(sweep) \in SUBSET Conns /\ \A c \in Expired(sweep) : Cached(c)
  BY DEF Expired
<1>2. /\ Dispose(Expired(sweep)) /\ UNCHANGED <<rows, task, clock, handed>>
      /\ sweep' \in 0 .. MaxClock \cup {Asleep}
  BY DEF FinishSweep
<1>3. \A u \in Tasks : ~Building(u)'
  BY <1>2 DEF FinishSweep, Building
<1>4. \A c \in Conns : Evicted(c)' => Evicted(c)
  BY <1>2 DEF Evicted
<1> QED
  BY <1>1, <1>2, <1>3, <1>4, PoolDispose DEF PoolInv, PoolTypeOK

LEMMA PoolCreate ==
    ASSUME PoolInv, NEW c \in Conns, NEW p \in Passwords, NEW s \in Outcomes,
           CreateConnection(c, p, s)
    PROVE  PoolInv'
<1>1. [life |-> "live", password |-> p, status |-> s, about |-> "current"] \in Row
  BY DEF Row, Statuses, Outcomes
<1>2. PoolTypeOK'
  BY <1>1 DEF CreateConnection, PoolInv, PoolTypeOK
<1>3. ~Live(c)
  BY DEF CreateConnection, Live
<1>4. \A d \in Conns : /\ d # c => rows'[d] = rows[d]
                       /\ Evicted(d)' <=> Evicted(d)
                       /\ Cached(d)' <=> Cached(d)
  BY DEF CreateConnection, Evicted, Cached, PoolInv, PoolTypeOK
<1>5. OneBuilder' /\ BuildsTheMissing' /\ CachedIsKept' /\ EveryOpenEngineIsCached'
  BY <1>4 DEF CreateConnection, PoolInv, PoolTypeOK, Task, OneBuilder, BuildsTheMissing, Building,
     CachedIsKept, EveryOpenEngineIsCached, Cached
<1>6. ReadIsCurrent'
  BY <1>3, <1>4 DEF CreateConnection, PoolInv, PoolTypeOK, Task, ReadIsCurrent, Live
<1>7. StaleOnlyByRace'
  BY <1>3, <1>4 DEF CreateConnection, PoolInv, StaleOnlyByRace, Live, Cached
<1> QED
  BY <1>2, <1>5, <1>6, <1>7 DEF PoolInv

\* A commit changes the row of a connection whose engine has been evicted, or
\* only its status.
LEMMA PoolCommit ==
    ASSUME PoolInv, NEW t \in Tasks, NEW new \in Task, NEW row \in Row,
           new.pc \in {"idle", "removing"}, task' = [task EXCEPT ![t] = new],
           rows' = [rows EXCEPT ![task[t].conn] = row],
           \/ task[t].pc = "committing"
           \/ row.life = rows[task[t].conn].life /\ row.password = rows[task[t].conn].password,
           UNCHANGED <<cache, open, sweep, clock, handed>>
    PROVE  PoolInv'
<1> DEFINE c == task[t].conn
<1>1. c \in Conns
  BY DEF PoolInv, PoolTypeOK, Task
<1>2. /\ \A u \in Tasks : task'[u] = IF u = t THEN new ELSE task[u]
      /\ \A d \in Conns : rows'[d] = IF d = c THEN row ELSE rows[d]
  BY <1>1 DEF PoolInv, PoolTypeOK
<1>3. \A d \in Conns : (Evicted(d)' => Evicted(d)) /\ (Cached(d)' <=> Cached(d))
  BY <1>2 DEF Evicted, Cached
<1>4. \A d \in Conns : ~Evicted(d) =>
         /\ Live(d)' <=> Live(d)
         /\ rows'[d].password = rows[d].password
  BY <1>1, <1>2 DEF Evicted, Live
<1>5. PoolTypeOK'
  BY <1>1 DEF PoolInv, PoolTypeOK
<1>6. OneBuilder' /\ BuildsTheMissing' /\ CachedIsKept' /\ EveryOpenEngineIsCached'
  BY <1>2, <1>3 DEF PoolInv, PoolTypeOK, Task, OneBuilder, BuildsTheMissing, Building,
     CachedIsKept, EveryOpenEngineIsCached, Cached
<1>7. ReadIsCurrent'
  BY <1>2, <1>3, <1>4 DEF PoolInv, PoolTypeOK, Task, ReadIsCurrent
<1>8. StaleOnlyByRace'
  BY <1>3, <1>4 DEF PoolInv, StaleOnlyByRace, CachedIsKept, Cached
<1> QED
  BY <1>5, <1>6, <1>7, <1>8 DEF PoolInv

LEMMA PoolCommits ==
    ASSUME PoolInv, NEW t \in Tasks, NEW outcome \in Outcomes,
           CommitUpdate(t) \/ CommitDelete(t) \/ CommitTest(t, outcome)
    PROVE  PoolInv'
<1> DEFINE c == task[t].conn
<1>1. /\ c \in Conns /\ rows[c] \in Row /\ task[t] \in Task
      /\ rows = [rows EXCEPT ![c] = rows[c]]
      /\ task[t].password \in Passwords
  BY DEF PoolInv, PoolTypeOK, Task
<1>2. NewTask \in Task /\ NewTask.pc \in {"idle", "removing"}
  BY NewTaskType
<1>3. CASE CommitUpdate(t)
  <2>1. CASE ~Live(c)
    BY <1>1, <1>2, <1>3, <2>1, PoolCommit DEF CommitUpdate, Ends
  <2>2. CASE Live(c)
    <3> DEFINE row == Updated(rows[c], task[t].password, task[t].status)
    <3>1. task[t].status \in Statuses
      BY <1>1 DEF Task
    <3>2. row \in Row
      BY <1>1, <3>1, UpdatedType
    <3>3. rows' = [rows EXCEPT ![c] = row]
      BY <1>3, <2>2 DEF CommitUpdate
    <3>4. /\ task[t].pc = "committing" /\ task' = [task EXCEPT ![t] = NewTask]
          /\ UNCHANGED <<cache, open, sweep, clock, handed>>
      BY <1>3 DEF CommitUpdate, Ends
    <3> HIDE DEF row
    <3> QED
      BY <1>1, <1>2, <3>2, <3>3, <3>4, PoolCommit
  <2> QED
    BY <2>1, <2>2
<1>4. CASE CommitDelete(t)
  <2> DEFINE row == [NewRow EXCEPT !.life = "gone"]
  <2>1. row \in Row
    BY NewRowType DEF Row
  <2>2. rows' = [rows EXCEPT ![c] = row]
    BY <1>4 DEF CommitDelete
  <2>3. /\ task[t].pc = "committing" /\ task' = [task EXCEPT ![t] = NewTask]
        /\ UNCHANGED <<cache, open, sweep, clock, handed>>
    BY <1>4 DEF CommitDelete, Ends
  <2> HIDE DEF row
  <2> QED
    BY <1>1, <1>2, <2>1, <2>2, <2>3, PoolCommit
<1>5. CASE CommitTest(t, outcome)
  <2> DEFINE a == IF Crossing(t, c) THEN "crossed" ELSE "current"
             row == IF ~Live(c) \/ task[t].status = outcome THEN rows[c]
                    ELSE [rows[c] EXCEPT !.status = outcome, !.about = a]
             new == IF Live(c) THEN [NewTask EXCEPT !.pc = "removing", !.op = "test", !.conn = c]
                    ELSE NewTask
  <2>1. row \in Row /\ row.life = rows[c].life /\ row.password = rows[c].password
    BY <1>1 DEF Row, Statuses, Outcomes
  <2>2. new \in Task /\ new.pc \in {"idle", "removing"}
    BY <1>1, <1>2, NewTaskType DEF Task, Pcs
  <2>3. rows' = [rows EXCEPT ![c] = row]
    <3>1. CASE ~Live(c) \/ task[t].status = outcome
      BY <1>1, <1>5, <3>1 DEF CommitTest
    <3>2. CASE ~(~Live(c) \/ task[t].status = outcome)
      <4>1. rows' = [rows EXCEPT ![c].status = outcome, ![c].about = a]
        BY <1>5, <3>2 DEF CommitTest
      <4>2. row = [rows[c] EXCEPT !.status = outcome, !.about = a]
        BY <3>2
      <4> HIDE DEF row
      <4> QED
        BY <1>1, <4>1, <4>2 DEF PoolInv, PoolTypeOK
    <3> QED
      BY <3>1, <3>2
  <2>4. /\ task' = [task EXCEPT ![t] = new]
        /\ UNCHANGED <<cache, open, sweep, clock, handed>>
    BY <1>5 DEF CommitTest, Ends
  <2> HIDE DEF row, new
  <2> QED
    BY <1>1, <2>1, <2>2, <2>3, <2>4, PoolCommit
<1> QED
  BY <1>3, <1>4, <1>5

LEMMA PoolRest ==
    ASSUME PoolInv, StartSweep \/ Tick \/ Restart \/ UNCHANGED poolVars
    PROVE  PoolInv'
<1>1. CASE Restart
  <2>1. \A t \in Tasks : task'[t] = NewTask
    BY <1>1 DEF Restart, NothingCached
  <2>2. PoolTypeOK'
    BY <1>1, NewTaskType DEF Restart, NothingCached, PoolInv, PoolTypeOK
  <2> QED
    BY <1>1, <2>1, <2>2, NewTaskType DEF Restart, NothingCached, PoolInv, OneBuilder, Building,
       BuildsTheMissing, ReadIsCurrent, CachedIsKept, EveryOpenEngineIsCached,
       StaleOnlyByRace, Cached
<1>2. CASE StartSweep \/ Tick \/ UNCHANGED poolVars
  <2>1. UNCHANGED <<rows, cache, open, task, handed>>
    BY <1>2 DEF StartSweep, Tick, poolVars
  <2>2. sweep' \in 0 .. MaxClock \cup {Asleep} /\ clock' \in 0 .. MaxClock
    BY <1>2, PoolAssumption DEF StartSweep, Tick, poolVars, PoolInv, PoolTypeOK
  <2>3. PoolTypeOK'
    BY <2>1, <2>2 DEF PoolInv, PoolTypeOK
  <2> QED
    BY <2>1, <2>3 DEF PoolInv, OneBuilder, Building, BuildsTheMissing, ReadIsCurrent,
       CachedIsKept, EveryOpenEngineIsCached, StaleOnlyByRace, Cached, Live, Evicted
<1> QED
  BY <1>1, <1>2

-----------------------------------------------------------------------------
(* What a stored status speaks of *)

Updating(t) == task[t].op = "update" /\ task[t].pc \in {"removing", "committing"}

TestsOnly == \A t \in Tasks : task[t].pc = "testing" => task[t].op = "test"

\* An update that found "untested" will not reset it: a status stored since
\* was stored while the password was being changed.
UnresetIsCrossed ==
    \A t \in Tasks : LET c == task[t].conn IN
        Updating(t) =>
            /\ rows[c].life # "unborn"
            /\ task[t].status = "untested" =>
                  rows[c].status = "untested" \/ rows[c].about # "current"

StatusInv == TestsOnly /\ UnresetIsCrossed /\ UntestedOnlyByOverlap

LEMMA StatusInit == Init => StatusInv
BY NewTaskType DEF Init, StatusInv, TestsOnly, UnresetIsCrossed, UntestedOnlyByOverlap,
   Updating, Live, NewRow

\* No row changes, and no task but t, which does not begin an update.
LEMMA StatusTask ==
    ASSUME PoolTypeOK, StatusInv, rows' = rows, NEW t \in Tasks, NEW new,
           task' = [task EXCEPT ![t] = new],
           new.pc = "testing" => new.op = "test",
           \/ new.op # "update" \/ new.pc \notin {"removing", "committing"}
           \/ Updating(t) /\ new.conn = task[t].conn /\ new.status = task[t].status
    PROVE  StatusInv'
<1>1. \A u \in Tasks : task'[u] = IF u = t THEN new ELSE task[u]
  BY DEF PoolTypeOK
<1>2. TestsOnly'
  BY <1>1 DEF StatusInv, TestsOnly
<1>3. UnresetIsCrossed'
  BY <1>1 DEF StatusInv, UnresetIsCrossed, Updating
<1> QED
  BY <1>2, <1>3 DEF StatusInv, UntestedOnlyByOverlap, Live

\* The row of c changes: the updates of c that are under way must allow it.
LEMMA StatusRow ==
    ASSUME PoolTypeOK, StatusInv, NEW c \in Conns,
           \A d \in Conns : d # c => rows'[d] = rows[d],
           rows'[c].life = "live" /\ rows'[c].status = "connected"
               => rows'[c].about # "former",
           \A t \in Tasks : task'[t].pc = "testing" => task'[t].op = "test",
           \A t \in Tasks :
               task'[t].op = "update" /\ task'[t].pc \in {"removing", "committing"} =>
                   /\ Updating(t)
                   /\ task'[t].conn = task[t].conn /\ task'[t].status = task[t].status,
           \A t \in Tasks :
               Updating(t) /\ task[t].conn = c =>
                   /\ rows'[c].life # "unborn"
                   /\ task[t].status = "untested" =>
                         rows'[c].status = "untested" \/ rows'[c].about # "current"
    PROVE  StatusInv'
<1>1. \A t \in Tasks : task[t].conn \in Conns
  BY DEF PoolTypeOK, Task
<1>2. UntestedOnlyByOverlap'
  BY DEF StatusInv, UntestedOnlyByOverlap, Live
<1>3. UnresetIsCrossed'
  <2> SUFFICES ASSUME NEW t \in Tasks, task'[t].op = "update",
                      task'[t].pc \in {"removing", "committing"}
               PROVE  LET d == task'[t].conn IN
                        /\ rows'[d].life # "unborn"
                        /\ task'[t].status = "untested" =>
                              rows'[d].status = "untested" \/ rows'[d].about # "current"
    BY DEF UnresetIsCrossed, Updating
  <2>1. CASE task[t].conn = c
    BY <1>1, <2>1
  <2>2. CASE task[t].conn # c
    BY <1>1, <2>2 DEF StatusInv, UnresetIsCrossed
  <2> QED
    BY <2>1, <2>2
<1> QED
  BY <1>2, <1>3 DEF StatusInv, TestsOnly

LEMMA StatusBegins ==
    ASSUME PoolTypeOK, StatusInv, NEW t \in Tasks, NEW c \in Conns, NEW p \in Passwords,
           \/ GetEngine(t, c) \/ UpdateConnection(t, c, p)
           \/ DeleteConnection(t, c) \/ TestConnection(t, c)
    PROVE  StatusInv'
<1>1. CASE GetEngine(t, c)
  <2>1. [NewTask EXCEPT !.pc = "getting", !.conn = c].pc = "getting"
    BY NewTaskType DEF Task
  <2> QED
    BY <1>1, <2>1, StatusTask DEF GetEngine
<1>2. ASSUME NEW op \in {"update", "delete", "test"}, NEW q, NEW s,
             NEW pc \in {"removing", "testing"}, Load(t, c, op, q, s, pc),
             pc = "testing" => op = "test", op = "update" => s = rows[c].status
      PROVE  StatusInv'
  <2> DEFINE new == [NewTask EXCEPT !.pc = pc, !.op = op, !.conn = c,
                                    !.password = q, !.status = s]
  <2>1. /\ new.pc = pc /\ new.op = op /\ new.conn = c /\ new.status = s
    BY NewTaskType DEF Task
  <2>2. task' = [task EXCEPT ![t] = new] /\ rows' = rows /\ Live(c)
    BY <1>2 DEF Load
  <2> HIDE DEF new
  <2>3. \A u \in Tasks : task'[u] = IF u = t THEN new ELSE task[u]
    BY <2>2 DEF PoolTypeOK
  <2>4. TestsOnly'
    BY <1>2, <2>1, <2>3 DEF StatusInv, TestsOnly
  <2>5. UnresetIsCrossed'
    BY <1>2, <2>1, <2>2, <2>3 DEF StatusInv, UnresetIsCrossed, Updating, Live
  <2> QED
    BY <2>2, <2>4, <2>5 DEF StatusInv, UntestedOnlyByOverlap, Live
<1> QED
  BY <1>1, <1>2 DEF UpdateConnection, DeleteConnection, TestConnection

LEMMA StatusCreate ==
    ASSUME PoolTypeOK, StatusInv, NEW c \in Conns, NEW p \in Passwords, NEW s \in Outcomes,
           CreateConnection(c, p, s)
    PROVE  StatusInv'
<1>1. /\ \A d \in Conns : d # c => rows'[d] = rows[d]
      /\ rows'[c].about = "current" /\ rows[c].life = "unborn" /\ task' = task
  BY DEF CreateConnection, PoolTypeOK
<1>2. \A t \in Tasks : Updating(t) => task[t].conn # c
  BY <1>1 DEF StatusInv, UnresetIsCrossed
<1>3. \A t \in Tasks :
        task'[t].op = "update" /\ task'[t].pc \in {"removing", "committing"} =>
            Updating(t) /\ task'[t] = task[t]
  BY <1>1 DEF Updating
<1>4. \A t \in Tasks : task'[t].pc = "testing" => task'[t].op = "test"
  BY <1>1 DEF StatusInv, TestsOnly
<1> QED
  BY <1>1, <1>2, <1>3, <1>4, StatusRow

\* Tasks that commit an update or a deletion end there.
LEMMA StatusEnds ==
    ASSUME PoolTypeOK, StatusInv, NEW t \in Tasks, Ends(t)
    PROVE  /\ \A u \in Tasks : task'[u].pc = "testing" => task'[u].op = "test"
           /\ \A u \in Tasks :
                task'[u].op = "update" /\ task'[u].pc \in {"removing", "committing"} =>
                    Updating(u) /\ task'[u] = task[u]
<1>1. \A u \in Tasks : task'[u] = IF u = t THEN NewTask ELSE task[u]
  BY DEF PoolTypeOK, Ends
<1> QED
  BY <1>1, NewTaskType DEF StatusInv, TestsOnly, Updating

LEMMA StatusCommits ==
    ASSUME PoolTypeOK, StatusInv, NEW t \in Tasks, CommitUpdate(t) \/ CommitDelete(t)
    PROVE  StatusInv'
<1> DEFINE c == task[t].conn
<1>1. /\ c \in Conns /\ rows[c] \in Row /\ task[t].password \in Passwords
      /\ task[t].status \in Statuses
  BY DEF PoolTypeOK, Task
<1>2. /\ \A u \in Tasks : task'[u].pc = "testing" => task'[u].op = "test"
      /\ \A u \in Tasks :
           task'[u].op = "update" /\ task'[u].pc \in {"removing", "committing"} =>
               Updating(u) /\ task'[u] = task[u]
  BY StatusEnds DEF CommitUpdate, CommitDelete
<1>3. \A u \in Tasks : Updating(u) /\ task[u].conn = c =>
          /\ rows[c].life # "unborn"
          /\ task[u].status = "untested" =>
                rows[c].status = "untested" \/ rows[c].about # "current"
  BY DEF StatusInv, UnresetIsCrossed
<1>4. CASE CommitDelete(t)
  <2>1. rows'[c].life = "gone" /\ rows'[c].status = "untested"
    BY <1>1, <1>4 DEF CommitDelete, NewRow, PoolTypeOK
  <2>2. \A d \in Conns : d # c => rows'[d] = rows[d]
    BY <1>4 DEF CommitDelete, PoolTypeOK
  <2> QED
    BY <1>1, <1>2, <2>1, <2>2, StatusRow
<1>5. CASE CommitUpdate(t) /\ Live(c)
  <2> DEFINE row == Updated(rows[c], task[t].password, task[t].status)
             s == Reset(task[t].status, rows[c].status)
  <2>1. rows' = [rows EXCEPT ![c] = row]
    BY <1>5 DEF CommitUpdate
  <2>2. /\ rows'[c] = row
        /\ \A d \in Conns : d # c => rows'[d] = rows[d]
    BY <1>1, <2>1 DEF PoolTypeOK
  <2> HIDE DEF row
  <2>3. /\ rows'[c].life = rows[c].life
        /\ rows'[c].status = s
        /\ rows'[c].about =
              CASE s = "untested" -> "current"
                [] rows[c].about = "current" /\ rows[c].password # task[t].password -> "former"
                [] OTHER -> rows[c].about
    BY <1>1, <2>2, UpdatedType DEF row
  <2>4. Updating(t)
    BY <1>5 DEF CommitUpdate, Updating
  <2>5. s # "untested" => /\ s = rows[c].status /\ rows[c].about # "current"
                          /\ rows'[c].about = rows[c].about
    BY <1>3, <2>3, <2>4 DEF Reset
  <2> HIDE DEF s
  <2>6. rows'[c].life = "live" /\ rows'[c].status = "connected" => rows'[c].about # "former"
    BY <1>1, <1>5, <2>3, <2>5 DEF StatusInv, UntestedOnlyByOverlap, Live
  <2>7. rows'[c].life # "unborn"
    BY <1>5, <2>3 DEF Live
  <2> QED
    BY <1>1, <1>2, <2>2, <2>3, <2>5, <2>6, <2>7, StatusRow
<1>6. CASE CommitUpdate(t) /\ ~Live(c)
  <2>1. rows' = rows /\ task' = [task EXCEPT ![t] = NewTask]
    BY <1>6 DEF CommitUpdate, Ends
  <2> QED
    BY <2>1, NewTaskType, StatusTask
<1> QED
  BY <1>4, <1>5, <1>6

LEMMA StatusTests ==
    ASSUME PoolTypeOK, StatusInv, NEW t \in Tasks, NEW outcome \in Outcomes,
           CommitTest(t, outcome)
    PROVE  StatusInv'
<1> DEFINE c == task[t].conn
           a == IF Crossing(t, c) THEN "crossed" ELSE "current"
           new == IF Live(c) THEN [NewTask EXCEPT !.pc = "removing", !.op = "test", !.conn = c]
                  ELSE NewTask
<1>1. c \in Conns /\ rows[c] \in Row /\ task[t] \in Task
  BY DEF PoolTypeOK, Task
<1>2. task' = [task EXCEPT ![t] = new]
  BY DEF CommitTest, Ends
<1>3. task[t].op = "test"
  BY DEF CommitTest, StatusInv, TestsOnly
<1>4. /\ new.op = "test" \/ new.pc = "idle"
      /\ new.pc # "testing"
  BY NewTaskType DEF Task
<1> HIDE DEF new
<1>5. CASE rows' = rows
  BY <1>2, <1>4, <1>5, StatusTask
<1>6. CASE rows' = [rows EXCEPT ![c].status = outcome, ![c].about = a] /\ Live(c)
  <2>1. /\ rows'[c].life = rows[c].life /\ rows'[c].about = a
        /\ \A d \in Conns : d # c => rows'[d] = rows[d]
    BY <1>1, <1>6 DEF PoolTypeOK, Row
  <2>3. \A u \in Tasks : task'[u] = IF u = t THEN new ELSE task[u]
    BY <1>2 DEF PoolTypeOK
  <2>4. \A u \in Tasks :
          task'[u].op = "update" /\ task'[u].pc \in {"removing", "committing"} =>
              Updating(u) /\ u # t /\ task'[u] = task[u]
    BY <1>4, <2>3 DEF Updating
  <2>5. \A u \in Tasks : Updating(u) /\ task[u].conn = c => a = "crossed"
    BY DEF Crossing, Updating
  <2>6. a # "former"
    OBVIOUS
  <2>7. \A u \in Tasks : task'[u].pc = "testing" => task'[u].op = "test"
    BY <1>4, <2>3 DEF StatusInv, TestsOnly
  <2>8. rows'[c].life # "unborn"
    BY <1>6, <2>1 DEF Live
  <2> HIDE DEF a
  <2> QED
    BY <1>1, <2>1, <2>4, <2>5, <2>6, <2>7, <2>8, StatusRow
<1> QED
  BY <1>5, <1>6 DEF CommitTest

LEMMA StatusRest ==
    ASSUME PoolTypeOK, StatusInv,
           \/ \E t \in Tasks : Hit(t) \/ Miss(t) \/ ReadCredentials(t) \/ Install(t) \/ Remove(t)
           \/ StartSweep \/ FinishSweep \/ Tick \/ Restart \/ UNCHANGED poolVars
    PROVE  StatusInv'
<1>1. ASSUME NEW t \in Tasks, Hit(t) \/ Install(t)
      PROVE  StatusInv'
  <2>1. rows' = rows /\ task' = [task EXCEPT ![t] = NewTask]
    BY <1>1 DEF Hit, Install, Ends
  <2> QED
    BY <2>1, NewTaskType, StatusTask
<1>2. ASSUME NEW t \in Tasks, Miss(t)
      PROVE  StatusInv'
  <2>1. rows' = rows /\ task' = [task EXCEPT ![t] = [@ EXCEPT !.pc = "reading"]]
    BY <1>2 DEF Miss, Goes
  <2>2. [task[t] EXCEPT !.pc = "reading"].pc = "reading"
    BY DEF PoolTypeOK, Task
  <2> QED
    BY <2>1, <2>2, StatusTask
<1>3. ASSUME NEW t \in Tasks, ReadCredentials(t)
      PROVE  StatusInv'
  <2> DEFINE new == IF Live(task[t].conn)
                      THEN [task[t] EXCEPT !.pc = "installing",
                                           !.password = rows[task[t].conn].password,
                                           !.late = Evicted(task[t].conn)]
                      ELSE NewTask
  <2>1. rows' = rows /\ task' = [task EXCEPT ![t] = new]
    BY <1>3 DEF ReadCredentials, Ends, PoolTypeOK, Task
  <2>2. new.pc \in {"installing", "idle"}
    BY NewTaskType DEF PoolTypeOK, Task
  <2> HIDE DEF new
  <2> QED
    BY <2>1, <2>2, StatusTask
<1>4. ASSUME NEW t \in Tasks, Remove(t)
      PROVE  StatusInv'
  <2> DEFINE new == IF task[t].op = "test" THEN NewTask ELSE [task[t] EXCEPT !.pc = "committing"]
  <2>1. rows' = rows /\ task' = [task EXCEPT ![t] = new] /\ task[t].pc = "removing"
    BY <1>4 DEF Remove, Ends, Goes
  <2>2. CASE task[t].op = "test"
    BY <2>1, <2>2, NewTaskType, StatusTask
  <2>3. CASE task[t].op # "test"
    <3>1. /\ new.pc = "committing" /\ new.op = task[t].op
          /\ new.conn = task[t].conn /\ new.status = task[t].status
      BY <2>3 DEF PoolTypeOK, Task
    <3> HIDE DEF new
    <3> QED
      BY <2>1, <3>1, StatusTask DEF Updating
  <2> QED
    BY <2>2, <2>3
<1>5. CASE StartSweep \/ FinishSweep \/ Tick \/ UNCHANGED poolVars
  <2>1. rows' = rows /\ task' = task
    BY <1>5 DEF StartSweep, FinishSweep, Tick, poolVars
  <2> QED
    BY <2>1 DEF StatusInv, TestsOnly, UnresetIsCrossed, UntestedOnlyByOverlap, Updating, Live
<1>6. CASE Restart
  <2>1. rows' = rows /\ \A t \in Tasks : task'[t] = NewTask
    BY <1>6 DEF Restart, NothingCached
  <2> QED
    BY <2>1, NewTaskType DEF StatusInv, TestsOnly, UnresetIsCrossed, UntestedOnlyByOverlap,
       Updating, Live
<1>7. CASE \E t \in Tasks : Hit(t) \/ Miss(t) \/ ReadCredentials(t) \/ Install(t) \/ Remove(t)
  BY <1>1, <1>2, <1>3, <1>4, <1>7
<1> QED
  BY <1>5, <1>6, <1>7

-----------------------------------------------------------------------------
(* The clocks of an eviction *)

\* An engine's last use is when it was last handed out, and a sweep compares it
\* with a time that has passed.
ClockInv ==
    /\ \A c \in Conns : Cached(c) => cache[c].used = handed[c]
    /\ sweep # Asleep => sweep <= clock

LEMMA ClockInit == Init => ClockInv
BY DEF Init, ClockInv, Cached, Asleep

\* Handing an engine out is its use.
LEMMA ClockHands ==
    ASSUME PoolInv, ClockInv, NEW t \in Tasks, Hit(t) \/ Install(t)
    PROVE  ClockInv'
<1> DEFINE c == task[t].conn
<1>1. c \in Conns /\ clock \in 0 .. MaxClock
  BY DEF PoolInv, PoolTypeOK, Task
<1>2. /\ handed' = [handed EXCEPT ![c] = clock] /\ UNCHANGED <<sweep, clock>>
      /\ \A d \in Conns \ {c} : cache'[d] = cache[d]
  BY DEF Hit, Install, PoolInv, PoolTypeOK
<1>3. cache'[c].used = clock
  <2>1. CASE Hit(t)
    <3>1. cache[c] \in Engine
      BY <1>1, <2>1 DEF Hit, Cached, PoolInv, PoolTypeOK
    <3>2. cache'[c] = Touched(cache[c])
      BY <1>1, <2>1 DEF Hit, PoolInv, PoolTypeOK
    <3> QED
      BY <3>1, <3>2 DEF Touched, Engine
  <2>2. CASE Install(t)
    <3>1. cache'[c] = [password |-> task[t].password, used |-> clock, late |-> task[t].late]
      BY <1>1, <2>2 DEF Install, PoolInv, PoolTypeOK
    <3> QED
      BY <3>1
  <2> QED
    BY <2>1, <2>2
<1>4. handed'[c] = clock /\ \A d \in Conns \ {c} : handed'[d] = handed[d]
  BY <1>1, <1>2 DEF PoolInv, PoolTypeOK
<1> QED
  BY <1>2, <1>3, <1>4 DEF ClockInv, Cached

\* What remains in the cache is as it was, and no clock is turned back.
LEMMA ClockKeeps ==
    ASSUME PoolInv, ClockInv, handed' = handed,
           \A c \in Conns : cache'[c] # NoEngine => cache'[c] = cache[c],
           \/ sweep' = Asleep
           \/ sweep' = clock /\ clock' = clock
           \/ sweep' = sweep /\ clock' \in {clock, clock + 1}
    PROVE  ClockInv'
<1>1. \A c \in Conns : Cached(c)' => cache'[c].used = handed'[c]
  BY DEF ClockInv, Cached
<1>2. clock \in Nat /\ sweep \in Nat \cup {Asleep}
  BY PoolAssumption DEF PoolInv, PoolTypeOK
<1>3. sweep' # Asleep => sweep' <= clock'
  BY <1>2 DEF ClockInv
<1> QED
  BY <1>1, <1>3 DEF ClockInv

LEMMA ClockNext ==
    ASSUME PoolInv, ClockInv, [Next]_poolVars
    PROVE  ClockInv'
<1>1. ASSUME UNCHANGED <<cache, sweep, clock, handed>>
      PROVE  ClockInv'
  BY <1>1, ClockKeeps
<1>2. ASSUME NEW c \in Conns, NEW p \in Passwords, NEW s \in Outcomes,
             CreateConnection(c, p, s)
      PROVE  ClockInv'
  BY <1>1, <1>2 DEF CreateConnection
<1>3. ASSUME NEW t \in Tasks, NEW c \in Conns,
             \/ GetEngine(t, c) \/ DeleteConnection(t, c) \/ TestConnection(t, c)
             \/ \E p \in Passwords : UpdateConnection(t, c, p)
      PROVE  ClockInv'
  BY <1>1, <1>3 DEF GetEngine, DeleteConnection, TestConnection, UpdateConnection, Load
<1>4. ASSUME NEW t \in Tasks, Continue(t)
      PROVE  ClockInv'
  <2>1. CASE Hit(t) \/ Install(t)
    BY <2>1, ClockHands
  <2>2. CASE Remove(t)
    <3>1. Removed(task[t].conn) \in SUBSET Conns /\ \A d \in Removed(task[t].conn) : Cached(d)
      BY DEF PoolInv, PoolTypeOK, Task, Removed
    <3>2. Dispose(Removed(task[t].conn)) /\ UNCHANGED <<sweep, clock, handed>>
      BY <2>2 DEF Remove
    <3> QED
      BY <3>1, <3>2, DisposeKeeps, ClockKeeps
  <2>3. CASE \/ Miss(t) \/ ReadCredentials(t) \/ CommitUpdate(t) \/ CommitDelete(t)
             \/ \E o \in Outcomes : CommitTest(t, o)
    BY <1>1, <2>3 DEF Miss, ReadCredentials, CommitUpdate, CommitDelete, CommitTest
  <2> QED
    BY <1>4, <2>1, <2>2, <2>3 DEF Continue
<1>5. CASE FinishSweep
  <2>1. Expired(sweep) \in SUBSET Conns /\ \A c \in Expired(sweep) : Cached(c)
    BY DEF Expired
  <2>2. Dispose(Expired(sweep)) /\ sweep' = Asleep /\ handed' = handed
    BY <1>5 DEF FinishSweep
  <2> QED
    BY <2>1, <2>2, DisposeKeeps, ClockKeeps
<1>6. CASE StartSweep \/ Tick
  BY <1>6, ClockKeeps DEF StartSweep, Tick
<1>7. CASE Restart
  BY <1>7, ClockKeeps DEF Restart, NothingCached
<1>8. CASE UNCHANGED poolVars
  BY <1>1, <1>8 DEF poolVars
<1> QED
  BY <1>2, <1>3, <1>4, <1>5, <1>6, <1>7, <1>8 DEF Next

-----------------------------------------------------------------------------
(* Theorems *)

LEMMA PoolInductive == Spec => []PoolInv
<1>1. PoolInv /\ [Next]_poolVars => PoolInv'
  <2> SUFFICES ASSUME PoolInv, [Next]_poolVars PROVE PoolInv'
    OBVIOUS
  <2>1. ASSUME NEW c \in Conns, NEW p \in Passwords, NEW s \in Outcomes,
               CreateConnection(c, p, s)
        PROVE  PoolInv'
    BY <2>1, PoolCreate
  <2>2. ASSUME NEW t \in Tasks, NEW c \in Conns,
               \/ GetEngine(t, c) \/ DeleteConnection(t, c) \/ TestConnection(t, c)
               \/ \E p \in Passwords : UpdateConnection(t, c, p)
        PROVE  PoolInv'
    BY <2>2, PoolBegins, PoolAssumption
  <2>3. ASSUME NEW t \in Tasks, Continue(t)
        PROVE  PoolInv'
    <3>1. Outcomes # {}
      BY DEF Outcomes
    <3>2. CASE Hit(t) \/ Miss(t) \/ ReadCredentials(t) \/ Install(t) \/ Remove(t)
      BY <3>2, PoolHit, PoolMiss, PoolRead, PoolInstall, PoolRemove
    <3>3. CASE CommitUpdate(t) \/ CommitDelete(t) \/ \E o \in Outcomes : CommitTest(t, o)
      BY <3>1, <3>3, PoolCommits
    <3> QED
      BY <2>3, <3>2, <3>3 DEF Continue
  <2>4. CASE FinishSweep
    BY <2>4, PoolFinishSweep
  <2>5. CASE StartSweep \/ Tick \/ Restart \/ UNCHANGED poolVars
    BY <2>5, PoolRest
  <2> QED
    BY <2>1, <2>2, <2>3, <2>4, <2>5 DEF Next
<1> QED
  BY <1>1, PoolInit, PTL DEF Spec

\* No interleaving of queries, evictions and deletions leaves an engine open that
\* the cache does not hold.
THEOREM NoEngineLeaks == Spec => []EveryOpenEngineIsCached
<1>1. PoolInv => EveryOpenEngineIsCached
  BY DEF PoolInv
<1> QED
  BY <1>1, PoolInductive, PTL

\* A query is given current credentials of an existing connection, or those read
\* while an update or deletion was between its eviction and its commit.
THEOREM OnlyTheRaceIsStale == Spec => []StaleOnlyByRace
<1>1. PoolInv => StaleOnlyByRace
  BY DEF PoolInv
<1> QED
  BY <1>1, PoolInductive, PTL

\* Every state has its types; the runs check it on one connection.
THEOREM PoolTypeCorrect == Spec => []PoolTypeOK
<1>1. PoolInv => PoolTypeOK
  BY DEF PoolInv
<1> QED
  BY <1>1, PoolInductive, PTL

\* A password that was never tested is shown as connected only when a test of its
\* predecessor overlapped its change.
THEOREM ShownAsTested == Spec => []UntestedOnlyByOverlap
<1>1. PoolTypeOK /\ StatusInv /\ [Next]_poolVars => StatusInv'
  <2> SUFFICES ASSUME PoolTypeOK, StatusInv, [Next]_poolVars PROVE StatusInv'
    OBVIOUS
  <2>1. ASSUME NEW c \in Conns, NEW p \in Passwords, NEW s \in Outcomes,
               CreateConnection(c, p, s)
        PROVE  StatusInv'
    BY <2>1, StatusCreate
  <2>2. ASSUME NEW t \in Tasks, NEW c \in Conns,
               \/ GetEngine(t, c) \/ DeleteConnection(t, c) \/ TestConnection(t, c)
               \/ \E p \in Passwords : UpdateConnection(t, c, p)
        PROVE  StatusInv'
    BY <2>2, StatusBegins, PoolAssumption
  <2>3. ASSUME NEW t \in Tasks, Continue(t)
        PROVE  StatusInv'
    BY <2>3, StatusRest, StatusCommits, StatusTests DEF Continue
  <2>4. CASE StartSweep \/ FinishSweep \/ Tick \/ Restart \/ UNCHANGED poolVars
    BY <2>4, StatusRest
  <2> QED
    BY <2>1, <2>2, <2>3, <2>4 DEF Next
<1>2. StatusInv => UntestedOnlyByOverlap
  BY DEF StatusInv
<1> QED
  BY <1>1, <1>2, StatusInit, PoolTypeCorrect, PTL DEF Spec

\* Whatever the sweep waited for, an eviction takes only engines that nobody was
\* given for longer than the TTL.
THEOREM RecentEnginesStay == Spec => EvictionSparesRecent
<1>1. PoolInv /\ ClockInv /\ [Next]_poolVars => ClockInv'
  BY ClockNext
<1>2. ASSUME PoolInv, ClockInv, FinishSweep, NEW c \in Conns, Cached(c), cache'[c] = NoEngine
      PROVE  clock - handed[c] > Ttl
  <2>1. c \in Expired(sweep)
    BY <1>2 DEF FinishSweep, Dispose, Cached
  <2>2. sweep - handed[c] > Ttl /\ sweep <= clock
    BY <1>2, <2>1 DEF Expired, FinishSweep, ClockInv
  <2>3. sweep \in Nat /\ clock \in Nat /\ handed[c] \in Nat /\ Ttl \in Nat
    BY <1>2, PoolAssumption DEF FinishSweep, PoolInv, PoolTypeOK
  <2> QED
    BY <2>2, <2>3
<1>3. PoolInv /\ ClockInv =>
        [FinishSweep => \A c \in Conns :
            (Cached(c) /\ cache'[c] = NoEngine) => clock - handed[c] > Ttl]_poolVars
  BY <1>2
<1> QED
  BY <1>1, <1>3, ClockInit, PoolInductive, PTL DEF Spec, EvictionSparesRecent

-----------------------------------------------------------------------------
(* The composition implements the pool *)

\* Every step of the composition is a step of the pool or leaves it alone, so
\* what is proved of EnginePool holds with the catalog on top of it.
THEOREM PoolUnderCatalog == CatalogSpec => Spec
<1>1. CatalogInit => Init
  BY DEF CatalogInit
<1>2. [CatalogNext]_allVars => [Next]_poolVars
  <2> SUFFICES ASSUME [CatalogNext]_allVars PROVE [Next]_poolVars
    OBVIOUS
  <2>1. ASSUME NEW t \in Tasks, Begins(t) \/ Proceeds(t) PROVE Next
    BY <2>1 DEF Begins, Proceeds, Next, Continue
  <2>2. ASSUME NEW t \in Tasks, Reads(t) PROVE UNCHANGED poolVars
    BY <2>2 DEF Reads, FindCatalog, LoadStruct, StoreStruct, LoadStructFails, ReaderGoes
  <2>3. ASSUME NEW c \in Conns, AlterSchema(c) PROVE UNCHANGED poolVars
    BY <2>3 DEF AlterSchema
  <2>4. CASE UNCHANGED allVars
    BY <2>4 DEF allVars
  <2>5. CASE CatalogNext
    BY <2>1, <2>2, <2>3, <2>5 DEF CatalogNext, RestartAll, Next
  <2> QED
    BY <2>4, <2>5
<1> QED
  BY <1>1, <1>2, PTL DEF CatalogSpec, Spec

-----------------------------------------------------------------------------
(* No entry is older than the last engine to leave *)

\* A reader whose engine is still cached began to read after the last one left.
LoadsAreRecent ==
    \A t \in Tasks : LET r == reader[t] IN
        r.pc = "loading" /\ r.mine => r.seen >= floor[r.conn]

FloorIsPast == \A c \in Conns : floor[c] <= schema[c]

CatalogInv == CatalogTypeOK /\ LoadsAreRecent /\ FloorIsPast /\ CatalogIsRenewed

LEMMA NoReaderType == NoReader \in Reader /\ NoReader.pc = "idle"
<1>1. (CHOOSE c \in Conns : TRUE) \in Conns
  BY PoolAssumption
<1> QED
  BY <1>1, CatalogAssumption DEF NoReader, Reader

LEMMA CatalogStarts == CatalogInit => CatalogInv
<1> SUFFICES ASSUME CatalogInit PROVE CatalogInv
  OBVIOUS
<1>1. PoolTypeOK
  BY PoolInit DEF CatalogInit, PoolInv
<1> QED
  BY <1>1, NoReaderType, CatalogAssumption
     DEF CatalogInit, CatalogInv, CatalogTypeOK, LoadsAreRecent, FloorIsPast, CatalogIsRenewed,
         NoCatalog

\* The catalog stands still, and so do its readers but for one that is given an
\* engine, finds an entry or gives up.
LEMMA CatalogStands ==
    ASSUME CatalogInv, PoolTypeOK', UNCHANGED <<schema, catalog, floor>>,
           reader' \in [Tasks -> Reader],
           \A t \in Tasks : reader'[t].pc = "loading" => reader'[t] = reader[t]
    PROVE  CatalogInv'
<1>1. LoadsAreRecent'
  BY DEF CatalogInv, LoadsAreRecent
<1> QED
  BY <1>1 DEF CatalogInv, CatalogTypeOK, FloorIsPast, CatalogIsRenewed

\* Engines leave the cache, and with them their entries.
LEMMA CatalogLoses ==
    ASSUME CatalogInv, PoolTypeOK', EnginesLeave
    PROVE  CatalogInv'
<1> DEFINE gone == Leaves
<1>1. /\ catalog' = [c \in Conns |-> IF c \in gone THEN NoCatalog ELSE catalog[c]]
      /\ floor' = [c \in Conns |-> IF c \in gone THEN schema[c] ELSE floor[c]]
      /\ reader' = [t \in Tasks |-> IF reader[t].conn \in gone
                                      THEN [reader[t] EXCEPT !.mine = FALSE]
                                      ELSE reader[t]]
      /\ schema' = schema
  BY DEF EnginesLeave, Invalidated
<1> HIDE DEF gone
<1>2. /\ schema \in [Conns -> 0 .. MaxSchema] /\ floor \in [Conns -> 0 .. MaxSchema]
      /\ catalog \in [Conns -> 0 .. MaxSchema \cup {NoCatalog}]
      /\ reader \in [Tasks -> Reader]
  BY DEF CatalogInv, CatalogTypeOK
<1>3. \A t \in Tasks : [reader[t] EXCEPT !.mine = FALSE] \in Reader
                       /\ [reader[t] EXCEPT !.mine = FALSE].mine = FALSE
  BY <1>2 DEF Reader
<1>4. reader' \in [Tasks -> Reader]
  BY <1>1, <1>2, <1>3
<1>5. CatalogTypeOK'
  BY <1>1, <1>2, <1>4 DEF CatalogTypeOK
<1>6. LoadsAreRecent'
  <2> SUFFICES ASSUME NEW t \in Tasks, reader'[t].pc = "loading", reader'[t].mine
               PROVE  reader'[t].seen >= floor'[reader'[t].conn]
    BY DEF LoadsAreRecent
  <2>1. reader[t].conn \notin gone /\ reader'[t] = reader[t]
    BY <1>1, <1>3
  <2>2. reader[t].conn \in Conns
    BY <1>2 DEF Reader
  <2> QED
    BY <1>1, <2>1, <2>2 DEF CatalogInv, LoadsAreRecent
<1>7. FloorIsPast'
  BY <1>1, <1>2 DEF CatalogInv, FloorIsPast
<1>8. CatalogIsRenewed'
  BY <1>1 DEF CatalogInv, CatalogIsRenewed
<1> QED
  BY <1>5, <1>6, <1>7, <1>8 DEF CatalogInv

LEMMA CatalogReads ==
    ASSUME CatalogInv, PoolTypeOK', NEW t \in Tasks, Reads(t)
    PROVE  CatalogInv'
<1> DEFINE r == reader[t]
<1>1. /\ r \in Reader /\ r.conn \in Conns
      /\ reader \in [Tasks -> Reader]
      /\ schema \in [Conns -> 0 .. MaxSchema] /\ floor \in [Conns -> 0 .. MaxSchema]
      /\ catalog \in [Conns -> 0 .. MaxSchema \cup {NoCatalog}]
  BY DEF CatalogInv, CatalogTypeOK, Reader
<1>2. CASE FindCatalog(t) \/ LoadStructFails(t)
  <2>1. reader' = [reader EXCEPT ![t] = NoReader] /\ UNCHANGED <<schema, catalog, floor>>
    BY <1>2 DEF FindCatalog, LoadStructFails, ReaderGoes
  <2> QED
    BY <1>1, <2>1, NoReaderType, CatalogStands
<1>3. CASE LoadStruct(t)
  <2> DEFINE new == [r EXCEPT !.pc = "loading", !.seen = schema[r.conn]]
  <2>1. reader' = [reader EXCEPT ![t] = new] /\ UNCHANGED <<schema, catalog, floor>>
    BY <1>3 DEF LoadStruct, ReaderGoes
  <2>2. new \in Reader /\ new.conn = r.conn /\ new.seen = schema[r.conn]
    BY <1>1 DEF Reader
  <2> HIDE DEF new
  <2>3. \A u \in Tasks : reader'[u] = IF u = t THEN new ELSE reader[u]
    BY <1>1, <2>1
  <2>4. schema[r.conn] >= floor[r.conn]
    BY <1>1 DEF CatalogInv, FloorIsPast
  <2>5. LoadsAreRecent'
    BY <2>1, <2>2, <2>3, <2>4 DEF CatalogInv, LoadsAreRecent
  <2>6. CatalogTypeOK'
    BY <1>1, <2>1, <2>2 DEF CatalogTypeOK
  <2> QED
    BY <2>1, <2>5, <2>6 DEF CatalogInv, FloorIsPast, CatalogIsRenewed
<1>4. CASE StoreStruct(t)
  <2>1. /\ reader' = [reader EXCEPT ![t] = NoReader] /\ UNCHANGED <<schema, floor>>
        /\ catalog' = IF r.mine THEN [catalog EXCEPT ![r.conn] = r.seen] ELSE catalog
        /\ r.pc = "loading"
    BY <1>4 DEF StoreStruct, ReaderGoes, Keyed
  <2>2. \A c \in Conns : catalog'[c] = IF r.mine /\ c = r.conn THEN r.seen ELSE catalog[c]
    BY <1>1, <2>1
  <2>3. r.mine => r.seen >= floor[r.conn]
    BY <2>1 DEF CatalogInv, LoadsAreRecent
  <2>4. CatalogIsRenewed'
    BY <2>1, <2>2, <2>3 DEF CatalogInv, CatalogIsRenewed
  <2>5. CatalogTypeOK'
    BY <1>1, <2>1, NoReaderType DEF CatalogTypeOK, Reader
  <2>6. LoadsAreRecent'
    BY <1>1, <2>1, NoReaderType DEF CatalogInv, LoadsAreRecent
  <2> QED
    BY <2>1, <2>4, <2>5, <2>6 DEF CatalogInv, FloorIsPast
<1> QED
  BY <1>2, <1>3, <1>4 DEF Reads

LEMMA CatalogSteps ==
    ASSUME CatalogInv, PoolTypeOK', [CatalogNext]_allVars
    PROVE  CatalogInv'
<1>1. reader \in [Tasks -> Reader]
  BY DEF CatalogInv, CatalogTypeOK
<1>2. CASE PoolOnly
  BY <1>1, <1>2, CatalogStands DEF PoolOnly, catalogVars
<1>3. CASE EnginesLeave
  BY <1>3, CatalogLoses
<1>4. ASSUME NEW t \in Tasks, Hit(t) \/ Install(t), Given(t)
      PROVE  CatalogInv'
  <2>1. task[t].conn \in Conns
    BY DEF CatalogInv, CatalogTypeOK, PoolTypeOK, Task
  <2>2. [NoReader EXCEPT !.pc = "asked", !.conn = task[t].conn, !.mine = TRUE] \in Reader
        /\ [NoReader EXCEPT !.pc = "asked", !.conn = task[t].conn, !.mine = TRUE].pc = "asked"
    BY <2>1, NoReaderType DEF Reader
  <2> QED
    BY <1>1, <1>4, <2>2, CatalogStands DEF Given
<1>5. ASSUME NEW c \in Conns, AlterSchema(c)
      PROVE  CatalogInv'
  <2>1. /\ schema' = [schema EXCEPT ![c] = @ + 1] /\ schema[c] < MaxSchema
        /\ UNCHANGED <<catalog, reader, floor>>
    BY <1>5 DEF AlterSchema
  <2>2. schema \in [Conns -> 0 .. MaxSchema] /\ floor \in [Conns -> 0 .. MaxSchema]
    BY DEF CatalogInv, CatalogTypeOK
  <2>3. FloorIsPast'
    BY <2>1, <2>2 DEF CatalogInv, FloorIsPast
  <2>4. CatalogTypeOK'
    BY <2>1, <2>2, CatalogAssumption DEF CatalogInv, CatalogTypeOK
  <2> QED
    BY <2>1, <2>3, <2>4 DEF CatalogInv, LoadsAreRecent, CatalogIsRenewed
<1>6. CASE RestartAll
  <2>1. /\ catalog' = [c \in Conns |-> NoCatalog] /\ reader' = [t \in Tasks |-> NoReader]
        /\ floor' = schema /\ schema' = schema
    BY <1>6 DEF RestartAll
  <2>2. schema \in [Conns -> 0 .. MaxSchema]
    BY DEF CatalogInv, CatalogTypeOK
  <2> QED
    BY <2>1, <2>2, NoReaderType DEF CatalogInv, CatalogTypeOK, LoadsAreRecent, FloorIsPast,
       CatalogIsRenewed
<1>7. CASE UNCHANGED allVars
  BY <1>2, <1>7 DEF allVars, PoolOnly
<1>8. CASE CatalogNext
  BY <1>2, <1>3, <1>4, <1>5, <1>6, <1>8, CatalogReads DEF CatalogNext, Proceeds
<1> QED
  BY <1>7, <1>8

\* No entry of the catalog predates the last engine of its connection to leave
\* the cache, for any number of connections, coroutines and schema changes.
THEOREM CatalogRenewed == CatalogSpec => []CatalogIsRenewed
<1>1. CatalogInv /\ PoolTypeOK' /\ [CatalogNext]_allVars => CatalogInv'
  BY CatalogSteps
<1>2. CatalogInv => CatalogIsRenewed
  BY DEF CatalogInv
<1> QED
  BY <1>1, <1>2, CatalogStarts, PoolUnderCatalog, PoolTypeCorrect, PTL DEF CatalogSpec
=============================================================================
