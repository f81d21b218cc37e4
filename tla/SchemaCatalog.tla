---------------------------- MODULE SchemaCatalog ----------------------------
(***************************************************************************)
(* The cache of introspected schemas (DynamicSchemaCatalog) on top of the  *)
(* engine pool.  Its key is the engine object, held weakly: the entry of a *)
(* connection is the one of the engine that is cached now, and it leaves   *)
(* the cache with that engine.  A node that has been given an engine looks *)
(* its schema up, and on a miss awaits the customer's database, while the  *)
(* engine may be removed and another one built.                            *)
(***************************************************************************)
EXTENDS EnginePool

CONSTANT MaxSchema  \* bound on the changes of a customer's schema

ASSUME CatalogAssumption == MaxSchema \in Nat

VARIABLES
    schema,   \* version of the schema behind each connection
    catalog,  \* version in the entry of the cached engine, or NoCatalog
    reader,   \* what each coroutine is doing with the engine it was given
    floor     \* history: the schema when an engine of c last left the cache

catalogVars == <<schema, catalog, reader, floor>>
allVars == <<poolVars, catalogVars>>

NoCatalog == -1

\* mine: the engine it holds is still the cached one.
\* seen: the version of the table list it has read.
Reader == [pc : {"idle", "asked", "loading"}, conn : Conns, mine : BOOLEAN,
           seen : 0 .. MaxSchema]
NoReader == [pc |-> "idle", conn |-> CHOOSE c \in Conns : TRUE, mine |-> FALSE, seen |-> 0]

CatalogTypeOK ==
    /\ PoolTypeOK
    /\ schema \in [Conns -> 0 .. MaxSchema]
    /\ catalog \in [Conns -> 0 .. MaxSchema \cup {NoCatalog}]
    /\ reader \in [Tasks -> Reader]
    /\ floor \in [Conns -> 0 .. MaxSchema]

CatalogInit ==
    /\ Init
    /\ schema = [c \in Conns |-> 0]
    /\ catalog = [c \in Conns |-> NoCatalog]
    /\ reader = [t \in Tasks |-> NoReader]
    /\ floor = [c \in Conns |-> 0]

-----------------------------------------------------------------------------
(* Steps of the pool *)

\* Connections whose engine leaves the cache in this step.
Leaves == {c \in Conns : Cached(c) /\ cache'[c] = NoEngine}

Invalidated == [c \in Conns |-> IF c \in Leaves THEN NoCatalog ELSE catalog[c]]

\* remove and evict_expired invalidate the entry of every engine they take.
EnginesLeave ==
    /\ catalog' = Invalidated
    /\ floor' = [c \in Conns |-> IF c \in Leaves THEN schema[c] ELSE floor[c]]
    /\ reader' = [t \in Tasks |-> IF reader[t].conn \in Leaves
                                    THEN [reader[t] EXCEPT !.mine = FALSE]
                                    ELSE reader[t]]
    /\ UNCHANGED schema

\* Nothing changes but the pool.
PoolOnly == UNCHANGED catalogVars

\* get_engine returns to table_selector or validate_sql, which turn to the
\* catalog, or to execute_sql, which does not.
Given(t) ==
    /\ \/ reader' = reader
       \/ reader' = [reader EXCEPT ![t] = [NoReader EXCEPT
                        !.pc = "asked", !.conn = task[t].conn, !.mine = TRUE]]
    /\ UNCHANGED <<schema, catalog, floor>>

\* A coroutine is in one place: it begins nothing while it reads a schema.
Begins(t) ==
    /\ reader[t].pc = "idle"
    /\ \E c \in Conns :
         \/ GetEngine(t, c) \/ DeleteConnection(t, c) \/ TestConnection(t, c)
         \/ \E p \in Passwords : UpdateConnection(t, c, p)

Proceeds(t) ==
    \/ (Hit(t) \/ Install(t)) /\ Given(t)
    \/ (Miss(t) \/ ReadCredentials(t)) /\ PoolOnly
    \/ Remove(t) /\ EnginesLeave
    \/ (CommitUpdate(t) \/ CommitDelete(t)) /\ PoolOnly
    \/ \E outcome \in Outcomes : CommitTest(t, outcome) /\ PoolOnly

\* A new process has an empty catalog and no coroutine.
RestartAll ==
    /\ Restart
    /\ catalog' = [c \in Conns |-> NoCatalog]
    /\ reader' = [t \in Tasks |-> NoReader]
    /\ floor' = schema
    /\ UNCHANGED schema

-----------------------------------------------------------------------------
(* The catalog *)

ReaderGoes(t, new) ==
    /\ reader' = [reader EXCEPT ![t] = new]
    /\ UNCHANGED <<poolVars, schema, floor>>

\* _get_cached finds the entry of the engine it was given.
FindCatalog(t) ==
    LET c == reader[t].conn IN
    /\ reader[t].pc = "asked"
    /\ reader[t].mine /\ catalog[c] # NoCatalog
    /\ ReaderGoes(t, NoReader)
    /\ UNCHANGED catalog

\* _load_struct lists the tables.  An engine that has left the cache has no
\* entry any more; it still connects.
LoadStruct(t) ==
    LET c == reader[t].conn IN
    /\ reader[t].pc = "asked"
    /\ ~reader[t].mine \/ catalog[c] = NoCatalog
    /\ ReaderGoes(t, [reader[t] EXCEPT !.pc = "loading", !.seen = schema[c]])
    /\ UNCHANGED catalog

\* Mutant of Keyed: the key is the connection, or its URL, and not the engine.
KeyedByConnection(r) == [catalog EXCEPT ![r.conn] = r.seen]

\* The cache once a reader has stored what it loaded under its engine: an entry
\* under an engine that is no longer cached goes away with that engine.
Keyed(r) == IF r.mine THEN [catalog EXCEPT ![r.conn] = r.seen] ELSE catalog

StoreStruct(t) ==
    /\ reader[t].pc = "loading"
    /\ catalog' = Keyed(reader[t])
    /\ ReaderGoes(t, NoReader)

\* The customer's database refuses or breaks the introspection.
LoadStructFails(t) ==
    /\ reader[t].pc = "loading"
    /\ ReaderGoes(t, NoReader)
    /\ UNCHANGED catalog

\* The customer changes tables.
AlterSchema(c) ==
    /\ schema[c] < MaxSchema
    /\ schema' = [schema EXCEPT ![c] = @ + 1]
    /\ UNCHANGED <<poolVars, catalog, reader, floor>>

Reads(t) == FindCatalog(t) \/ LoadStruct(t) \/ StoreStruct(t) \/ LoadStructFails(t)

CatalogNext ==
    \/ \E c \in Conns :
         \/ \E p \in Passwords, s \in Outcomes : CreateConnection(c, p, s) /\ PoolOnly
         \/ AlterSchema(c)
    \/ \E t \in Tasks :
         \/ Begins(t) /\ PoolOnly
         \/ Proceeds(t)
         \/ Reads(t)
    \/ (StartSweep \/ Tick) /\ PoolOnly
    \/ FinishSweep /\ EnginesLeave
    \/ RestartAll

\* asyncio runs every ready coroutine, and its Lock is first come, first served:
\* a coroutine the lock is freed for again and again gets it.
CatalogSpec ==
    /\ CatalogInit /\ [][CatalogNext]_allVars
    /\ \A t \in Tasks : SF_allVars(Proceeds(t))

-----------------------------------------------------------------------------
(* Properties *)

\* A test, a password change and an idle hour renew what questions know of the
\* schema: no entry is older than the last engine of its connection to leave the
\* cache, whoever was introspecting at that moment.
CatalogIsRenewed ==
    \A c \in Conns : catalog[c] # NoCatalog => catalog[c] >= floor[c]
=============================================================================
