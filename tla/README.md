# Verification of SQL Data Cockpit

TLA+ specifications of this repository's backend, of its chat page and of the
session of its browser client, TLC models that check them on small instances,
and TLAPS proofs about them. Paths below are relative to `src/`; `backend/app/` is left out where a file name is unambiguous.

The program answers questions about a database. A question starts a LangGraph
run: a model writes SQL, the SQL is validated, the user approves or rejects it,
it is executed on the sample database (Chinook) or on a database the user has
connected, and a model words the answer. The run pauses for the approval, is
checkpointed in PostgreSQL and is resumed by another HTTP request, perhaps in
another process. What can go wrong is therefore mostly a matter of order:
late, repeated and concurrent requests, crashes between steps, connections
deleted or changed under a running question, counters shared by workers.

## 1. Inventory

| Component | State it keeps | Operations | Interacts with | Hard part | Correct when |
|---|---|---|---|---|---|
| Agent graph (`graph.py`, `graph_routing.py`, `nodes/`) | `AgentState` of a thread | eight nodes and their routers | model API, engine pool, checkpointer | fields that survive a retry or a pause; one router key with two targets | SQL runs only after an approval of that SQL; retries are bounded |
| Chat and review endpoints (`main.py`) | none of their own; generators in process memory | `/chat`, `/chat/review`, the event stream | graph, guard, conversations, analyses | checks before the guard, state read again under it, disconnects | a review counts once, for the newest proposal |
| `workflow_guard` (`workflow_security.py`) | advisory locks of a database connection | take user lock, take conversation lock, release | every run | two locks, refusals, lost connections | one run per user and per thread |
| Quotas (`workflow_security.py`, migration 0005) | `query_usage` | count a request in each period | guard, sample chats | shared by workers, bucket boundaries, rollback | a bucket admits its limit |
| Checkpointer (LangGraph, external) | one checkpoint per thread | put, get | every run | writes that lag behind a crash | a resumed thread is one that existed |
| Conversations (`memory.py`, `conversations_router.py`) | `conversations`, `messages` | create, rename, delete, append, context, title | chat, connections | a question stored before the guard admits it, deletion during a run, the order of commits | a context is the end of the transcript, answers follow their questions, stored answers are those of their run |
| Connections (`connections_router.py`) | `user_connections` | create, update, delete, test, references | engine pool, conversations, analyses | slow awaits between reading and writing a row | status, engine and bindings follow the row |
| Application pools (`db.py`, `workflow_security.py`) | the connections of the application's pool and of the lock engine's | check out, wait, time out | every handler, the engine lock | who keeps one while waiting for what | nobody waits for ever |
| Engine pool (`engine_pool.py`) | `_engines` of one worker | get, remove, evict | nodes, connections | one lock held across awaits, staleness | no engine leaks, credentials are current |
| Saved analyses (`analyses_router.py`) | `saved_analyses` | save, list, run, delete | chat, connections | source deleted, snapshot replaced | the SQL is the approved one and never changes |
| Accounts (`auth.py`, `auth_router.py`, `auth_security.py`) | `users`, `refresh_tokens`, counters | sign up, log in, refresh, log out, change password | every handler | rotation races, revocation against issue, row locks that deadlock | a token is rotated once; a password change ends what began before it |
| Recovery links (`account_recovery.py`, `account_email.py`) | `account_tokens` | issue, deliver, consume | accounts | double use, mail failing between steps | a link works once and not after the password changed |
| Settings (`settings_router.py`, `llm.py`, `crypto.py`) | encrypted key on `users` | store, delete, resolve | chat, nodes | none across steps | the user's own key is used |
| Schema catalog (`schema_catalog.py`, `connection_references.py`) | per-engine cache | load, prune, invalidate | nodes, engine pool | an introspection that outlives its engine | no entry is older than the last time its engine was dropped |
| SQL and transport policy (`sql_policy.py`, `connection_security.py`, `database_transport.py`) | none | pure checks | nodes, pool | parsing | out of scope here |
| Chat page (`frontend/src/pages/Chat.tsx`, `ApprovalCard.tsx`) | messages on screen, active conversation, one open stream | ask, review, select, delete, leave; read events, load messages | chat, conversations | loads and streams that cross what the user does | the screen shows the active conversation, a card the proposal that waits; the input is not locked for good |
| Browser session (`frontend/src/lib`) | access token and user of a tab, its queue of calls, the shared cookie | refresh on 401 and on mounting, sign in, visit, log out | accounts | several tabs, one cookie, lost replies | the calls of a tab spend the cookie once, a tab acts as the account it shows, a logout ends its session |

The hazards found on the way are listed in `PROJECT.json`, each at its line and
with the properties that would catch it.

## 2. Modules

### AgentGraph, QueryWorkflow, WorkflowProperties, MCQueryWorkflow

`AgentGraph` has what one node returns (`Generated`, `Validated`, `Reviewed`,
`Executed`, `Retried`) and where the routers go (`AfterValidate`, `AfterReview`,
`AfterExecute`, `AfterDecide`), as operators on a thread's `AgentState`. A SQL
text is a model value; a validation, an execution and a model's answer are
nondeterministic choices.

`QueryWorkflow` runs them. Its processes are HTTP requests with a program
counter (`idle`, `queued`, `userLocked`, `guarded`, `checked`, `resuming`,
`running`, `executing`, `answering`); its shared state is the application
database (`conv`, `messages`,
`analyses`, `live`), the durable checkpoint of each thread (`ckpt`), the two
kinds of advisory lock (`userLock`, `convLock`) and each request's copy of its
run in process memory (`run`). One node is one step, so everything else
interleaves between nodes; sending SQL and getting its result are two steps.
The correspondence is one action per handler or node; `map` in `PROJECT.json`
names the lines. Some choices worth knowing:

- `StartQuestion` starts the thread over on `ckpt`, including the state an
  earlier pause left there: fields not set by `/chat` survive, as in LangGraph.
- `SubmitReview` does what `/chat/review` does before its stream starts. The
  early "already reviewed" check may be skipped, because the code skips it when
  the checkpoint cannot be read. Under the guard a review takes three steps:
  `CheckReview` reads a snapshot of the thread and judges it, `CheckSource` looks
  up the connection the snapshot names, and `ResumeReview` goes on from whatever
  the thread's latest checkpoint is by then, because `Command(resume)` loads it
  anew. Other requests, crashes and lost locks come between.
- `Abort` is a dead worker or a cancelled generator: locks go with their
  connection, and the thread restarts from what was durable.
- `SaverMayLag` lets a superstep's checkpoint not be durable yet when the next
  begins; `LockMayDrop` lets the database drop the connection that holds the
  locks while the request goes on. Both are constants, so that a run can say
  which properties survive them.
- `minted`, `offered`, `approved`, `executed`, `attempts` are history variables:
  no action reads them except that reviews are submitted for offered proposals.

### ReviewContract

The abstract specification: proposals are opened under fresh tokens, one per
conversation; an approval grants the open one; a grant runs once. It knows no
graph, request, lock or checkpoint. `WorkflowProperties!Contract` instantiates
it with what can be read off the checkpoint and the histories, and the run
`review` checks that `QueryWorkflow` implements it.

### SourceBinding

`QueryWorkflow` takes the binding of a conversation to a source, and the
deletion of a connection, in one step each. `SourceBinding` splits both into
their statements: `/chat` creates the conversation and commits, looks the
connection up, writes the conversation's row, commits; `DELETE /connections`
reads the row, marks the conversations, deletes the row (which clears the
references) and commits. What PostgreSQL's READ COMMITTED does is modelled as
far as these statements can tell: statements see committed rows, a written row
is locked until its transaction ends, a new reference holds a key-share lock on
the row it names. `raced` is a history variable: conversations bound while a
deletion of their source was between its marking and its commit.

### EnginePool and SchemaCatalog

`EnginePool` is one worker's engine cache, the coroutines that use it, and the
connection handlers that invalidate it. `get_engine` is split at its awaits (take
the lock and miss, read the credentials, install); `remove` and `evict_expired`
hold the lock from start to end and are one step each. The handlers are split at
theirs: load the row, evict or test, commit. SQLAlchemy writes only attributes
that differ from what was loaded, which `CommitUpdate` and `CommitTest` respect.
`open` counts engines built and not disposed. `late` (of an engine) and `about`
(of a row: which password its status speaks of, the stored one, one that was
being changed while it was tested, or a former one) are history fields.

`SchemaCatalog` adds the cache of introspected schemas. The code keys it weakly
by the engine object, so the model keeps at most one entry per connection, for
the engine that is cached now, and drops it with that engine. A node that got an
engine looks the entry up (`FindCatalog`), or reads the table list from the customer's
database and stores the entry when the load ends, while the engine may be
removed and another one built; `mine` says whether a coroutine still holds the
cached engine. `CatalogNext` extends each action of the pool with what it does
to the entries, and `CatalogSpec` carries the fairness. `floor` is the history
that `CatalogIsRenewed` speaks of.

### AppPool

The requests of one worker over what is bounded: the application pool's
connections, the lock engine's, the engine lock, and one user's saved
connections. A statement that needs a connection for no longer than itself is
one step; who keeps a connection while awaiting something else has it in
`Holds`. That is a handler's session from its first statement to its commit,
across the test of a database (`testing`) or an eviction (`evicting`), and a
sample visitor's session while a second one charges its quota (`charging`). A
run keeps a connection of the lock engine and takes ones of the pool only for a
statement (`asking`, `building`, `storing`). Waiting for a pool ends in a
timeout, waiting for the engine lock does not. `others`, `raced` and `overshoot`
are histories: insertions since a creation's cap check, a name given away since
an update's check.

### QueryQuota

`consume_query_budget` for one account: per period, read the clock, UPSERT under
the row's lock, give up when over the limit, commit at the end. The plan is a
constant sequence of periods; one of length 0 never ends (the sample visit).

### AuthSessions

The refresh tokens, session versions and mailed links of one account. Each
request is a transaction with a program counter that names what it does next:
`loading` and `inserting` (a rotation, a login), `locking` and `revoking` (a
password change, a reset, a verification), `mailing` (a link), `committing`.
State changes are visible with the commit; until then the rows a transaction
has written or selected `FOR UPDATE` keep others waiting (`OwnsToken`,
`OwnsAccount`), and a refresh token that is being stored holds a share of its
account's row through the foreign key (`SharesAccount`). Choices worth knowing:

- A login reads and verifies the password without a lock, so a password change
  can commit before the login stores its token, which then lives on. Such a
  token is marked `late`; `OldSessionsEnd` says that this is the only way in
  which a session outlives the password it began with, also along a line of
  rotations (`from` follows the line back to its login).
- A rotation owns its token and wants a share of the account; a password change
  owns the account and wants all tokens. PostgreSQL ends one of them
  (`BreakDeadlock`), and the properties hold either way.
- `StillGood` is what is checked again under the account's lock: the current
  password of a change, the open link of a reset or verification.
- `SendMail` delivers or raises; a link may be delivered and its transaction
  rolled back afterwards, so `mailed` includes links that never existed.
- `Signup` and `Logout` are one step: a row nobody else can see, and a single
  UPDATE.

### ConversationContext

One conversation's transcript, title and contexts. What `QueryWorkflow` has as
one step when a question starts is here what happens between its statements: the
conversation is created or found, the context read, the question stored, and
only then the guard asked, which may refuse. A message carries the time its
transaction began (`created_at` is the transaction's `now()`), so the transcript
is not in the order of commits; its text is its length. `GetConversationContext` is
the fold of `get_conversation_context` over the last messages, with its budget and
its separators; a block is shorter than the budget, as in the code, which cuts a
message and its SQL to some 8000 of 16000 characters (`ContextAssumption`). Naming a conversation after its first question is a step of its own,
as in the code, and may race with a rename and with another tab.

### ChatPage

One tab of the chat page. `sendMessage` and `handleReview` are split at their
awaits: what happens before the request (`AskQuestion`, `Review`), the refusals
before a stream (`RefuseRequest`), one step per event read (`ReadConversation`,
`ReadApproval`, `ReadDone`, `ReadError`, `ReadEnd`), and a stream that breaks.
`ShowConversation` is `setActiveConversationId` with the effect it triggers;
React runs the effect before the page reads anything else. An entry of `screen`
is a question with its answer: `live` says whether it is the message object the
stream updates, which a load replaces by rows with other ids. `submitting` is
the card component's own state. The server is what the page can tell of it, at
most one run, the token each thread waits under and what is stored; refusals
and failures are choices, and the run goes on when its stream breaks or the
page is left. Other tabs, the choice of a source and the reasoning, table and
token events (which only fill a message) are left out. `due` and `excused` are
history variables for `ScreenKeepsAnswers`.

### BrowserSession

The tabs of a browser with one refresh cookie (`jar`). A request, its handling
by the server and its reply are separate steps, and either half may be lost. Per
tab there is the access token, the account on screen and the account `/auth/me`
is asked about; per caller (an api call, a stream, a mount) what it awaits.
The callers of a tab share one refresh (`refreshPromise` of `lib/api.ts`), and
api calls that meet 401 meanwhile wait in its queue. The server is reduced to what `AuthSessions` establishes: a refresh token is exchanged once,
and of all copies of a sign-in's tokens at most the newest is usable. So a copy
is its sign-in and whether it is spent, and each sign-in stands for an account of
its own, which is what makes acting as another account visible. `mixed`,
`others` and `met` are histories for the exceptions the properties name.

### Proof modules

`WorkflowProofs`, `PoolProofs`, `AppProofs`, `QuotaProofs`, `AuthProofs`,
`BindingProofs`, `ConversationProofs`, and `BrowserProofs` for both
`BrowserSession` and `ChatPage`: section 4.

## 3. Model checking

All cfgs turn deadlock checking off: an idle system may stay idle, and the
bounds on questions, tokens and requests stop the rest.

| Run | Instance | Question |
|---|---|---|
| `review` | 1 user, 1 conversation, 2 requests, 2 SQL texts, 2 questions, 3 tokens, 1 retry | Does only shown and approved SQL run, are reviews applied once and only to the newest proposal, is the retry budget kept across pauses, and is the contract implemented? |
| `guard` | 1 user, 2 conversations, 2 requests, 2 questions, 2 tokens, no retry | Does the guard exclude, per user and per thread, through refusals, crashes and failing nodes, and does every request end without a lock? |
| `saved` | 1 request, 2 conversations, 1 connection, 1 analysis, 1 SQL text, 1 retry, lagging checkpoints, lock connections that drop | Do stored answers and saved analyses match an approved execution, and is saved SQL immutable, with checkpoints lost? |
| `binding` | 3 requests, 2 conversations, 2 connections | Does a conversation keep to one connection, and fall back to sample data only by the race with a deletion? |
| `pool` | `SchemaCatalog`: 1 connection, 2 coroutines, 2 passwords, clock of 1 tick, TTL of 0, 1 schema change | Is every open engine cached, every cached engine and schema current but for the race, every connected password tested; does a sweep spare engines in use; does everyone who asks for an engine get an answer? |
| `app_pool` | 4 requests, 2 connections of either pool, 2 saved connections and names, cap of 1 | What breaks the cap and the names, who can bring the worker to a standstill, and does it last? |
| `quota` | 3 workers, "minute" of 1 tick and limit 2, "day" of 3 and limit 3, 6 requests | Are limits kept but for rewinds, and are only admitted requests counted? |
| `sessions` | 2 requests, 2 passwords, 3 tokens, 3 links, password changes begun at the first session version, verification required | Are tokens rotated once, do password changes end what began before them, do links work once and die in time, does every request end? |
| `context` | 3 requests, message lengths 1 and 4, 3 messages read, 7 characters | Is the context the longest end of the transcript that fits, do answers stand after their questions, what does an answered run not know of? |
| `chat_page` | 2 conversations, 2 questions, 2 tokens, 2 loads under way | Does the screen show the active conversation and what it owes, is a pending card the proposal that waits, does the input come back? |
| `tabs` | 2 tabs, 2 calls, 2 sign-ins | Is every queued call led by a refresh, does a tab act as the account it shows, is a refresh refused only when the session is over, does a logout end it? |

The run `dead_card` must find a violation (section 5). The type invariants of
the modules with proofs are proved (section 4) rather than run.

Why the bounds are enough. Two requests on one conversation are what every
review race needs (a review and a question, two reviews, two questions); the
guard's exclusion per user needs a second conversation; `OneRunAtATime` proves it
for any number. `guard` has no retries, since without them no request meets the
bound on tokens, which would end it; that retries end is `RetryBudget`. Three tokens are a first proposal, its retry, and the
proposal of a second question. `saved` follows one request because its
properties relate a conversation to another that was finished before it; with one
request a lost lock hurts nobody, and `LockMayDrop` is on there only so that
`LoseLocks` is a step some run takes. What two requests do to one thread is asked
in `review`, where the locks last. In
`pool` a hazard takes a builder and an evicting handler or a second builder, and
the sweep is a process of its own; connections share nothing but the lock, so
one connection shows what a lock can get wrong. With a TTL of 0 an engine is old
one tick after it was used, which is when a sweep that read the clock early could
take an engine used since; one schema change tells an entry read before it from
one read after. In `app_pool` two requests fill a pool and two more wait for each
other's resources; a cap of 1 is exceeded by the second creation. In `context`
the budget is met exactly, separators included, by a long and a short message and
by three short ones, and exceeded by every other two or three; three questions are a run, one that overlaps it and one
that is refused. In `tabs` a race is one of two tabs, or of two callers of a
tab, over one cookie, and a second sign-in makes the cookie another account's.
The quota's limits are small so that a limit, a boundary and a late request fit
into six requests. In `sessions` every race is one of two transactions over the
account's row or one token's; three tokens are a login, its rotation and a
second login, three links the one of sign-up and two resets, and `MaxVersion`
stops a third generation of password changes (two may cross). In `chat_page` a
hazard is a stream or load of one conversation crossing a step into another, or
a second load of the same one; a second question is what a stale card or a
left-over `skip` shows on. The bounds that do not come from the code are `MaxChats`, `MaxTokens`, `MaxClock`, `MaxRequests`,
`MaxLinks`, `MaxVersion`, `MaxConvs`,
`MaxQuestions`, `MaxLoads`, `MaxLogins` and `MaxSchema`.

Fairness. `FairSpec` of `QueryWorkflow` is weak fairness of each accepted
request's own steps, failing nodes included: the event loop keeps scheduling it,
and every await in a run has a timeout (the model client, the statement timeout,
the executor's limit). No fairness is assumed of users, crashes or deletions.
`SchemaCatalog!CatalogSpec` has strong fairness of each coroutine's own steps, because
`asyncio.Lock` serves waiters in order: who waits for it while others take it
again and again gets its turn.
`AuthSessions!FairSpec` is strong fairness of each request's own steps, since
PostgreSQL queues who waits for a row and mail times out after 15 seconds, and
weak fairness of the database's deadlock detector. It excludes an endless stream
of logins whose shares of the account's row overtake a password change for ever.
`ChatPage!FairChatSpec` is weak fairness of the answer to a request, of the end of a
run and of the reading of events. The page's `fetch` has no timeout of its own: a
connection that dies in silence is excluded until the browser gives it up. Users,
loads and broken streams are not assumed to do anything.

Every property has a mutant in `PROJECT.json`: an operator in the module itself,
commented as such, that changes one definition the way a plausible bug would,
and under which TLC finds the property violated.

## 4. Proofs

All theorems are about every value of the constants that satisfies the named
assumptions (`GraphAssumption`, `WorkflowAssumption`, `UnsavedAssumption`,
`PoolAssumption`, `CatalogAssumption`, `BoundsAssumption`, `QuotaAssumption`, `SessionAssumption`,
`BindingAssumption`, `BrowserAssumption`, `ContextAssumption`, `ChatAssumption`), and are checked by TLAPS to the last
leaf. Each rests on an inductive invariant, since none of the properties is
inductive by itself.

- `WorkflowProofs!TypeCorrect`: `Spec => []TypeOK`.
- `WorkflowProofs!OneRunAtATime`: `Spec => []ExclusiveRuns` if lock connections
  do not drop. `GuardInv` says that a request past the guard holds its locks.
- `WorkflowProofs!NothingRunsUnapproved`: `Spec => []ExecutedAsApproved` if lock
  connections do not drop, with lagging checkpoints allowed. That a run reaching
  `execute_sql` was approved depends on what its thread held when it paused, and
  on that thread not having moved between the check of the approval and its
  resume. `ReviewInv`, which lost locks do not break, says that a token names one
  proposal (`TokensAreUnique`), that a thread at a node between generation and
  execution holds a proposal minted for its conversation (`ThreadsHoldMinted`),
  and that a review names an offered token (`ReviewsNameOffers`). `ApprovalInv`
  adds that what a request has checked, and is about to resume, is still the
  latest checkpoint of its thread (`CheckStands`) and that a run at `execute_sql`
  was offered and approved (`ReadyIsApproved`). `CheckStands` is where the guard
  is needed: by `GuardInv` no other request is past it on that thread
  (`OneOnAThread`), and only such a request writes the thread's checkpoint.
- `WorkflowProofs!AnswersAreOfApprovedRuns` and `SavedSqlStays`:
  `AnswersMatchExecution` if lock connections do not drop, and
  `SavedSqlIsImmutable` without a condition; checkpoints may lag in both.
  `ProvInv` is `ReviewInv` and what threads and requests carry:
  a state with rows is past execution and its proposal was executed, a question
  about an analysis has that analysis' SQL and source or the source is gone, and
  its retry counter is 0 (`ThreadsAreSound`, `JobsAreBound`); a run that is
  executing is in `executed` (`ExecutingIsExecuted`); and what is stored is of an
  execution (`AnswersOfRuns`). All of it has to hold of checkpoints and of runs,
  because either may be what survives, and all of it survives lost locks. That
  the execution was also approved is `ApprovalInv`'s part, and does not.
- `WorkflowProofs!RetriesAreBounded` and `ContractImplemented`: `RetryBudget` and
  `ImplementsContract`, if lock connections do not drop and checkpoints are
  durable when a node ends. `FlowInv` says that then a run and its thread agree
  (`RunFlows`), that the proposals made for a question are at most its retries
  plus the one under way (`Budgeted`), and that a thread offers what it has
  validated and executes what it has offered once (`Flows`). Two runs never share
  a thread, by `GuardInv`. Every action is then a step of the contract or none:
  `PauseForReview` proposes, `Decide` approves or withdraws, `StartQuestion`
  withdraws, `StartExecution` runs, and the rest leave `open`, `grant`, `used` and
  `ran` alone. What is shown is in the contract's set of proposals even for a
  saved analysis, because its SQL was shown before it was saved
  (`ProposalsAreShowable`, which needs `AnswersMatchExecution`). Both conditions
  are needed for both: on the instance of `review`, TLC finds either property
  violated as soon as `SaverMayLag` or `LockMayDrop` is `TRUE`, because an old
  checkpoint can be resumed again and two runs can drive one thread.
- `PoolProofs!PoolTypeCorrect`, `NoEngineLeaks` and `OnlyTheRaceIsStale`:
  `EveryOpenEngineIsCached` and `StaleOnlyByRace` for any number of connections
  and coroutines. `PoolInv` adds that the lock has one holder (`OneBuilder`)
  which builds what is not cached (`BuildsTheMissing`), and that credentials
  read while no eviction was uncommitted stay current until they are installed
  and as long as they are cached (`ReadIsCurrent`, `CachedIsKept`): an eviction
  would have to wait for the lock, or would take the engine.
- `PoolProofs!ShownAsTested`: `UntestedOnlyByOverlap`. `StatusInv` adds that a
  password whose reset is not stored yet is known to have been crossed by a test
  (`UnresetIsCrossed`).
- `PoolProofs!PoolUnderCatalog`: a behaviour of the pool with its catalog is,
  step for step, one of the pool, so the theorems above hold of it.
  `PoolProofs!CatalogRenewed`: `CatalogIsRenewed`, by `CatalogInv`: whoever
  loads for an engine that is still cached began after the last time an engine
  of that connection left (`LoadsAreRecent`), and schemas only move on
  (`FloorIsPast`).
- `PoolProofs!RecentEnginesStay`: `EvictionSparesRecent`. `ClockInv` says that
  what the cache calls the last use of an engine is when it was last handed out,
  and that the sweep's reading of the clock is never ahead of it; the clock read
  before the lock can only make the sweep spare more.
- `AppProofs!AppTypeCorrect`: neither pool is overdrawn and one engine is built
  at a time, for pools of any size. `CapHoldsButForOverlap`:
  `CapKeptButForOverlap`, because a creation that saw room counts those inserted
  since (`RoomWasSeen`). `StandstillsHaveAFullPool` and `NoLastingStandstill`:
  `StandstillNeedsAFullPool` and `StandstillsTimeOut`. If nobody can go on, the
  builder of an engine waits for the pool, so the pool is full; those who keep
  its connections and wait are evicting handlers and visitors being charged, and
  one who waits for the pool has a timeout. `ClashesAreRaced`: `ClashOnlyByRace`;
  a name that an update has checked stays free until it commits unless the update
  is marked as raced (`NameWasFree`).
- `QuotaProofs!LimitHolds` and `VisitLimitHolds`: for every plan, a bucket admits
  its limit once and once more for each rewind; and a plan whose periods never
  end admits its limit, full stop. `QuotaInv` says that a transaction's
  uncommitted rows still follow from the committed ones (nobody else can have
  written them) and where each bucket stands relative to the stored one
  (`Filled`). `CountersHold`: `CountsTheAdmitted`, from the same invariant.
- `AuthProofs!RotatesAtMostOnce`, `SessionsEndWithThePassword` and
  `RefreshesAreCurrent`: `RotatedOnce`, `OldSessionsEnd` and `RefreshedIsCurrent`
  for any number of requests and tokens. `SessionInv` adds that a rotation has a
  live token to itself (`RotatesLive`), that nothing is rotated while a password
  change has revoked everything and not committed (`ChangesAlone`), that a token
  about to be stored is new (`StoresFresh`), and that a token with a successor is
  revoked (`ParentsRevoked`). From the first two it follows that a rotation's
  session version cannot become old under it.
- `AuthProofs!LinksDieWithThePassword`, `LinksWorkAtMostOnce` and
  `ChangesEndAccess`: `LinksDieInTime`, `LinksWorkOnce` and
  `EveryChangeEndsAccess`. `LinkInv` says that who owns the account's row is
  alone with it (`OwnersAlone`) and has read its session version under the lock
  (`OwnersCurrent`), that no request and no access token is ahead of that version
  (`VersionsPast`), and that a link a request is about is found, of its purpose,
  and open once the request owns the row (`LinksFound`). A link read before the
  lock may be spent while its request waits; what is proved rests on its being
  read again under the lock.
- `BindingProofs!BindingTypeCorrect`, `OneConnectionEach` and
  `FallsBackOnlyByRace`: `OneConnectionPerConversation` and `FallbackOnlyByRace`
  for any number of requests, conversations and connections. `BindInv` says that
  what a conversation ran on, is bound to and is being asked of name at most one
  connection (`OneSource`), that a run's source was stored first
  (`RunsAreStored`), that a conversation bound to a connection under deletion is
  marked or has raced (`BoundIsMarked`), that marks and the locks they took last
  until the deletion commits (`MarksHold`), and that a source that is not stored
  any more belongs to a deleted connection (`LostIsGone`).
- `BrowserProofs!BrowserTypeCorrect`, `QueueAlwaysLed`, `TabsActAsShown`,
  `RefusalsAreDeserved` and `LogoutsEndSessions`: all properties of the run
  `tabs`, for any number of tabs, calls and sign-ins. The invariant `IInv` has
  three parts. `CallsInv`: who waits awaits a refresh of its own tab that is under
  way (`WaitersAwait`), a tab has at most one (`OneRefreshPerTab`), and queued
  calls have a leader. `CopiesInv`: copies that are not spent belong to live
  sessions (`GoodCopies`), a token just granted is the only usable one
  (`GrantedIsNewest`), a spent cookie is about to be replaced by a reply that is
  under way (`SpentJarIsReplaced`), and refreshes and logouts of one session that
  overlap know it (`RefreshesMeet`, `LogoutsMeet`). `TabsInv`: a tab that is not
  `mixed` has one account in its token, on screen, in the requests under way and
  in the cookie they were sent with (`Steady`).
- `BrowserProofs!PageIsTyped`, `ScreenIsOfTheActive`, `AnswersStayOnScreen`
  and `PendingCardIsCurrent`: `ChatTypeOK`, `ScreenIsActive`, `ScreenKeepsAnswers`
  and `CardIsCurrent` for any number of conversations, questions, proposals and
  loads. They hold together or not at all: `PageInv` relates what the page shows,
  what it still has to read and what the server has stored.
  A stream holds one of few sequences of events (`UnnamedWires`, before it has
  named its conversation, and `NamedWires`). `RunOK`: while a run goes on its
  thread is not paused, no card of it is pending, and a stream for its question is
  the one it writes to. `StreamOK` says where an open stream stands
  (`StreamStands`): the page is on its conversation, or is still to be told it, or
  the stream was refused, or its question is shown as failed; and an answer or a
  proposal it still brings is what the server has. `CardsOK`: one card is pending,
  for a question without an answer, and while a stream is open only the card of
  its question, which is why a run cannot overtake a card. `ScreenOwn`: what is
  shown is of the active conversation, or its stream is still to name it.
  `DueOK`: unless excused, a page that loads what it shows has no stream and no
  card, the load is the only one of its conversation, and it brings every answer
  that is due once it has been read (`LoadIsAlone`); this is what makes a load
  that arrives late harmless.
- `ConversationProofs!AnswersStayTogether`: `NoAnswerCutsIn` for any number of
  requests. `TranscriptInv` adds that times of what is stored lie in the past
  (`PastOnly`), that a conversation has one live run (`OneLive`), and that whoever
  is live saw every stored answer when it was admitted and stamps its own after
  them (`AnswersInOrder`). Nothing in it depends on what a context holds.
- `ConversationProofs!TitleNamesTheFirst`: `TitleIsOfFirstQuestion`. A request
  that creates the conversation has been met by every other one that is under way
  until its question is stored (`CreatorIsMet`), and from then on who has not met
  it stores later (`Named`).
- `ConversationProofs!ContextsAreLongestEnds`: `ContextIsLongestTail`, for every
  limit, budget and transcript. The loop is a fold over a sorted sequence, so this
  is an induction over data. The library's induction theorems take an operator as
  a parameter, which no prover here instantiates; but that proper inclusion is
  well founded on the subsets of a finite set is a fact about sets, and
  `SetInduction` follows from it: a set that holds 0 and with every n also n + 1
  holds every natural number. With it, the function a fold is defined by exists
  (`FoldExists`), the loop's turns are what the fold computes (`TakesInOrder`), and
  a sum over a set is the sum of any of its elements and of the rest
  (`WeightAdds`). `NewestSorts` says that `NewestFirst` is a sorting of the
  transcript if no two messages have one time, which `StampInv` says. Then after i
  turns the loop has the first j messages, and either j = i or the next one
  does not fit (`TakeStands`), and an end of the transcript that is not among them
  holds one message too many or overruns the budget (`ContextFits`).
- `ConversationProofs!UnknownIsExplained`: `UnknownIsOldOrOverlapped`.
  `KnowledgeInv` says it of every question from the moment its context is read,
  and that whoever is under way with an older time than a question has met it
  (`LateIsMet`): what is stored later, and yet stands before the question, is of
  such a one. A conversation's creator reads nothing and was met by everybody else.
  `ContextTypeCorrect`: `ContextTypeOK`, from the same invariants.

Only model-checked is all liveness (`RequestsEnd`, `AuthRequestsEnd`,
`PageBecomesReady`, `GetEngineReturns`), which is, with `ENABLED`, out of TLAPS'
reach: every other property of a passing run is a theorem above.

## 5. Disagreements between the code and what it says

`dead_card` is a run of its own: Approve or Reject clicked after the card appears
and before its stream has ended disables the card for good, and the page takes no
question while a card is pending. `ApprovalCard.tsx` says a pending card can be
approved or rejected.

The others need no run, because a passing run names them as the only way in which
a promise fails, or (13) excludes them by a constant, and TLC finds the property
violated without the exception.

1. `FallbackOnlyByRace`: a question that binds its conversation between the two
   statements of `DELETE /connections` leaves it unmarked and without a source;
   its follow-ups run on Chinook. Migration 0006 exists to "keep deleted customer
   sources from silently falling back to sample data".
2. `UntestedOnlyByOverlap`: a test that overlaps a password change marks a
   password that was never tested as connected. `update_connection` says "must
   re-test after password change".
3. `StaleOnlyByRace`: `PATCH /connections` evicts the engine before it commits
   the new password, and a query in between caches one with the old password;
   `DELETE` has the same order, with the credentials of the deleted connection.
4. `ClashOnlyByRace`: `create_connection` answers 409 for a name that is taken,
   but only a UNIQUE (user_id, name) could tell it, which the migrated schema
   does not have; a creation therefore takes any name. An update checks and then
   commits, so two of them that overlap may both take one.
5. `CapKeptButForOverlap`: the cap is counted before the test of the database and
   not again, so creations tested at the same time all pass.
6. `StandstillNeedsAFullPool`: `workflow_security.py` gives the guard a pool of
   its own so as to "never hold one pool connection while waiting for a second
   connection from the same pool"; charging a sample visitor does just that, and
   handlers that evict keep a connection while they wait for whoever builds an
   engine, who waits for a connection. The worker stands still until a timeout.
7. `CatalogIsRenewed` holds, though not as the docstring of the catalog says
   ("keyed by the engine's pool URL string"): the key is the engine object, and
   that is why an introspection that ends after its engine was replaced stores
   nothing a later question could find.
8. `ActsAsShown`: a sign-in in another tab, or an older refresh answered after
   it, replaces the cookie, and the next refresh of a tab makes it act as an
   account it does not show. A mount's refresh that fails after a login in the
   same tab signs the user out on screen and leaves the token. `api.ts` speaks of
   a refresh that "definitively fails (no valid session)", but signs out on any
   failure.
9. `OldSessionsEnd`: a login that crosses a password change keeps its session.
10. `LimitUnlessRewound`: a request that reads the clock before a bucket's
    boundary and counts itself after it sets the counter back, so that the bucket
    admits its limit again.
11. `UnknownIsOldOrOverlapped` and `NoAnswerCutsIn`: a question's context is read
    before the guard admits it, so a run may not know of an answer stored in
    between, and that answer stands between the question and its own. A question
    the guard refuses stays in the transcript without an answer.
12. `ScreenKeepsAnswers`: the chat page loses an answer it has shown or should
    show in five ways: the active conversation is selected again (the screen is
    blanked and nothing is loaded), a load fails, a second load of one
    conversation overtakes the first, a question is asked before its conversation
    has been loaded, a stream breaks between an answer and its end.
13. `ExecutedAsApproved`: if the database drops a connection that holds locks, a
    review and a question can be past the guard together. After
    `_review_generator` has checked its snapshot, and before `astream` loads the
    thread, the question may start the thread over and come to its review under a
    new token; the approval of the first proposal is then applied to the second,
    which is executed although nobody approved it. `require_pending_review` compares a token so
    that a review counts for what it was given for, but the graph resumes by
    thread and not by token, and nothing ends a request whose lock connection is
    gone. TLC finds this on the instance of `review` with `LockMayDrop` set. What
    `ExecutedAsApproved`, `AnswersMatchExecution` and `ImplementsContract` promise
    therefore assumes that lock connections last; `review` and the theorems say so.

## 6. Not modelled

Abstracted throughout: prompts, SQL text and its parsing, result values,
formatting, logging, TLS and address checks, encryption. External and modelled
from their use: the checkpointer, PostgreSQL's locks, `asyncio.Lock`, the
browser's cookie.

- Request throttling: counters that refuse sign-in requests before anything else
  happens; refusing is what `AuthSessions` allows at any time.
- Settings and API keys: single-row updates and reads that nothing interleaves
  with; what the key is used for is the model's API.
- SQL policy, transport and address policy, static Chinook schema, reference
  documents, the choice of tables for a prompt: pure functions of text and of
  configuration, without state or order.
- The rest of the browser client: forms and lists over single requests.
- Migrations, operations and evaluation: scripts run by hand. The schema they
  create is what the modules' rows describe.
- Of the modelled parts: listing conversations, connections and analyses and
  deleting an analysis (reads, and one statement on a row nothing else writes);
  sample visitors, the shared demo account, the expiry of tokens and links and
  the 60 seconds between links (`AuthSessions`); creating the schema at start-up
  and the checkpointer's own pool (`AppPool`).

What could follow: the expiry of tokens, which needs a clock in `AuthSessions`.
