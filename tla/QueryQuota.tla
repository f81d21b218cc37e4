----------------------------- MODULE QueryQuota -----------------------------
(***************************************************************************)
(* consume_query_budget: the usage counters of one account, shared by all  *)
(* workers.  A request counts itself in every period of its plan in one    *)
(* transaction: an UPSERT holds the counter's row until the transaction    *)
(* ends, and going over a limit rolls everything back.                     *)
(***************************************************************************)
EXTENDS Integers, Sequences

CONSTANTS
    Plan,           \* the periods, in order: their length and their limit
    Reqs,           \* request slots, of any worker
    MaxClock,       \* bound on the clock
    MaxRequests     \* bound on the number of requests

\* A period of length 0 never ends: the sample visit.
ASSUME QuotaAssumption ==
    /\ Plan \in Seq([seconds : Nat, limit : Nat]) /\ Plan # <<>>
    /\ MaxClock \in Nat /\ MaxRequests \in Nat

VARIABLES
    usage,      \* committed rows of query_usage, by period
    tx,         \* each request's transaction
    clock,      \* time.time(), in ticks
    requests,   \* requests so far
    admitted,   \* history: requests admitted in each bucket of each period
    rewinds     \* history: times a period's counter went back to an older bucket

quotaVars == <<usage, tx, clock, requests, admitted, rewinds>>

Periods == 1 .. Len(Plan)
Buckets == 0 .. MaxClock

NoBucket == -1
UsageRow == [bucket : Buckets \cup {NoBucket}, requests : Nat]
NoUsage == [bucket |-> NoBucket, requests |-> 0]

\* at: the period it is about; wrote: the rows it has written and not committed.
Tx == [pc : {"idle", "timing", "counting", "committing"}, at : Periods \cup {0},
       bucket : Buckets, wrote : [Periods -> UsageRow]]
NoTx == [pc |-> "idle", at |-> 0, bucket |-> 0, wrote |-> [p \in Periods |-> NoUsage]]

QuotaTypeOK ==
    /\ usage \in [Periods -> UsageRow]
    /\ tx \in [Reqs -> Tx]
    /\ clock \in 0 .. MaxClock
    /\ requests \in Nat
    /\ admitted \in [Periods -> [Buckets -> Nat]]
    /\ rewinds \in [Periods -> Nat]

Init ==
    /\ usage = [p \in Periods |-> NoUsage]
    /\ tx = [r \in Reqs |-> NoTx]
    /\ clock = 0
    /\ requests = 0
    /\ admitted = [p \in Periods |-> [b \in Buckets |-> 0]]
    /\ rewinds = [p \in Periods |-> 0]

BucketAt(p) == IF Plan[p].seconds = 0 THEN 0 ELSE clock \div Plan[p].seconds

\* Mutant of RowLocked: the counter is read and written without its lock.
RowUnlocked(r, p) == FALSE

\* Another transaction has written the row.
RowLocked(r, p) == \E q \in Reqs \ {r} : tx[q].wrote[p] # NoUsage

Ends(r) == tx' = [tx EXCEPT ![r] = NoTx]

-----------------------------------------------------------------------------
Request(r) ==
    /\ tx[r].pc = "idle" /\ requests < MaxRequests
    /\ requests' = requests + 1
    /\ tx' = [tx EXCEPT ![r].pc = "timing", ![r].at = 1]
    /\ UNCHANGED <<usage, clock, admitted, rewinds>>

\* The bucket is computed by the worker, before the statement runs.
ReadClock(r) ==
    /\ tx[r].pc = "timing"
    /\ tx' = [tx EXCEPT ![r].pc = "counting", ![r].bucket = BucketAt(tx[r].at)]
    /\ UNCHANGED <<usage, clock, requests, admitted, rewinds>>

\* ON CONFLICT DO UPDATE: the same bucket goes on, any other starts at one.
Counted(row, b) ==
    [bucket |-> b, requests |-> IF row.bucket = b THEN row.requests + 1 ELSE 1]

OverLimit(p, row) == row.requests > Plan[p].limit

\* The UPSERT waits for the row; RETURNING decides.
Count(r) ==
    LET p == tx[r].at
        row == Counted(usage[p], tx[r].bucket) IN
    /\ tx[r].pc = "counting"
    /\ ~RowLocked(r, p)
    /\ IF OverLimit(p, row) THEN Ends(r)
       ELSE tx' = [tx EXCEPT ![r].wrote[p] = row,
                             ![r].pc = IF p = Len(Plan) THEN "committing" ELSE "timing",
                             ![r].at = IF p = Len(Plan) THEN p ELSE p + 1]
    /\ UNCHANGED <<usage, clock, requests, admitted, rewinds>>

\* Mutant of Commit: only the last period is written.
CommitLastOnly(r) ==
    LET wrote == tx[r].wrote IN
    /\ tx[r].pc = "committing"
    /\ usage' = [usage EXCEPT ![Len(Plan)] = wrote[Len(Plan)]]
    /\ admitted' = [p \in Periods |->
                      [admitted[p] EXCEPT ![wrote[p].bucket] = @ + 1]]
    /\ UNCHANGED rewinds
    /\ Ends(r)
    /\ UNCHANGED <<clock, requests>>

\* All periods are counted, and the request goes on to the query.
Commit(r) ==
    LET wrote == tx[r].wrote IN
    /\ tx[r].pc = "committing"
    /\ usage' = wrote
    /\ admitted' = [p \in Periods |->
                      [admitted[p] EXCEPT ![wrote[p].bucket] = @ + 1]]
    /\ rewinds' = [p \in Periods |-> rewinds[p] +
                      (IF wrote[p].bucket < usage[p].bucket THEN 1 ELSE 0)]
    /\ Ends(r)
    /\ UNCHANGED <<clock, requests>>

\* The connection or the worker is lost; the database rolls back.
Abort(r) ==
    /\ tx[r].pc # "idle"
    /\ Ends(r)
    /\ UNCHANGED <<usage, clock, requests, admitted, rewinds>>

Tick ==
    /\ clock < MaxClock
    /\ clock' = clock + 1
    /\ UNCHANGED <<usage, tx, requests, admitted, rewinds>>

Next ==
    \/ \E r \in Reqs : Request(r) \/ ReadClock(r) \/ Count(r) \/ Commit(r) \/ Abort(r)
    \/ Tick

Spec == Init /\ [][Next]_quotaVars

-----------------------------------------------------------------------------
(* Properties *)

\* Concurrent requests of all workers admit no more than the limit in a bucket,
\* except that a counter set back by a request that read the clock earlier and
\* counted itself later gives the bucket its limit anew.
LimitUnlessRewound ==
    \A p \in Periods, b \in Buckets :
        admitted[p][b] <= Plan[p].limit * (1 + rewinds[p])

\* A counter holds requests that were admitted, and only those: one refused or
\* lost in a later period has used up nothing in an earlier one.  A counter that
\* was never set back holds all of its bucket, and nothing was admitted later.
CountsTheAdmitted ==
    \A p \in Periods, b \in Buckets :
        /\ b = usage[p].bucket => usage[p].requests <= admitted[p][b]
        /\ (b = usage[p].bucket /\ rewinds[p] = 0) => usage[p].requests = admitted[p][b]
        /\ (b > usage[p].bucket /\ rewinds[p] = 0) => admitted[p][b] = 0

\* Exactly the limit is admitted in one fixed bucket, at most.
LimitPerBucket ==
    \A p \in Periods, b \in Buckets : admitted[p][b] <= Plan[p].limit
=============================================================================
