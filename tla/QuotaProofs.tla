----------------------------- MODULE QuotaProofs -----------------------------
(***************************************************************************)
(* What the counters of QueryQuota guarantee, for every plan, any number   *)
(* of requests and workers and any bound on the clock.                     *)
(***************************************************************************)
EXTENDS QueryQuota, SequenceTheorems, TLAPS

-----------------------------------------------------------------------------
(* The inductive invariant *)

\* A transaction has written the rows of the periods before the one it is at,
\* each from a committed row that nobody has changed since, within its limit.
WritesInOrder(r) ==
    \A p \in Periods :
        /\ tx[r].pc = "idle" => tx[r].wrote[p] = NoUsage
        /\ tx[r].pc \in {"timing", "counting"} =>
              (tx[r].wrote[p] # NoUsage <=> p < tx[r].at)
        /\ tx[r].pc = "committing" => tx[r].wrote[p] # NoUsage
        /\ tx[r].wrote[p] # NoUsage =>
              /\ tx[r].wrote[p].bucket \in Buckets
              /\ tx[r].wrote[p] = Counted(usage[p], tx[r].wrote[p].bucket)
              /\ ~OverLimit(p, tx[r].wrote[p])

\* A row has one writer.
OneWriter ==
    \A r, q \in Reqs : \A p \in Periods :
        (tx[r].wrote[p] # NoUsage /\ tx[q].wrote[p] # NoUsage) => r = q

\* Where each bucket of a period stands, seen from the stored one: older ones
\* may have been filled once more than the counter was set back, newer ones were
\* left by setting it back, and the stored one is being filled.
Filled(p, b) ==
    LET full == Plan[p].limit * rewinds[p] IN
    /\ b < usage[p].bucket => admitted[p][b] <= full + Plan[p].limit
    /\ b = usage[p].bucket => admitted[p][b] <= full + usage[p].requests
    /\ b > usage[p].bucket => admitted[p][b] <= full

QuotaInv ==
    /\ QuotaTypeOK
    /\ \A r \in Reqs : tx[r].pc # "idle" => tx[r].at \in Periods
    /\ \A r \in Reqs : WritesInOrder(r)
    /\ OneWriter
    /\ \A p \in Periods : usage[p].requests <= Plan[p].limit
    /\ \A p \in Periods : \A b \in Buckets : Filled(p, b)

-----------------------------------------------------------------------------
(* Arithmetic and types *)

\* A bucket is a number of the clock's range, whatever the period's length.
LEMMA DivisionShrinks ==
    ASSUME NEW n \in Nat, NEW d \in Nat \ {0}
    PROVE  n \div d \in 0 .. n
OBVIOUS

LEMMA OnceMore ==
    ASSUME NEW l \in Nat, NEW n \in Nat
    PROVE  /\ l * n \in Nat
           /\ l * (n + 1) = l * n + l
           /\ l * (1 + n) = l * n + l
           /\ l * (n + 0) = l * n
OBVIOUS

LEMMA PlanType ==
    /\ Len(Plan) \in Nat \ {0}
    /\ \A p \in Periods : Plan[p].seconds \in Nat /\ Plan[p].limit \in Nat
<1> DEFINE R == [seconds : Nat, limit : Nat]
<1>1. Plan \in Seq(R) /\ Plan # <<>>
  BY QuotaAssumption
<1>2. \A p \in 1 .. Len(Plan) : Plan[p] \in R
  BY <1>1, ElementOfSeq
<1>3. Len(Plan) \in Nat /\ Len(Plan) # 0
  <2> HIDE DEF R
  <2> QED
    BY <1>1, EmptySeq, LenProperties
<1> QED
  BY <1>2, <1>3 DEF Periods

LEMMA BucketType ==
    ASSUME QuotaTypeOK, NEW p \in Periods
    PROVE  BucketAt(p) \in Buckets
<1>1. CASE Plan[p].seconds = 0
  BY <1>1, QuotaAssumption DEF BucketAt, Buckets
<1>2. CASE Plan[p].seconds # 0
  <2>1. clock \div Plan[p].seconds \in 0 .. clock
    <3>1. clock \in Nat
      BY QuotaAssumption DEF QuotaTypeOK
    <3>2. Plan[p].seconds \in Nat \ {0}
      BY <1>2, PlanType
    <3> QED
      BY <3>1, <3>2, DivisionShrinks
  <2> QED
    BY <1>2, <2>1, QuotaAssumption DEF BucketAt, Buckets, QuotaTypeOK
<1> QED
  BY <1>1, <1>2

LEMMA CountedType ==
    ASSUME NEW row \in UsageRow, NEW b \in Buckets
    PROVE  Counted(row, b) \in UsageRow /\ Counted(row, b) # NoUsage
           /\ Counted(row, b).bucket = b
BY QuotaAssumption DEF Counted, UsageRow, Buckets, NoBucket, NoUsage

LEMMA NoUsageType == NoUsage \in UsageRow
BY DEF NoUsage, UsageRow

LEMMA NoTxType == NoTx \in Tx /\ \A p \in Periods : NoTx.wrote[p] = NoUsage
BY NoUsageType, PlanType, QuotaAssumption DEF NoTx, Tx, Buckets

-----------------------------------------------------------------------------
(* Init, and the steps *)

LEMMA QuotaInit == Init => QuotaInv
<1> SUFFICES ASSUME Init PROVE QuotaInv
  OBVIOUS
<1>1. QuotaTypeOK
  BY NoUsageType, NoTxType, QuotaAssumption DEF Init, QuotaTypeOK, Buckets
<1>2. \A r \in Reqs : tx[r] = NoTx /\ WritesInOrder(r)
  BY NoTxType DEF Init, WritesInOrder, NoTx
<1>3. OneWriter
  BY <1>2, NoTxType DEF OneWriter
<1>4. \A p \in Periods : usage[p].requests <= Plan[p].limit
  BY PlanType DEF Init, NoUsage
<1>5. \A p \in Periods : \A b \in Buckets : Filled(p, b)
  <2> SUFFICES ASSUME NEW p \in Periods, NEW b \in Buckets PROVE Filled(p, b)
    OBVIOUS
  <2>1. Plan[p].limit * rewinds[p] \in Nat /\ Plan[p].limit \in Nat
    BY PlanType, OnceMore DEF Init
  <2> QED
    BY <2>1, QuotaAssumption DEF Init, Filled, NoUsage, NoBucket, Buckets
<1> QED
  BY <1>1, <1>2, <1>3, <1>4, <1>5 DEF QuotaInv, NoTx

\* A step of r that writes no counter keeps the invariant if it keeps its part
\* of it, and leaves the rows r has written as they are or drops them.
LEMMA QuotaMove ==
    ASSUME QuotaInv, NEW r \in Reqs, NEW new \in Tx,
           tx' = [tx EXCEPT ![r] = new],
           new.pc # "idle" => new.at \in Periods,
           \/ new = NoTx
           \/ /\ new.wrote = tx[r].wrote
              /\ \/ new.pc = tx[r].pc
                 \/ {new.pc, tx[r].pc} \subseteq {"timing", "counting"}
              /\ new.at = tx[r].at,
           UNCHANGED <<usage, admitted, rewinds>>,
           requests' \in Nat, clock' \in 0 .. MaxClock
    PROVE  QuotaInv'
<1>1. \A q \in Reqs : tx'[q] = IF q = r THEN new ELSE tx[q]
  BY DEF QuotaInv, QuotaTypeOK
<1>2. QuotaTypeOK'
  BY DEF QuotaInv, QuotaTypeOK
<1>3. WritesInOrder(r)'
  <2>1. CASE new = NoTx
    BY <2>1, <1>1, NoTxType DEF WritesInOrder, NoTx
  <2>2. CASE new # NoTx
    BY <2>2, <1>1 DEF QuotaInv, WritesInOrder, OverLimit, Counted
  <2> QED
    BY <2>1, <2>2
<1>4. \A q \in Reqs : WritesInOrder(q)'
  BY <1>1, <1>3 DEF QuotaInv, WritesInOrder, OverLimit, Counted
<1>5. OneWriter'
  BY <1>1, NoTxType DEF QuotaInv, OneWriter
<1> QED
  BY <1>1, <1>2, <1>4, <1>5 DEF QuotaInv, Filled

LEMMA QuotaRequest ==
    ASSUME QuotaInv, NEW r \in Reqs, Request(r)
    PROVE  QuotaInv'
<1> DEFINE new == [tx[r] EXCEPT !.pc = "timing", !.at = 1]
<1>0. UNCHANGED <<usage, clock, admitted, rewinds>>
  BY DEF Request
<1>1. 1 \in Periods
  BY PlanType DEF Periods
<1>2. tx' = [tx EXCEPT ![r] = new] /\ new \in Tx /\ new.wrote = tx[r].wrote
  BY <1>1 DEF Request, QuotaInv, QuotaTypeOK, Tx
<1>3. \A q \in Reqs : tx'[q] = IF q = r THEN new ELSE tx[q]
  BY <1>2 DEF QuotaInv, QuotaTypeOK
<1>4. QuotaTypeOK'
  BY <1>2 DEF Request, QuotaInv, QuotaTypeOK
<1>5. \A p \in Periods : new.wrote[p] = NoUsage /\ ~(p < 1)
  BY <1>2 DEF Request, QuotaInv, WritesInOrder, Periods
<1>6. WritesInOrder(r)'
  BY <1>3, <1>5, <1>2 DEF WritesInOrder, QuotaInv, QuotaTypeOK, Tx
<1>7. \A q \in Reqs : WritesInOrder(q)'
  BY <1>0, <1>3, <1>6 DEF QuotaInv, WritesInOrder, OverLimit, Counted
<1>8. OneWriter'
  BY <1>3, <1>2 DEF QuotaInv, OneWriter
<1> QED
  BY ZenonT(30), <1>0, <1>1, <1>3, <1>4, <1>7, <1>8 DEF QuotaInv, Filled, QuotaTypeOK, Tx

LEMMA QuotaReadClock ==
    ASSUME QuotaInv, NEW r \in Reqs, ReadClock(r)
    PROVE  QuotaInv'
<1> DEFINE new == [tx[r] EXCEPT !.pc = "counting", !.bucket = BucketAt(tx[r].at)]
<1>1. tx[r].at \in Periods /\ BucketAt(tx[r].at) \in Buckets
  BY BucketType DEF QuotaInv, ReadClock
<1>2. tx' = [tx EXCEPT ![r] = new] /\ new \in Tx
  BY <1>1 DEF ReadClock, QuotaInv, QuotaTypeOK, Tx
<1>3. new.wrote = tx[r].wrote /\ new.at = tx[r].at /\ new.pc = "counting"
  BY DEF QuotaInv, QuotaTypeOK, Tx
<1>4. {new.pc, tx[r].pc} \subseteq {"timing", "counting"}
  BY <1>3 DEF ReadClock
<1>5. /\ UNCHANGED <<usage, admitted, rewinds>>
      /\ requests' \in Nat /\ clock' \in 0 .. MaxClock
  BY DEF ReadClock, QuotaInv, QuotaTypeOK
<1>6. new.at \in Periods
  BY <1>1, <1>3
<1> HIDE DEF new
<1> QED
  BY <1>2, <1>3, <1>4, <1>5, <1>6, QuotaMove

LEMMA QuotaAbort ==
    ASSUME QuotaInv, NEW r \in Reqs, Abort(r)
    PROVE  QuotaInv'
BY NoTxType, QuotaMove DEF Abort, Ends, NoTx, QuotaInv, QuotaTypeOK

LEMMA QuotaIdle ==
    ASSUME QuotaInv, Tick \/ UNCHANGED quotaVars
    PROVE  QuotaInv'
<1>1. /\ UNCHANGED <<usage, tx, requests, admitted, rewinds>>
      /\ clock' \in 0 .. MaxClock
  BY QuotaAssumption DEF Tick, quotaVars, QuotaInv, QuotaTypeOK
<1>2. QuotaTypeOK'
  BY <1>1 DEF QuotaInv, QuotaTypeOK
<1> QED
  BY <1>1, <1>2 DEF QuotaInv, WritesInOrder, OneWriter, Filled, OverLimit, Counted

\* The row of p had no other writer, and has one now.
LEMMA QuotaCount ==
    ASSUME QuotaInv, NEW r \in Reqs, Count(r)
    PROVE  QuotaInv'
<1> DEFINE p == tx[r].at
           row == Counted(usage[p], tx[r].bucket)
<1>1. /\ p \in Periods /\ p \in Nat /\ tx[r].bucket \in Buckets
      /\ usage[p] \in UsageRow /\ tx[r].pc = "counting"
  BY DEF QuotaInv, QuotaTypeOK, Tx, Count, Periods
<1>2. row \in UsageRow /\ row # NoUsage /\ row.bucket = tx[r].bucket
  BY <1>1, CountedType
<1>3. CASE OverLimit(p, row)
  <2>1. tx' = [tx EXCEPT ![r] = NoTx]
    BY <1>3 DEF Count, Ends
  <2> QED
    BY <2>1, NoTxType, QuotaMove DEF Count, NoTx, QuotaInv, QuotaTypeOK
<1>4. CASE ~OverLimit(p, row)
  <2> DEFINE pc == IF p = Len(Plan) THEN "committing" ELSE "timing"
             at == IF p = Len(Plan) THEN p ELSE p + 1
             wrote == [tx[r].wrote EXCEPT ![p] = row]
  <2>1. tx' = [tx EXCEPT ![r] = [tx[r] EXCEPT !.wrote = wrote, !.pc = pc, !.at = at]]
    BY <1>4, <1>1 DEF Count, QuotaInv, QuotaTypeOK, Tx
  <2>2. UNCHANGED <<usage, clock, requests, admitted, rewinds>>
    BY DEF Count
  <2>3. at \in Periods
    BY <1>1, PlanType DEF Periods
  <2>4. wrote \in [Periods -> UsageRow]
    BY <1>1, <1>2 DEF QuotaInv, QuotaTypeOK, Tx
  <2>5. \A q \in Periods : wrote[q] = IF q = p THEN row ELSE tx[r].wrote[q]
    BY <1>1 DEF QuotaInv, QuotaTypeOK, Tx
  <2> HIDE DEF row, wrote
  <2>6. QuotaTypeOK'
    <3>1. [tx[r] EXCEPT !.wrote = wrote, !.pc = pc, !.at = at] \in Tx
      <4>1. pc \in {"committing", "timing"}
        OBVIOUS
      <4> HIDE DEF pc, at
      <4> QED
        BY <2>3, <2>4, <4>1 DEF QuotaInv, QuotaTypeOK, Tx
    <3> QED
      BY <2>1, <2>2, <3>1 DEF QuotaInv, QuotaTypeOK
  <2>7. \A q \in Reqs : tx'[q] = IF q = r
            THEN [tx[r] EXCEPT !.wrote = wrote, !.pc = pc, !.at = at] ELSE tx[q]
    BY <2>1 DEF QuotaInv, QuotaTypeOK
  <2>8. /\ tx'[r].wrote = wrote /\ tx'[r].pc = pc /\ tx'[r].at = at
    BY <2>7 DEF QuotaInv, QuotaTypeOK, Tx
  <2>9. WritesInOrder(r)'
    <3> SUFFICES ASSUME NEW q \in Periods
                 PROVE
        /\ tx'[r].pc = "idle" => tx'[r].wrote[q] = NoUsage
        /\ tx'[r].pc \in {"timing", "counting"} =>
              (tx'[r].wrote[q] # NoUsage <=> q < tx'[r].at)
        /\ tx'[r].pc = "committing" => tx'[r].wrote[q] # NoUsage
        /\ tx'[r].wrote[q] # NoUsage =>
              /\ tx'[r].wrote[q].bucket \in Buckets
              /\ tx'[r].wrote[q] = Counted(usage'[q], tx'[r].wrote[q].bucket)
              /\ ~OverLimit(q, tx'[r].wrote[q])
      BY DEF WritesInOrder, OverLimit, Counted
    <3>1. tx[r].wrote[q] # NoUsage <=> q < p
      BY <1>1 DEF QuotaInv, WritesInOrder
    <3>2. tx[r].wrote[q] # NoUsage =>
              /\ tx[r].wrote[q].bucket \in Buckets
              /\ tx[r].wrote[q] = Counted(usage[q], tx[r].wrote[q].bucket)
              /\ ~OverLimit(q, tx[r].wrote[q])
      BY DEF QuotaInv, WritesInOrder
    <3>3. CASE q = p
      BY <3>3, <2>8, <2>5, <2>2, <1>1, <1>2, <1>4, PlanType DEF Periods, row
    <3>4. CASE q # p
      BY <3>4, <3>1, <3>2, <2>8, <2>5, <2>2, <1>1, PlanType DEF Periods
    <3> QED
      BY <3>3, <3>4
  <2>10. \A q \in Reqs : WritesInOrder(q)'
    BY <2>9, <2>7, <2>2 DEF QuotaInv, WritesInOrder, OverLimit, Counted
  <2>11. OneWriter'
    <3>1. \A q \in Reqs \ {r} : tx[q].wrote[p] = NoUsage
      BY DEF Count, RowLocked
    <3> QED
      BY <3>1, <2>7, <2>8, <2>5, <1>1 DEF QuotaInv, OneWriter
  <2> QED
    BY <2>2, <2>3, <2>6, <2>7, <2>8, <2>10, <2>11 DEF QuotaInv, Filled
<1> QED
  BY <1>3, <1>4

\* The counters take the values written, and every bucket stays within bounds.
LEMMA QuotaCommit ==
    ASSUME QuotaInv, NEW r \in Reqs, Commit(r)
    PROVE  QuotaInv'
<1> DEFINE wrote == tx[r].wrote
<1>1. \A p \in Periods :
        /\ wrote[p] \in UsageRow /\ wrote[p] # NoUsage /\ wrote[p].bucket \in Buckets
        /\ wrote[p] = Counted(usage[p], wrote[p].bucket)
        /\ wrote[p].requests <= Plan[p].limit
  <2> SUFFICES ASSUME NEW p \in Periods
               PROVE  /\ wrote[p] \in UsageRow /\ wrote[p] # NoUsage
                      /\ wrote[p].bucket \in Buckets
                      /\ wrote[p] = Counted(usage[p], wrote[p].bucket)
                      /\ wrote[p].requests <= Plan[p].limit
    OBVIOUS
  <2>1. wrote[p] \in UsageRow
    BY DEF QuotaInv, QuotaTypeOK, Tx
  <2>2. wrote[p] # NoUsage
    BY DEF QuotaInv, WritesInOrder, Commit
  <2>3. /\ wrote[p].bucket \in Buckets
        /\ wrote[p] = Counted(usage[p], wrote[p].bucket)
        /\ ~(wrote[p].requests > Plan[p].limit)
    BY <2>2 DEF QuotaInv, WritesInOrder, OverLimit
  <2>4. wrote[p].requests \in Nat
    BY <2>1 DEF UsageRow
  <2> QED
    BY <2>1, <2>2, <2>3, <2>4, PlanType
<1>2. usage' = wrote /\ wrote \in [Periods -> UsageRow]
  BY DEF Commit, QuotaInv, QuotaTypeOK, Tx
<1>3. \A p \in Periods, b \in Buckets :
        admitted'[p][b] = admitted[p][b] + (IF b = wrote[p].bucket THEN 1 ELSE 0)
  BY <1>1 DEF Commit, QuotaInv, QuotaTypeOK
<1>4. \A p \in Periods :
        rewinds'[p] = rewinds[p] + (IF wrote[p].bucket < usage[p].bucket THEN 1 ELSE 0)
  BY DEF Commit
<1>5. tx' = [tx EXCEPT ![r] = NoTx]
  BY DEF Commit, Ends
<1>6. QuotaTypeOK'
  <2>1. admitted' \in [Periods -> [Buckets -> Nat]]
    BY <1>1 DEF Commit, QuotaInv, QuotaTypeOK
  <2>2. rewinds' \in [Periods -> Nat]
    BY DEF Commit, QuotaInv, QuotaTypeOK
  <2> QED
    BY <1>2, <1>5, <2>1, <2>2, NoTxType DEF Commit, QuotaInv, QuotaTypeOK
<1>7. \A q \in Reqs \ {r} : \A p \in Periods : tx[q].wrote[p] = NoUsage
  BY <1>1 DEF QuotaInv, OneWriter
<1>8. \A q \in Reqs : tx'[q] = IF q = r THEN NoTx ELSE tx[q]
  BY <1>5 DEF QuotaInv, QuotaTypeOK
<1>9. (\A q \in Reqs : WritesInOrder(q)) /\ \A q \in Reqs : \A p \in Periods : tx'[q].wrote[p] = NoUsage
  BY <1>7, <1>8, NoTxType DEF QuotaInv
<1>10. \A q \in Reqs : WritesInOrder(q)'
  BY <1>8, <1>9 DEF WritesInOrder, NoTx
<1>11. \A p \in Periods : \A b \in Buckets : Filled(p, b)'
  <2> SUFFICES ASSUME NEW p \in Periods, NEW b \in Buckets PROVE Filled(p, b)'
    OBVIOUS
  <2> DEFINE l == Plan[p].limit
             n == rewinds[p]
             full == l * n
             old == usage[p]
             new == wrote[p]
  <2>1. /\ l \in Nat /\ n \in Nat /\ full \in Nat
        /\ l * (n + 1) = full + l /\ l * (n + 0) = full
    BY PlanType, OnceMore DEF QuotaInv, QuotaTypeOK
  <2>2. /\ old.bucket \in Int /\ old.requests \in Nat /\ old.requests <= l
        /\ new.bucket \in Int /\ b \in Int /\ admitted[p][b] \in Nat
    BY <1>1, QuotaAssumption DEF QuotaInv, QuotaTypeOK, UsageRow, Buckets, NoBucket
  <2>3. new.requests = IF old.bucket = new.bucket THEN old.requests + 1 ELSE 1
    <3>1. new = Counted(old, new.bucket)
      BY <1>1
    <3>2. \A k : Counted(old, k).requests
                   = IF old.bucket = k THEN old.requests + 1 ELSE 1
      BY DEF Counted
    <3> QED
      BY <3>1, <3>2
  <2>4. /\ b < old.bucket => admitted[p][b] <= full + l
        /\ b = old.bucket => admitted[p][b] <= full + old.requests
        /\ b > old.bucket => admitted[p][b] <= full
    BY DEF QuotaInv, Filled
  <2>5. admitted'[p][b] = admitted[p][b] + (IF b = new.bucket THEN 1 ELSE 0)
    BY <1>3
  <2>6. rewinds'[p] = n + (IF new.bucket < old.bucket THEN 1 ELSE 0)
    BY <1>4
  <2>7. l * rewinds'[p] = IF new.bucket < old.bucket THEN full + l ELSE full
    BY <2>1, <2>6
  <2>8. usage'[p] = new
    BY <1>2
  <2> DEFINE full2 == l * rewinds'[p]
  <2>9. full2 = IF new.bucket < old.bucket THEN full + l ELSE full
    BY <2>7
  <2> SUFFICES /\ b < new.bucket => admitted'[p][b] <= full2 + l
               /\ b = new.bucket => admitted'[p][b] <= full2 + new.requests
               /\ b > new.bucket => admitted'[p][b] <= full2
    BY <2>8 DEF Filled
  <2> HIDE DEF full, full2, l, n, old, new
  <2> QED
    BY <2>1, <2>2, <2>3, <2>4, <2>5, <2>9
<1> QED
  BY <1>1, <1>2, <1>6, <1>8, <1>9, <1>10, <1>11 DEF QuotaInv, OneWriter, NoTx

-----------------------------------------------------------------------------
(* Theorems *)

LEMMA QuotaInductive == Spec => []QuotaInv
<1>1. QuotaInv /\ [Next]_quotaVars => QuotaInv'
  <2> SUFFICES ASSUME QuotaInv, [Next]_quotaVars PROVE QuotaInv'
    OBVIOUS
  <2>1. CASE \E r \in Reqs : Request(r) \/ ReadClock(r) \/ Abort(r)
    BY <2>1, QuotaRequest, QuotaReadClock, QuotaAbort
  <2>2. CASE \E r \in Reqs : Count(r)
    BY <2>2, QuotaCount
  <2>3. CASE \E r \in Reqs : Commit(r)
    BY <2>3, QuotaCommit
  <2>4. CASE Tick \/ UNCHANGED quotaVars
    BY <2>4, QuotaIdle
  <2> QED
    BY <2>1, <2>2, <2>3, <2>4 DEF Next
<1> QED
  BY <1>1, QuotaInit, PTL DEF Spec

\* What Filled says of a bucket that is older than the stored one, the stored one
\* or newer keeps it within once more the limit.
LEMMA FilledWithin ==
    ASSUME NEW n \in Nat, NEW full \in Nat, NEW limit \in Nat, NEW counted \in Nat,
           NEW all \in Nat, NEW b \in Int, NEW stored \in Int,
           all = full + limit, counted <= limit,
           b < stored => n <= full + limit,
           b = stored => n <= full + counted,
           b > stored => n <= full
    PROVE  n <= all
OBVIOUS

\* However many workers count one account's requests, a bucket admits its limit
\* once, and once more for each time the counter was set back.
THEOREM LimitHolds == Spec => []LimitUnlessRewound
<1>1. QuotaInv => LimitUnlessRewound
  <2> SUFFICES ASSUME QuotaInv, NEW p \in Periods, NEW b \in Buckets
               PROVE  admitted[p][b] <= Plan[p].limit * (1 + rewinds[p])
    BY DEF LimitUnlessRewound
  <2> DEFINE full == Plan[p].limit * rewinds[p]
             all == Plan[p].limit * (1 + rewinds[p])
  <2>1. /\ Plan[p].limit \in Nat /\ full \in Nat /\ all = full + Plan[p].limit
    BY PlanType, OnceMore DEF QuotaInv, QuotaTypeOK
  <2>2. /\ b < usage[p].bucket => admitted[p][b] <= full + Plan[p].limit
        /\ b = usage[p].bucket => admitted[p][b] <= full + usage[p].requests
        /\ b > usage[p].bucket => admitted[p][b] <= full
    BY DEF QuotaInv, Filled
  <2>3. /\ usage[p].bucket \in Int /\ b \in Int /\ admitted[p][b] \in Nat
        /\ usage[p].requests \in Nat /\ usage[p].requests <= Plan[p].limit
    BY QuotaAssumption DEF QuotaInv, QuotaTypeOK, UsageRow, Buckets, NoBucket
  <2>4. all \in Nat
    BY <2>1
  <2> HIDE DEF full, all
  <2>5. admitted[p][b] <= all
    BY <2>1, <2>2, <2>3, <2>4, FilledWithin
  <2> QED
    BY <2>5 DEF all
<1> QED
  BY <1>1, QuotaInductive, PTL

-----------------------------------------------------------------------------
(* The counters and the requests admitted *)

\* One request more in the bucket a counter is written for.
LEMMA CountsOneMore ==
    ASSUME NEW b \in Int, NEW stored \in Int, NEW written \in Int,
           NEW counted \in Nat, NEW n \in Nat, NEW back \in Nat,
           b = stored => counted <= n,
           (b = stored /\ back = 0) => counted = n,
           (b > stored /\ back = 0) => n = 0,
           NEW counted2 \in Nat, counted2 = IF stored = written THEN counted + 1 ELSE 1,
           NEW n2 \in Nat, n2 = n + (IF b = written THEN 1 ELSE 0),
           NEW back2 \in Nat, back2 = back + (IF written < stored THEN 1 ELSE 0)
    PROVE  /\ b = written => counted2 <= n2
           /\ (b = written /\ back2 = 0) => counted2 = n2
           /\ (b > written /\ back2 = 0) => n2 = 0
OBVIOUS

LEMMA CommitCounts ==
    ASSUME QuotaInv, CountsTheAdmitted, NEW r \in Reqs, Commit(r)
    PROVE  CountsTheAdmitted'
<1> SUFFICES ASSUME NEW p \in Periods, NEW b \in Buckets
             PROVE  /\ b = usage'[p].bucket => usage'[p].requests <= admitted'[p][b]
                    /\ (b = usage'[p].bucket /\ rewinds'[p] = 0) => usage'[p].requests = admitted'[p][b]
                    /\ (b > usage'[p].bucket /\ rewinds'[p] = 0) => admitted'[p][b] = 0
  BY DEF CountsTheAdmitted
<1> DEFINE old == usage[p]
           new == tx[r].wrote[p]
<1>1. usage'[p] = new /\ new \in UsageRow /\ old \in UsageRow
  BY DEF Commit, QuotaInv, QuotaTypeOK, Tx
<1>2. new # NoUsage
  BY DEF Commit, QuotaInv, WritesInOrder
<1>3. new.bucket \in Buckets /\ new = Counted(old, new.bucket)
  BY <1>2 DEF QuotaInv, WritesInOrder
<1>4. /\ old.bucket \in Int /\ old.requests \in Nat /\ new.bucket \in Int /\ new.requests \in Nat
      /\ b \in Int /\ admitted[p][b] \in Nat /\ rewinds[p] \in Nat
  <2>1. admitted[p][b] \in Nat /\ rewinds[p] \in Nat
    BY DEF QuotaInv, QuotaTypeOK
  <2> HIDE DEF old, new
  <2> QED
    BY <1>1, <2>1, QuotaAssumption DEF UsageRow, Buckets, NoBucket
<1>5. new.requests = IF old.bucket = new.bucket THEN old.requests + 1 ELSE 1
  <2>1. \A k : Counted(old, k).requests = IF old.bucket = k THEN old.requests + 1 ELSE 1
    BY DEF Counted
  <2> QED
    BY <1>3, <2>1
<1>6. admitted'[p][b] = admitted[p][b] + (IF b = new.bucket THEN 1 ELSE 0)
  BY <1>3 DEF Commit, QuotaInv, QuotaTypeOK
<1>7. rewinds'[p] = rewinds[p] + (IF new.bucket < old.bucket THEN 1 ELSE 0)
  BY DEF Commit
<1>8. /\ b = old.bucket => old.requests <= admitted[p][b]
      /\ (b = old.bucket /\ rewinds[p] = 0) => old.requests = admitted[p][b]
      /\ (b > old.bucket /\ rewinds[p] = 0) => admitted[p][b] = 0
  BY DEF CountsTheAdmitted
<1>9. admitted'[p][b] \in Nat /\ rewinds'[p] \in Nat
  BY <1>4, <1>6, <1>7
<1> HIDE DEF old, new
<1> QED
  BY <1>1, <1>4, <1>5, <1>6, <1>7, <1>8, <1>9, CountsOneMore

\* A counter holds nothing but requests that were admitted in its bucket, and, if
\* it was never set back, all of them, whatever was refused, cancelled or lost.
THEOREM CountersHold == Spec => []CountsTheAdmitted
<1>1. Init => CountsTheAdmitted
  <2> SUFFICES ASSUME Init, NEW p \in Periods, NEW b \in Buckets
               PROVE  usage[p].bucket = NoBucket /\ b # NoBucket /\ admitted[p][b] = 0
    BY DEF CountsTheAdmitted
  <2> QED
    BY QuotaAssumption DEF Init, NoUsage, NoBucket, Buckets
<1>2. QuotaInv /\ CountsTheAdmitted /\ [Next]_quotaVars => CountsTheAdmitted'
  <2> SUFFICES ASSUME QuotaInv, CountsTheAdmitted, [Next]_quotaVars PROVE CountsTheAdmitted'
    OBVIOUS
  <2>1. CASE \E r \in Reqs : Commit(r)
    BY <2>1, CommitCounts
  <2>2. CASE UNCHANGED <<usage, admitted, rewinds>>
    BY <2>2 DEF CountsTheAdmitted
  <2>3. ASSUME NEW r \in Reqs, Request(r) \/ ReadClock(r) \/ Count(r) \/ Abort(r)
        PROVE  UNCHANGED <<usage, admitted, rewinds>>
    BY <2>3 DEF Request, ReadClock, Count, Abort
  <2>4. Tick \/ UNCHANGED quotaVars => UNCHANGED <<usage, admitted, rewinds>>
    BY DEF Tick, quotaVars
  <2> QED
    BY <2>1, <2>2, <2>3, <2>4 DEF Next
<1> QED
  BY <1>1, <1>2, QuotaInductive, PTL DEF Spec

\* A visit has one bucket, and no counter to set back.
VisitInv ==
    /\ \A p \in Periods : usage[p].bucket \in {0, NoBucket} /\ rewinds[p] = 0
    /\ \A r \in Reqs : /\ tx[r].bucket = 0
                       /\ \A p \in Periods : tx[r].wrote[p].bucket \in {0, NoBucket}

LEMMA VisitStep ==
    ASSUME \A p \in Periods : Plan[p].seconds = 0,
           QuotaInv, VisitInv, [Next]_quotaVars
    PROVE  VisitInv'
<1>1. NoTx.bucket = 0 /\ \A p \in Periods : NoTx.wrote[p].bucket = NoBucket
  BY DEF NoTx, NoUsage
<1>2. ASSUME NEW r \in Reqs, Request(r) PROVE VisitInv'
  BY <1>2 DEF Request, VisitInv, QuotaInv, QuotaTypeOK, Tx
<1>3. ASSUME NEW r \in Reqs, ReadClock(r) PROVE VisitInv'
  <2>1. BucketAt(tx[r].at) = 0
    BY <1>3 DEF BucketAt, ReadClock, QuotaInv
  <2> QED
    BY <1>3, <2>1 DEF ReadClock, VisitInv, QuotaInv, QuotaTypeOK, Tx
<1>4. ASSUME NEW r \in Reqs, Count(r) PROVE VisitInv'
  <2> DEFINE p == tx[r].at
             row == Counted(usage[p], tx[r].bucket)
  <2>1. row.bucket = 0 /\ p \in Periods
    BY <1>4 DEF Counted, VisitInv, Count, QuotaInv
  <2>2. UNCHANGED <<usage, rewinds>>
    BY <1>4 DEF Count
  <2>3. \A q \in Reqs : \/ tx'[q] = NoTx
                        \/ /\ tx'[q].bucket = tx[q].bucket
                           /\ tx'[q].wrote \in {tx[q].wrote, [tx[q].wrote EXCEPT ![p] = row]}
    <3>1. \/ tx' = [tx EXCEPT ![r] = NoTx]
          \/ \E pc, at : tx' = [tx EXCEPT ![r].wrote[p] = row, ![r].pc = pc, ![r].at = at]
      BY <1>4 DEF Count, Ends
    <3>2. tx \in [Reqs -> Tx] /\ \A q \in Reqs : tx[q] \in Tx
      BY DEF QuotaInv, QuotaTypeOK
    <3> HIDE DEF row
    <3>3. CASE tx' = [tx EXCEPT ![r] = NoTx]
      BY <3>2, <3>3
    <3>4. ASSUME NEW pc, NEW at,
                 tx' = [tx EXCEPT ![r].wrote[p] = row, ![r].pc = pc, ![r].at = at]
          PROVE  \A q \in Reqs :
                    /\ tx'[q].bucket = tx[q].bucket
                    /\ tx'[q].wrote \in {tx[q].wrote, [tx[q].wrote EXCEPT ![p] = row]}
      BY <3>2, <3>4 DEF Tx
    <3> QED
      BY <3>1, <3>3, <3>4
  <2>4. \A q \in Reqs : tx[q].wrote \in [Periods -> UsageRow]
    BY DEF QuotaInv, QuotaTypeOK, Tx
  <2> HIDE DEF row, p
  <2> QED
    BY <1>1, <2>1, <2>2, <2>3, <2>4 DEF VisitInv
<1>5. ASSUME NEW r \in Reqs, Commit(r) PROVE VisitInv'
  <2>1. \A p \in Periods : tx[r].wrote[p].bucket = 0
    BY <1>5 DEF Commit, QuotaInv, WritesInOrder, VisitInv, Buckets, NoBucket
  <2>2. \A p \in Periods : usage'[p].bucket = 0 /\ rewinds'[p] = 0
    BY <1>5, <2>1 DEF Commit, VisitInv, NoBucket
  <2> QED
    BY <1>1, <1>5, <2>2 DEF Commit, Ends, VisitInv, QuotaInv, QuotaTypeOK
<1>6. ASSUME NEW r \in Reqs, Abort(r) PROVE VisitInv'
  BY <1>1, <1>6 DEF Abort, Ends, VisitInv, QuotaInv, QuotaTypeOK
<1>7. CASE Tick \/ UNCHANGED quotaVars
  BY <1>7 DEF Tick, quotaVars, VisitInv
<1> QED
  BY <1>2, <1>3, <1>4, <1>5, <1>6, <1>7 DEF Next

\* A sample visit, whose one period never ends, never runs more queries than its
\* limit, on any number of workers.
THEOREM VisitLimitHolds ==
    ASSUME \A p \in Periods : Plan[p].seconds = 0
    PROVE  Spec => []LimitPerBucket
<1>1. Init => VisitInv
  BY DEF Init, VisitInv, NoTx, NoUsage
<1>2. VisitInv /\ LimitUnlessRewound => LimitPerBucket
  BY PlanType DEF VisitInv, LimitUnlessRewound, LimitPerBucket
<1>3. QuotaInv /\ VisitInv /\ [Next]_quotaVars => VisitInv'
  BY VisitStep
<1> QED
  BY <1>1, <1>2, <1>3, QuotaInductive, LimitHolds, PTL DEF Spec
=============================================================================
