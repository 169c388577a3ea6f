-------------------------- MODULE CreditLedgerProofs --------------------------
(***************************************************************************)
(* For every number of jobs and buckets and every set of calls: the rows   *)
(* keep their types, the CHECK constraints of credit_buckets never fire,   *)
(* the reserved column is what the jobs hold, every hold stays backed, the *)
(* double-entry legs and the buckets never drift apart, a reservation never*)
(* overdraws, and the ledger implements JobHold for every job.             *)
(***************************************************************************)
EXTENDS LedgerHolds, TallyProofs

USE BoundsAssumption

LInv == TypeOK /\ BucketsWithinCapacity /\ ReservedIsHeld /\ HoldsAreBacked

\* A walk takes naturals, never beyond the capacity, that sum to the amount.
LEMMA WalkFacts ==
  ASSUME NEW capacity, NEW before, NEW amount \in Nat,
         NEW take \in Walks(capacity, before, amount)
  PROVE  /\ take \in [BucketIds -> Nat]
         /\ take \in [BucketIds -> Int]
         /\ Total(take, MaxBuckets) = amount
         /\ \A b \in BucketIds : take[b] <= capacity[b]
BY DEF Walks

\* Replacing one job's row changes each bucket's sum by that job's difference.
LEMMA ColumnChange ==
  ASSUME NEW h \in [Jobs -> [BucketIds -> Nat]], NEW j \in Jobs,
         NEW r \in [BucketIds -> Nat], NEW b \in BucketIds
  PROVE  Total([i \in Jobs |-> [h EXCEPT ![j] = r][i][b]], NumJobs) =
           Total([i \in Jobs |-> h[i][b]], NumJobs) + (r[b] - h[j][b])
<1> DEFINE f == [i \in Jobs |-> h[i][b]]
           g == [i \in Jobs |-> [h EXCEPT ![j] = r][i][b]]
<1>1. f \in [1..NumJobs -> Int] /\ g \in [1..NumJobs -> Int] /\ j \in 1..NumJobs
  BY DEF Jobs
<1>2. \A i \in 1..NumJobs : i # j => g[i] = f[i]
  BY DEF Jobs
<1>3. g[j] = r[b] /\ f[j] = h[j][b]
  OBVIOUS
<1> HIDE DEF f, g
<1>4. Total(g, NumJobs) = Total(f, NumJobs) + (g[j] - f[j])
  BY <1>1, <1>2, TotalChange
<1>5. QED BY <1>3, <1>4 DEF f, g

\* A row that grows or shrinks by what a walk takes changes its sum by that.
LEMMA RowChange ==
  ASSUME NEW r \in [BucketIds -> Nat], NEW take \in [BucketIds -> Nat],
         NEW s \in [BucketIds -> Nat],
         \A b \in BucketIds : s[b] = r[b] + take[b]
  PROVE  Total(s, MaxBuckets) = Total(r, MaxBuckets) + Total(take, MaxBuckets)
<1>1. /\ r \in [1..MaxBuckets -> Int] /\ s \in [1..MaxBuckets -> Int]
      /\ take \in [1..MaxBuckets -> Int]
      /\ \A b \in 1..MaxBuckets : s[b] = r[b] + take[b]
  BY DEF BucketIds
<1>2. QED BY <1>1, TotalAdds

\* No job holds more of a bucket than the bucket has reserved.
LEMMA HeldWithinReserved ==
  ASSUME TypeOK, ReservedIsHeld, NEW j \in Jobs, NEW b \in BucketIds
  PROVE  held[j][b] <= IF b \in Issued THEN buckets[b].reserved ELSE 0
<1> DEFINE f == [i \in Jobs |-> held[i][b]]
<1>1. f \in [1..NumJobs -> Nat] /\ j \in 1..NumJobs /\ f[j] = held[j][b]
  BY DEF TypeOK, Jobs
<1> HIDE DEF f
<1>2. f[j] <= Total(f, NumJobs)
  BY <1>1, TotalBounds
<1>3. QED BY <1>1, <1>2 DEF ReservedIsHeld, f

\* The cut and grown buckets are rows again.
LEMMA RowsStayRows ==
  ASSUME TypeOK, NEW k \in [Issued -> Bucket]
  PROVE  k \in Seq(Bucket) /\ Len(k) = Len(buckets)
<1>1. Len(buckets) \in Nat
  BY DEF TypeOK
<1>2. QED BY <1>1 DEF Issued

LEMMA IssuedFacts ==
  ASSUME TypeOK
  PROVE  /\ Issued \subseteq BucketIds
         /\ \A b \in Issued : buckets[b] \in Bucket
         /\ Len(buckets) \in Nat
<1>1. Len(buckets) \in Nat /\ Len(buckets) <= MaxBuckets
  BY DEF TypeOK
<1>2. Issued \subseteq BucketIds
  BY <1>1 DEF Issued, BucketIds
<1>3. \A b \in Issued : buckets[b] \in Bucket
  BY DEF TypeOK, Issued
<1>4. QED BY <1>1, <1>2, <1>3

\* When a step changes one job's row, each bucket's reserved column must
\* follow it by the same amount.
LEMMA ReservedFollows ==
  ASSUME TypeOK, ReservedIsHeld, NEW j \in Jobs,
         buckets' \in [Issued -> Bucket], held'[j] \in [BucketIds -> Nat],
         held' = [held EXCEPT ![j] = held'[j]],
         \A b \in Issued : buckets'[b].reserved =
           buckets[b].reserved + (held'[j][b] - held[j][b]),
         \A b \in BucketIds : b \notin Issued => held'[j][b] = held[j][b]
  PROVE  ReservedIsHeld'
<1>1. Issued' = Issued
  BY RowsStayRows DEF Issued
<1>2. SUFFICES ASSUME NEW b \in BucketIds
               PROVE  Total([i \in Jobs |-> held'[i][b]], NumJobs) =
                        IF b \in Issued THEN buckets'[b].reserved ELSE 0
  BY <1>1, Zenon DEF ReservedIsHeld
<1>3. held \in [Jobs -> [BucketIds -> Nat]]
  BY DEF TypeOK
<1>4. Total([i \in Jobs |-> held'[i][b]], NumJobs) =
        Total([i \in Jobs |-> held[i][b]], NumJobs) + (held'[j][b] - held[j][b])
  <2>1. PICK row \in [BucketIds -> Nat] : row = held'[j]
    OBVIOUS
  <2>2. Total([i \in Jobs |-> [held EXCEPT ![j] = row][i][b]], NumJobs) =
          Total([i \in Jobs |-> held[i][b]], NumJobs) + (row[b] - held[j][b])
    BY <1>3, ColumnChange, Zenon
  <2>3. held' = [held EXCEPT ![j] = row]
    BY <2>1
  <2>4. QED BY <2>1, <2>2, <2>3
<1>5. Total([i \in Jobs |-> held[i][b]], NumJobs) =
        IF b \in Issued THEN buckets[b].reserved ELSE 0
  BY DEF ReservedIsHeld
<1>6. held[j][b] \in Nat /\ held'[j][b] \in Nat
  BY <1>3
<1>7. QED BY <1>4, <1>5, <1>6

\* When a step changes one job's row, its pending legs must follow the sum.
LEMMA BackingFollows ==
  ASSUME TypeOK, HoldsAreBacked, NEW j \in Jobs, NEW kind \in PairKinds,
         NEW amount \in Nat, NEW row \in [BucketIds -> Nat],
         held' = [held EXCEPT ![j] = row],
         legs[kind][j] = 0, legs' = [legs EXCEPT ![kind][j] = amount],
         Total(row, MaxBuckets) = Total(held[j], MaxBuckets)
           + (IF kind = "reserve" THEN amount ELSE -amount)
  PROVE  HoldsAreBacked'
<1>1. SUFFICES ASSUME NEW i \in Jobs
               PROVE  Total(held'[i], MaxBuckets) = PendingOf(i)'
  BY DEF HoldsAreBacked
<1>2. Total(held[i], MaxBuckets) = PendingOf(i)
  BY DEF HoldsAreBacked
<1>3. \A q \in PairKinds, n \in Jobs :
        /\ legs[q][n] \in Nat
        /\ legs'[q][n] = IF q = kind /\ n = j THEN amount ELSE legs[q][n]
  BY DEF TypeOK
<1>4. CASE i # j
  <2>1. held'[i] = held[i]
    BY <1>4 DEF TypeOK
  <2>2. PendingOf(i)' = PendingOf(i)
    BY <1>3, <1>4 DEF PendingOf, PairKinds
  <2>3. QED BY <1>2, <2>1, <2>2
<1>5. CASE i = j
  <2>1. held'[i] = row
    BY <1>5 DEF TypeOK
  <2>2. PendingOf(i)' = PendingOf(i) + (IF kind = "reserve" THEN amount ELSE -amount)
    BY <1>3, <1>5 DEF PendingOf, PairKinds
  <2>3. QED BY <1>2, <1>5, <2>1, <2>2
<1>6. QED BY <1>4, <1>5

\* Steps that touch neither holds nor reserved columns keep both sums.
LEMMA HoldsUntouched ==
  ASSUME TypeOK, ReservedIsHeld, HoldsAreBacked,
         held' = held, legs' = legs, Issued \subseteq Issued',
         \A b \in Issued : buckets'[b].reserved = buckets[b].reserved,
         \A b \in Issued' : b \notin Issued => buckets'[b].reserved = 0
  PROVE  ReservedIsHeld' /\ HoldsAreBacked'
<1>1. HoldsAreBacked'
  BY DEF HoldsAreBacked, PendingOf
<1>2. ReservedIsHeld'
  BY Zenon DEF ReservedIsHeld
<1>3. QED BY <1>1, <1>2

LEMMA InitLInv == Init => LInv
<1> SUFFICES ASSUME Init PROVE LInv
  OBVIOUS
<1>1. TypeOK
  BY DEF Init, TypeOK, NotExpired
<1>2. Issued = {}
  BY DEF Init, Issued
<1>3. BucketsWithinCapacity
  BY <1>2 DEF BucketsWithinCapacity
<1>4. ReservedIsHeld
  <2>1. SUFFICES ASSUME NEW b \in BucketIds
                 PROVE  Total([j \in Jobs |-> held[j][b]], NumJobs) = 0
    BY <1>2 DEF ReservedIsHeld
  <2> DEFINE f == [j \in Jobs |-> held[j][b]]
  <2>2. f \in [1..NumJobs -> Int] /\ \A j \in 1..NumJobs : f[j] = 0
    BY DEF Init, Jobs
  <2> HIDE DEF f
  <2>3. Total(f, NumJobs) = 0
    BY <2>2, TotalZero
  <2>4. QED BY <2>3 DEF f
<1>5. HoldsAreBacked
  <2>1. SUFFICES ASSUME NEW j \in Jobs
                 PROVE  Total(held[j], MaxBuckets) = PendingOf(j)
    BY DEF HoldsAreBacked
  <2>2. held[j] \in [1..MaxBuckets -> Int] /\ \A b \in 1..MaxBuckets : held[j][b] = 0
    BY DEF Init, BucketIds
  <2>3. Total(held[j], MaxBuckets) = 0
    BY <2>2, TotalZero
  <2>4. PendingOf(j) = 0
    BY DEF PendingOf, Init, PairKinds
  <2>5. QED BY <2>3, <2>4
<1>6. QED BY <1>1, <1>3, <1>4, <1>5 DEF LInv

\* The rows a taken amount leaves behind.
LEMMA RowOperations ==
  ASSUME NEW k \in Bucket, NEW t \in Nat
  PROVE  /\ Hold(k, t) \in Bucket /\ Hold(k, t).reserved = k.reserved + t
         /\ Hold(k, t).consumed = k.consumed /\ Hold(k, t).granted = k.granted
         /\ Hold(k, t).origin = k.origin
         /\ t <= k.reserved =>
              /\ Release(k, t) \in Bucket /\ Release(k, t).reserved = k.reserved - t
              /\ Release(k, t).consumed = k.consumed
              /\ Release(k, t).granted = k.granted
              /\ Release(k, t).origin = k.origin
         /\ t <= k.reserved =>
              /\ Spend(k, t) \in Bucket /\ Spend(k, t).reserved = k.reserved - t
              /\ Spend(k, t).consumed = k.consumed + t
              /\ Spend(k, t).granted = k.granted
              /\ Spend(k, t).origin = k.origin
         /\ Cut(k, t) \in Bucket /\ Cut(k, t).reserved = k.reserved
         /\ Cut(k, t).consumed = k.consumed /\ Cut(k, t).granted = k.granted - t
         /\ Cut(k, t).origin = k.origin
<1>1. /\ k.reserved \in Nat /\ k.consumed \in Nat /\ k.granted \in Int
      /\ k = [key |-> k.key, origin |-> k.origin, granted |-> k.granted,
              reserved |-> k.reserved, consumed |-> k.consumed,
              expiresAt |-> k.expiresAt, order |-> k.order, cycle |-> k.cycle]
  BY DEF Bucket
<1>2. /\ Hold(k, t) \in Bucket /\ Hold(k, t).reserved = k.reserved + t
      /\ Hold(k, t).consumed = k.consumed /\ Hold(k, t).granted = k.granted
      /\ Hold(k, t).origin = k.origin
  BY <1>1 DEF Hold, Bucket
<1>3. ASSUME t <= k.reserved
      PROVE  /\ Release(k, t) \in Bucket /\ Release(k, t).reserved = k.reserved - t
             /\ Release(k, t).consumed = k.consumed
             /\ Release(k, t).granted = k.granted
             /\ Release(k, t).origin = k.origin
  BY <1>1, <1>3 DEF Release, Bucket
<1>4. ASSUME t <= k.reserved
      PROVE  /\ Spend(k, t) \in Bucket /\ Spend(k, t).reserved = k.reserved - t
             /\ Spend(k, t).consumed = k.consumed + t
             /\ Spend(k, t).granted = k.granted
             /\ Spend(k, t).origin = k.origin
  BY <1>1, <1>3, <1>4 DEF Spend, Bucket
<1>5. /\ Cut(k, t) \in Bucket /\ Cut(k, t).reserved = k.reserved
      /\ Cut(k, t).consumed = k.consumed /\ Cut(k, t).granted = k.granted - t
      /\ Cut(k, t).origin = k.origin
  BY <1>1 DEF Cut, Bucket
<1>6. QED BY <1>2, <1>3, <1>4, <1>5

\* A new bucket with nothing reserved and a capacity of its own.
LEMMA GrantStep ==
  ASSUME LInv, NEW g \in GrantCalls, Grant(g)
  PROVE  LInv'
<1> USE DEF LInv
<1> DEFINE new == [key |-> g.key, origin |-> g.origin, granted |-> g.amount,
                   reserved |-> 0, consumed |-> 0, expiresAt |-> g.expiresAt,
                   order |-> g.order, cycle |-> g.cycle]
<1>1. g \in GrantCall
  BY CallsAssumption
<1>2. new \in Bucket
  BY <1>1 DEF GrantCall, Bucket
<1>3. buckets' = Append(buckets, new) /\ Len(buckets) < MaxBuckets
  BY DEF Grant
<1>4. /\ Len(buckets') = Len(buckets) + 1
      /\ buckets' \in Seq(Bucket)
      /\ \A b \in Issued : buckets'[b] = buckets[b]
      /\ buckets'[Len(buckets) + 1] = new
  <2> HIDE DEF new
  <2> QED BY <1>2, <1>3 DEF TypeOK, Issued
<1>5. TypeOK'
  BY <1>3, <1>4, IssuedFacts DEF TypeOK, Grant
<1>6. \A b \in Issued' : b \in Issued \/ b = Len(buckets) + 1
  BY <1>4, IssuedFacts DEF Issued
<1>7. BucketsWithinCapacity'
  <2>1. Spare(new) >= 0
    BY <1>1 DEF Spare, GrantCall
  <2> HIDE DEF new
  <2>2. QED BY <2>1, <1>4, <1>6 DEF BucketsWithinCapacity
<1>8. ReservedIsHeld' /\ HoldsAreBacked'
  <2>1. Issued \subseteq Issued'
    BY <1>4, IssuedFacts DEF Issued
  <2>2. held' = held /\ legs' = legs
    BY DEF Grant
  <2>3. QED BY <1>4, <1>6, <2>1, <2>2, HoldsUntouched
<1>9. QED BY <1>5, <1>7, <1>8

\* A reservation takes only spare capacity, and holds what it takes.
LEMMA ReserveStep ==
  ASSUME LInv, NEW j \in Jobs, NEW amount \in HoldAmounts, Reserve(j, amount)
  PROVE  LInv'
<1> USE DEF LInv
<1>0. amount \in Nat /\ "reserve" \in PairKinds
  BY CallsAssumption DEF PairKinds
<1>1. PICK take \in Walks(LiveCapacity, SpendOrder, amount) :
        /\ buckets' = [b \in Issued |-> Hold(buckets[b], take[b])]
        /\ held' = [held EXCEPT ![j] = [b \in BucketIds |-> held[j][b] + take[b]]]
  BY DEF Reserve
<1>2. /\ take \in [BucketIds -> Nat]
      /\ Total(take, MaxBuckets) = amount
      /\ \A b \in BucketIds : take[b] <= LiveCapacity[b]
  BY <1>0, WalkFacts
<1> DEFINE row == [b \in BucketIds |-> held[j][b] + take[b]]
           k == [b \in Issued |-> Hold(buckets[b], take[b])]
<1>3. held[j] \in [BucketIds -> Nat] /\ row \in [BucketIds -> Nat]
  BY <1>2 DEF TypeOK
<1>4. k \in [Issued -> Bucket]
  BY <1>2, IssuedFacts, RowOperations
<1>5. ASSUME NEW b \in BucketIds
      PROVE  take[b] <= IF b \in Issued THEN AtLeastZero(Spare(buckets[b])) ELSE 0
  <2>1. LiveCapacity[b] = IF b \in Issued /\ Live(buckets[b])
                          THEN AtLeastZero(Spare(buckets[b])) ELSE 0
    BY DEF LiveCapacity
  <2>2. b \in Issued => AtLeastZero(Spare(buckets[b])) >= 0
    BY IssuedFacts DEF AtLeastZero, Spare, Bucket
  <2>3. take[b] <= LiveCapacity[b] /\ take[b] \in Nat
    BY <1>2
  <2>4. QED BY <2>1, <2>2, <2>3
<1>6. TypeOK'
  BY <1>0, <1>1, <1>3, <1>4, RowsStayRows DEF TypeOK, Reserve
<1>7. Issued' = Issued
  BY <1>1, <1>4, RowsStayRows DEF Issued
<1>8. BucketsWithinCapacity'
  <2>1. SUFFICES ASSUME NEW b \in Issued
                 PROVE  \/ k[b].origin = "clawback" /\ k[b].reserved + k[b].consumed = 0
                        \/ Spare(k[b]) >= 0
    BY <1>1, <1>7 DEF BucketsWithinCapacity
  <2>2. take[b] \in Nat /\ take[b] <= AtLeastZero(Spare(buckets[b]))
    BY <1>2, <1>5, IssuedFacts
  <2>3. buckets[b] \in Bucket
    BY IssuedFacts
  <2>4. /\ k[b].origin = buckets[b].origin /\ k[b].consumed = buckets[b].consumed
        /\ k[b].granted = buckets[b].granted
        /\ k[b].reserved = buckets[b].reserved + take[b]
    BY <2>2, <2>3, RowOperations
  <2>5. /\ buckets[b].granted \in Int /\ buckets[b].reserved \in Nat
        /\ buckets[b].consumed \in Nat
    BY <2>3 DEF Bucket
  <2> HIDE DEF k
  <2>6. QED BY <2>2, <2>4, <2>5 DEF BucketsWithinCapacity, Spare, AtLeastZero
<1>9. ReservedIsHeld'
  <2>1. \A b \in Issued : k[b].reserved = buckets[b].reserved + (row[b] - held[j][b])
    <3> TAKE b \in Issued
    <3>1. buckets[b] \in Bucket /\ take[b] \in Nat /\ b \in BucketIds
      BY <1>2, IssuedFacts
    <3>2. k[b].reserved = buckets[b].reserved + take[b]
      BY <3>1, RowOperations
    <3>3. row[b] = held[j][b] + take[b] /\ held[j][b] \in Nat
      BY <1>3, <3>1
    <3>4. buckets[b].reserved \in Nat
      BY <3>1 DEF Bucket
    <3>5. QED BY <3>1, <3>2, <3>3, <3>4
  <2>2. \A b \in BucketIds : b \notin Issued => row[b] = held[j][b]
    BY <1>2, <1>3, <1>5
  <2>3. buckets' = k /\ held'[j] = row /\ held' = [held EXCEPT ![j] = held'[j]]
    BY <1>1, <1>3 DEF TypeOK
  <2> HIDE DEF row, k
  <2>4. QED BY <1>3, <1>4, <2>1, <2>2, <2>3, ReservedFollows
<1>10. HoldsAreBacked'
  <2>1. Total(row, MaxBuckets) = Total(held[j], MaxBuckets) + amount
    BY <1>2, <1>3, RowChange
  <2>2. legs["reserve"][j] = 0 /\ legs' = [legs EXCEPT !["reserve"][j] = amount]
    BY DEF Reserve
  <2>3. held' = [held EXCEPT ![j] = row]
    BY <1>1
  <2> HIDE DEF row
  <2>4. QED BY <1>0, <1>3, <2>1, <2>2, <2>3, BackingFollows
<1>11. QED BY <1>6, <1>8, <1>9, <1>10

\* A settlement takes from each bucket at most what the bucket has reserved.
LEMMA SettlementTake ==
  ASSUME LInv, NEW j \in Jobs, NEW amount \in Nat,
         NEW take \in Walks(held[j], SpendOrder, amount)
  PROVE  /\ take \in [BucketIds -> Nat]
         /\ \A b \in BucketIds : take[b] <= held[j][b] /\ held[j][b] \in Nat
         /\ \A b \in Issued : take[b] <= buckets[b].reserved
         /\ \A b \in BucketIds : b \notin Issued => take[b] = 0
         /\ [b \in BucketIds |-> held[j][b] - take[b]] \in [BucketIds -> Nat]
         /\ Total([b \in BucketIds |-> held[j][b] - take[b]], MaxBuckets) =
              Total(held[j], MaxBuckets) - amount
<1> DEFINE row == [b \in BucketIds |-> held[j][b] - take[b]]
<1>1. /\ take \in [BucketIds -> Nat]
      /\ Total(take, MaxBuckets) = amount
      /\ \A b \in BucketIds : take[b] <= held[j][b]
  BY WalkFacts
<1>2. held[j] \in [BucketIds -> Nat]
  BY DEF LInv, TypeOK
<1>3. \A b \in BucketIds : held[j][b] <= IF b \in Issued THEN buckets[b].reserved ELSE 0
  BY HeldWithinReserved DEF LInv
<1>4. \A b \in Issued : take[b] <= buckets[b].reserved
  <2> TAKE b \in Issued
  <2>1. b \in BucketIds /\ buckets[b].reserved \in Nat
    BY IssuedFacts DEF LInv, Bucket
  <2>2. held[j][b] <= buckets[b].reserved /\ take[b] <= held[j][b]
    BY <1>1, <1>3, <2>1
  <2>3. QED BY <1>1, <1>2, <2>1, <2>2
<1>5. \A b \in BucketIds : b \notin Issued => take[b] = 0
  BY <1>1, <1>2, <1>3
<1>6. row \in [BucketIds -> Nat]
  BY <1>1, <1>2
<1>7. Total(held[j], MaxBuckets) = Total(row, MaxBuckets) + Total(take, MaxBuckets)
  <2>1. \A b \in BucketIds : held[j][b] = row[b] + take[b]
    BY <1>1, <1>2
  <2> HIDE DEF row
  <2>2. QED BY <1>1, <1>2, <1>6, <2>1, RowChange
<1>8. Total(row, MaxBuckets) \in Int
  BY <1>6, TotalInt DEF BucketIds
<1>9. QED BY <1>1, <1>2, <1>4, <1>5, <1>6, <1>7, <1>8

\* Whatever a settlement does with the credit it takes out of reserved.
LEMMA SettlementStep ==
  ASSUME LInv, NEW j \in Jobs, NEW kind \in PairKinds \ {"reserve"},
         NEW amount \in Nat, NEW take \in Walks(held[j], SpendOrder, amount),
         buckets' \in [Issued -> Bucket],
         \A b \in Issued :
           /\ buckets'[b].reserved = buckets[b].reserved - take[b]
           /\ buckets'[b].consumed \in {buckets[b].consumed, buckets[b].consumed + take[b]}
           /\ buckets'[b].granted = buckets[b].granted
           /\ buckets'[b].origin = buckets[b].origin,
         held' = [held EXCEPT ![j] = [b \in BucketIds |-> held[j][b] - take[b]]],
         legs[kind][j] = 0, legs' = [legs EXCEPT ![kind][j] = amount],
         UNCHANGED <<grantLegs, clawLegs, l0Expiry, now>>
  PROVE  LInv'
<1> USE DEF LInv
<1> DEFINE row == [b \in BucketIds |-> held[j][b] - take[b]]
<1>1. /\ take \in [BucketIds -> Nat]
      /\ \A b \in BucketIds : take[b] <= held[j][b] /\ held[j][b] \in Nat
      /\ \A b \in Issued : take[b] <= buckets[b].reserved
      /\ \A b \in BucketIds : b \notin Issued => take[b] = 0
      /\ row \in [BucketIds -> Nat]
      /\ Total(row, MaxBuckets) = Total(held[j], MaxBuckets) - amount
  BY SettlementTake
<1>2. held'[j] = row /\ held' = [held EXCEPT ![j] = row]
  BY DEF TypeOK
<1>3. Issued' = Issued
  BY RowsStayRows DEF Issued
<1>4. TypeOK'
  BY <1>1, <1>2, RowsStayRows DEF TypeOK
<1>5. BucketsWithinCapacity'
  <2>1. SUFFICES ASSUME NEW b \in Issued
                 PROVE  \/ /\ buckets'[b].origin = "clawback"
                           /\ buckets'[b].reserved + buckets'[b].consumed = 0
                        \/ Spare(buckets'[b]) >= 0
    BY <1>3 DEF BucketsWithinCapacity
  <2>2. /\ buckets[b].granted \in Int /\ buckets[b].reserved \in Nat
        /\ buckets[b].consumed \in Nat
    BY IssuedFacts DEF Bucket
  <2>3. take[b] \in Nat /\ take[b] <= buckets[b].reserved
    BY <1>1, IssuedFacts
  <2>4. \/ buckets[b].origin = "clawback" /\ buckets[b].reserved + buckets[b].consumed = 0
        \/ Spare(buckets[b]) >= 0
    BY DEF BucketsWithinCapacity
  <2>5. /\ buckets'[b].reserved = buckets[b].reserved - take[b]
        /\ \/ buckets'[b].consumed = buckets[b].consumed
           \/ buckets'[b].consumed = buckets[b].consumed + take[b]
        /\ buckets'[b].granted = buckets[b].granted
        /\ buckets'[b].origin = buckets[b].origin
    OBVIOUS
  <2> DEFINE p == buckets[b]  q == buckets'[b]
  <2> HIDE DEF p, q
  <2>6. /\ p.granted \in Int /\ p.reserved \in Nat /\ p.consumed \in Nat
        /\ q.reserved = p.reserved - take[b]
        /\ q.consumed = p.consumed \/ q.consumed = p.consumed + take[b]
        /\ q.granted = p.granted /\ q.origin = p.origin
        /\ take[b] \in Nat /\ take[b] <= p.reserved
        /\ \/ p.origin = "clawback" /\ p.reserved + p.consumed = 0
           \/ Spare(p) >= 0
    BY <2>2, <2>3, <2>4, <2>5 DEF p, q
  <2>7. \/ q.origin = "clawback" /\ q.reserved + q.consumed = 0
        \/ Spare(q) >= 0
    BY <2>6 DEF Spare
  <2>8. QED BY <2>7 DEF q
<1>6. ReservedIsHeld'
  <2>1. \A b \in Issued : buckets'[b].reserved =
                            buckets[b].reserved + (held'[j][b] - held[j][b])
    <3> TAKE b \in Issued
    <3>1. b \in BucketIds /\ buckets[b].reserved \in Nat
      BY IssuedFacts DEF Bucket
    <3>2. held'[j][b] = held[j][b] - take[b] /\ held[j][b] \in Nat /\ take[b] \in Nat
      BY <1>1, <1>2, <3>1
    <3>3. QED BY <3>1, <3>2
  <2>2. \A b \in BucketIds : b \notin Issued => held'[j][b] = held[j][b]
    BY <1>1, <1>2
  <2>3. held'[j] \in [BucketIds -> Nat] /\ held' = [held EXCEPT ![j] = held'[j]]
    BY <1>1, <1>2
  <2>4. QED BY <2>1, <2>2, <2>3, ReservedFollows
<1>7. HoldsAreBacked'
  <2>1. Total(held[j], MaxBuckets) \in Int
    <3>1. held[j] \in [1..MaxBuckets -> Int]
      BY DEF TypeOK, BucketIds
    <3>2. QED BY <3>1, TotalInt
  <2>2. Total(row, MaxBuckets) = Total(held[j], MaxBuckets)
          + (IF kind = "reserve" THEN amount ELSE -amount)
    BY <1>1, <2>1
  <2> HIDE DEF row
  <2>3. QED BY <1>1, <1>2, <2>2, BackingFollows
<1>8. QED BY <1>4, <1>5, <1>6, <1>7

LEMMA CommitStep ==
  ASSUME LInv, NEW j \in Jobs, NEW amount \in HoldAmounts, Commit(j, amount)
  PROVE  LInv'
<1>1. amount \in Nat /\ "commit" \in PairKinds \ {"reserve"}
  BY CallsAssumption DEF PairKinds
<1>2. PICK take \in Walks(held[j], SpendOrder, amount) :
        /\ buckets' = [b \in Issued |-> Spend(buckets[b], take[b])]
        /\ held' = [held EXCEPT ![j] = [b \in BucketIds |-> held[j][b] - take[b]]]
  BY DEF Commit
<1>3. \A b \in Issued : /\ buckets[b] \in Bucket /\ take[b] \in Nat
                        /\ take[b] <= buckets[b].reserved
  <2>1. /\ take \in [BucketIds -> Nat]
        /\ \A b \in Issued : take[b] <= buckets[b].reserved
    BY <1>1, SettlementTake, Zenon
  <2>2. Issued \subseteq BucketIds /\ \A b \in Issued : buckets[b] \in Bucket
    BY IssuedFacts, Zenon DEF LInv
  <2>3. QED BY <2>1, <2>2
<1>4. \A b \in Issued : /\ buckets'[b] = Spend(buckets[b], take[b])
                        /\ buckets'[b] \in Bucket
                        /\ buckets'[b].reserved = buckets[b].reserved - take[b]
                        /\ buckets'[b].consumed = buckets[b].consumed + take[b]
                        /\ buckets'[b].granted = buckets[b].granted
                        /\ buckets'[b].origin = buckets[b].origin
  <2> TAKE b \in Issued
  <2>1. buckets'[b] = Spend(buckets[b], take[b])
    BY <1>2
  <2>2. buckets[b] \in Bucket /\ take[b] \in Nat /\ take[b] <= buckets[b].reserved
    BY <1>3
  <2>3. /\ Spend(buckets[b], take[b]) \in Bucket
        /\ Spend(buckets[b], take[b]).reserved = buckets[b].reserved - take[b]
        /\ Spend(buckets[b], take[b]).consumed = buckets[b].consumed + take[b]
        /\ Spend(buckets[b], take[b]).granted = buckets[b].granted
        /\ Spend(buckets[b], take[b]).origin = buckets[b].origin
    BY <2>2, RowOperations
  <2>4. QED BY <2>1, <2>3
<1>5. buckets' \in [Issued -> Bucket]
  BY <1>2, <1>4
<1>6. /\ legs["commit"][j] = 0 /\ legs' = [legs EXCEPT !["commit"][j] = amount]
      /\ UNCHANGED <<grantLegs, clawLegs, l0Expiry, now>>
  BY DEF Commit
<1>7. \A b \in Issued :
        /\ buckets'[b].reserved = buckets[b].reserved - take[b]
        /\ buckets'[b].consumed \in {buckets[b].consumed, buckets[b].consumed + take[b]}
        /\ buckets'[b].granted = buckets[b].granted
        /\ buckets'[b].origin = buckets[b].origin
  BY <1>4
<1>8. QED BY <1>1, <1>2, <1>5, <1>6, <1>7, SettlementStep, Zenon

LEMMA RefundStep ==
  ASSUME LInv, NEW j \in Jobs, NEW amount \in HoldAmounts,
         NEW kind \in {"refund", "refund-partial"}, Refund(kind, j, amount)
  PROVE  LInv'
<1>1. amount \in Nat /\ kind \in PairKinds \ {"reserve"}
  BY CallsAssumption DEF PairKinds
<1>2. PICK take \in Walks(held[j], SpendOrder, amount) :
        /\ buckets' = [b \in Issued |-> Release(buckets[b], take[b])]
        /\ held' = [held EXCEPT ![j] = [b \in BucketIds |-> held[j][b] - take[b]]]
  BY DEF Refund
<1>3. \A b \in Issued : /\ buckets[b] \in Bucket /\ take[b] \in Nat
                        /\ take[b] <= buckets[b].reserved
  <2>1. /\ take \in [BucketIds -> Nat]
        /\ \A b \in Issued : take[b] <= buckets[b].reserved
    BY <1>1, SettlementTake, Zenon
  <2>2. Issued \subseteq BucketIds /\ \A b \in Issued : buckets[b] \in Bucket
    BY IssuedFacts, Zenon DEF LInv
  <2>3. QED BY <2>1, <2>2
<1>4. \A b \in Issued : /\ buckets'[b] = Release(buckets[b], take[b])
                        /\ buckets'[b] \in Bucket
                        /\ buckets'[b].reserved = buckets[b].reserved - take[b]
                        /\ buckets'[b].consumed = buckets[b].consumed
                        /\ buckets'[b].granted = buckets[b].granted
                        /\ buckets'[b].origin = buckets[b].origin
  <2> TAKE b \in Issued
  <2>1. buckets'[b] = Release(buckets[b], take[b])
    BY <1>2
  <2>2. buckets[b] \in Bucket /\ take[b] \in Nat /\ take[b] <= buckets[b].reserved
    BY <1>3
  <2>3. /\ Release(buckets[b], take[b]) \in Bucket
        /\ Release(buckets[b], take[b]).reserved = buckets[b].reserved - take[b]
        /\ Release(buckets[b], take[b]).consumed = buckets[b].consumed
        /\ Release(buckets[b], take[b]).granted = buckets[b].granted
        /\ Release(buckets[b], take[b]).origin = buckets[b].origin
    BY <2>2, RowOperations
  <2>4. QED BY <2>1, <2>3
<1>5. buckets' \in [Issued -> Bucket]
  BY <1>2, <1>4
<1>6. /\ legs[kind][j] = 0 /\ legs' = [legs EXCEPT ![kind][j] = amount]
      /\ UNCHANGED <<grantLegs, clawLegs, l0Expiry, now>>
  BY DEF Refund
<1>7. \A b \in Issued :
        /\ buckets'[b].reserved = buckets[b].reserved - take[b]
        /\ buckets'[b].consumed \in {buckets[b].consumed, buckets[b].consumed + take[b]}
        /\ buckets'[b].granted = buckets[b].granted
        /\ buckets'[b].origin = buckets[b].origin
  BY <1>4
<1>8. QED BY <1>1, <1>2, <1>5, <1>6, <1>7, SettlementStep, Zenon

\* Cutting no more than a bucket's spare capacity leaves it within capacity.
LEMMA CutWithinCapacity ==
  ASSUME NEW k \in Bucket, NEW t \in Nat, t <= AtLeastZero(Spare(k)),
         \/ k.origin = "clawback" /\ k.reserved + k.consumed = 0
         \/ Spare(k) >= 0
  PROVE  \/ /\ Cut(k, t).origin = "clawback"
            /\ Cut(k, t).reserved + Cut(k, t).consumed = 0
         \/ Spare(Cut(k, t)) >= 0
<1>1. /\ Cut(k, t).origin = k.origin /\ Cut(k, t).reserved = k.reserved
      /\ Cut(k, t).consumed = k.consumed /\ Cut(k, t).granted = k.granted - t
  BY RowOperations
<1>2. k.granted \in Int /\ k.reserved \in Nat /\ k.consumed \in Nat
  BY DEF Bucket
<1>3. QED BY <1>1, <1>2 DEF Spare, AtLeastZero

\* A clawback takes spare capacity only; its remainder is a bucket of debt.
LEMMA ClawbackStep ==
  ASSUME LInv, NEW c \in ClawbackCalls, Clawback(c)
  PROVE  LInv'
<1> DEFINE taken == Lesser(c.amount, Total(AnyCapacity, MaxBuckets))
           debt == c.amount - taken
           owed == [key |-> c.key, origin |-> "clawback", granted |-> -debt,
                    reserved |-> 0, consumed |-> 0, expiresAt |-> Never,
                    order |-> c.order, cycle |-> NoCycle]
<1>1. c.amount \in Nat /\ c.key \in Keys /\ c.order \in Orders \cup {NoOrder}
  BY CallsAssumption DEF ClawbackCall
<1>2. \A b \in BucketIds : /\ AnyCapacity[b] \in Nat
                           /\ b \in Issued => AnyCapacity[b] = AtLeastZero(Spare(buckets[b]))
                           /\ b \notin Issued => AnyCapacity[b] = 0
  BY IssuedFacts DEF LInv, AnyCapacity, AtLeastZero, Spare, Bucket
<1>3. AnyCapacity \in [1..MaxBuckets -> Nat]
  BY <1>2 DEF AnyCapacity, BucketIds
<1>4. taken \in Nat /\ debt \in Nat
  <2>1. Total(AnyCapacity, MaxBuckets) \in Nat
    BY <1>3, TotalBounds
  <2>2. QED BY <1>1, <2>1 DEF Lesser
<1>5. owed \in Bucket
  <2> HIDE DEF debt
  <2>1. Never \in 1..Never /\ -debt \in Int
    BY <1>4 DEF Never
  <2>2. QED BY <1>1, <2>1 DEF Bucket
<1> HIDE DEF taken, owed
<1>6. PICK take \in Walks(AnyCapacity, ClawbackOrder(c.order), taken) :
        buckets' = IF debt = 0 THEN [b \in Issued |-> Cut(buckets[b], take[b])]
                   ELSE Append([b \in Issued |-> Cut(buckets[b], take[b])], owed)
  BY Zenon DEF Clawback, taken, debt, owed
<1> HIDE DEF debt
<1>7. take \in [BucketIds -> Nat] /\ \A b \in BucketIds : take[b] <= AnyCapacity[b]
  BY <1>4, WalkFacts
<1> DEFINE cut == [b \in Issued |-> Cut(buckets[b], take[b])]
<1>8. \A b \in Issued : /\ buckets[b] \in Bucket /\ take[b] \in Nat
                        /\ take[b] <= AtLeastZero(Spare(buckets[b]))
  BY <1>2, <1>7, IssuedFacts DEF LInv
<1>9. \A b \in Issued : /\ cut[b] = Cut(buckets[b], take[b])
                        /\ cut[b] \in Bucket
                        /\ cut[b].reserved = buckets[b].reserved
                        /\ \/ /\ cut[b].origin = "clawback"
                              /\ cut[b].reserved + cut[b].consumed = 0
                           \/ Spare(cut[b]) >= 0
  <2> SUFFICES ASSUME NEW b \in Issued
               PROVE  /\ Cut(buckets[b], take[b]) \in Bucket
                      /\ Cut(buckets[b], take[b]).reserved = buckets[b].reserved
                      /\ \/ /\ Cut(buckets[b], take[b]).origin = "clawback"
                            /\ Cut(buckets[b], take[b]).reserved
                                 + Cut(buckets[b], take[b]).consumed = 0
                         \/ Spare(Cut(buckets[b], take[b])) >= 0
    OBVIOUS
  <2>1. /\ buckets[b] \in Bucket /\ take[b] \in Nat
        /\ take[b] <= AtLeastZero(Spare(buckets[b]))
    BY <1>8
  <2>2. \/ buckets[b].origin = "clawback" /\ buckets[b].reserved + buckets[b].consumed = 0
        \/ Spare(buckets[b]) >= 0
    BY DEF LInv, BucketsWithinCapacity
  <2>3. QED BY <2>1, <2>2, RowOperations, CutWithinCapacity
<1>10. cut \in [Issued -> Bucket] /\ cut \in Seq(Bucket) /\ Len(cut) = Len(buckets)
  <2>1. cut \in [Issued -> Bucket]
    BY <1>9
  <2> HIDE DEF cut
  <2>2. QED BY <2>1, RowsStayRows DEF LInv
<1>11. /\ held' = held /\ legs' = legs /\ clawLegs' = clawLegs \cup {c}
       /\ UNCHANGED <<grantLegs, l0Expiry, now>>
       /\ debt > 0 => Len(buckets) < MaxBuckets
  BY DEF Clawback, debt, taken
<1>12. /\ buckets' \in Seq(Bucket) /\ Len(buckets') <= MaxBuckets
       /\ Len(buckets') \in {Len(buckets), Len(buckets) + 1}
       /\ \A b \in Issued : buckets'[b] = cut[b]
       /\ \A b \in Issued' : b \notin Issued => buckets'[b] = owed
  <2> HIDE DEF cut
  <2>1. CASE debt = 0
    <3>1. buckets' = cut
      BY <1>6, <2>1 DEF cut
    <3>2. QED BY <3>1, <1>10, IssuedFacts DEF LInv, TypeOK, Issued
  <2>2. CASE debt # 0
    <3>1. buckets' = Append(cut, owed) /\ Len(buckets) < MaxBuckets
      BY <1>4, <1>6, <1>11, <2>2 DEF cut
    <3>2. /\ Len(buckets') = Len(buckets) + 1 /\ buckets' \in Seq(Bucket)
          /\ \A b \in Issued : buckets'[b] = cut[b]
          /\ buckets'[Len(buckets) + 1] = owed
      BY <3>1, <1>5, <1>10, IssuedFacts DEF LInv, Issued
    <3>3. QED BY <3>1, <3>2, IssuedFacts DEF LInv, Issued
  <2>3. QED BY <2>1, <2>2
<1> HIDE DEF cut
<1>13. TypeOK'
  BY <1>11, <1>12 DEF LInv, TypeOK
<1>14. owed.reserved = 0 /\ owed.consumed = 0 /\ owed.origin = "clawback"
  BY DEF owed
<1>15. BucketsWithinCapacity'
  BY <1>9, <1>12, <1>14 DEF BucketsWithinCapacity
<1>16. ReservedIsHeld' /\ HoldsAreBacked'
  <2>1. Issued \subseteq Issued'
    BY <1>12, IssuedFacts DEF LInv, Issued
  <2>2. QED BY <1>9, <1>11, <1>12, <1>14, <2>1, HoldsUntouched DEF LInv
<1>17. QED BY <1>13, <1>15, <1>16 DEF LInv

LEMMA ExpireL0Step ==
  ASSUME LInv, ExpireL0
  PROVE  LInv'
<1>1. PICK l0 \in Issued :
        /\ l0Expiry' = AtLeastZero(Spare(buckets[l0]))
        /\ buckets' = [b \in Issued |->
             IF b = l0 THEN Cut(buckets[b], AtLeastZero(Spare(buckets[b])))
                       ELSE buckets[b]]
  BY DEF ExpireL0
<1>2. \A b \in Issued : /\ buckets[b] \in Bucket
                        /\ AtLeastZero(Spare(buckets[b])) \in Nat
                        /\ AtLeastZero(Spare(buckets[b])) <= AtLeastZero(Spare(buckets[b]))
  BY IssuedFacts DEF LInv, AtLeastZero, Spare, Bucket
<1>3. \A b \in Issued : /\ buckets'[b] \in Bucket
                        /\ buckets'[b].reserved = buckets[b].reserved
                        /\ \/ /\ buckets'[b].origin = "clawback"
                              /\ buckets'[b].reserved + buckets'[b].consumed = 0
                           \/ Spare(buckets'[b]) >= 0
  <2> TAKE b \in Issued
  <2>1. \/ buckets[b].origin = "clawback" /\ buckets[b].reserved + buckets[b].consumed = 0
        \/ Spare(buckets[b]) >= 0
    BY DEF LInv, BucketsWithinCapacity
  <2>2. CASE b = l0
    <3>1. buckets'[b] = Cut(buckets[b], AtLeastZero(Spare(buckets[b])))
      BY <1>1, <2>2
    <3>2. PICK t \in Nat : t = AtLeastZero(Spare(buckets[b]))
      BY <1>2
    <3>3. /\ Cut(buckets[b], t) \in Bucket
          /\ Cut(buckets[b], t).reserved = buckets[b].reserved
          /\ \/ /\ Cut(buckets[b], t).origin = "clawback"
                /\ Cut(buckets[b], t).reserved + Cut(buckets[b], t).consumed = 0
             \/ Spare(Cut(buckets[b], t)) >= 0
      BY <1>2, <2>1, <3>2, RowOperations, CutWithinCapacity
    <3>4. QED BY <3>1, <3>2, <3>3, Zenon
  <2>3. CASE b # l0
    <3>1. buckets'[b] = buckets[b]
      BY <1>1, <2>3
    <3>2. QED BY <1>2, <2>1, <3>1
  <2>4. QED BY <2>2, <2>3
<1>4. buckets' \in [Issued -> Bucket]
  BY <1>1, <1>3
<1>5. buckets' \in Seq(Bucket) /\ Len(buckets') = Len(buckets) /\ Issued' = Issued
  BY <1>4, RowsStayRows DEF LInv, Issued
<1>6. UNCHANGED <<held, legs, grantLegs, clawLegs, now>>
  BY DEF ExpireL0
<1>7. TypeOK'
  BY <1>1, <1>2, <1>5, <1>6 DEF LInv, TypeOK
<1>8. BucketsWithinCapacity'
  BY <1>3, <1>5 DEF BucketsWithinCapacity
<1>9. ReservedIsHeld' /\ HoldsAreBacked'
  BY <1>3, <1>5, <1>6, HoldsUntouched DEF LInv
<1>10. QED BY <1>7, <1>8, <1>9 DEF LInv

LEMMA ExtendCycleStep ==
  ASSUME LInv, NEW cycle \in Cycles, ExtendCycle(cycle)
  PROVE  LInv'
<1>1. \A b \in Issued :
        /\ buckets[b] \in Bucket
        /\ buckets'[b] \in {buckets[b], [buckets[b] EXCEPT !.expiresAt = @ + 1]}
        /\ buckets'[b] # buckets[b] => buckets[b].expiresAt \notin {MaxTime, Never}
  BY IssuedFacts DEF LInv, ExtendCycle
<1>2. ASSUME NEW k \in Bucket, k.expiresAt \notin {MaxTime, Never}
      PROVE  /\ [k EXCEPT !.expiresAt = @ + 1] \in Bucket
             /\ [k EXCEPT !.expiresAt = @ + 1].reserved = k.reserved
             /\ [k EXCEPT !.expiresAt = @ + 1].consumed = k.consumed
             /\ [k EXCEPT !.expiresAt = @ + 1].granted = k.granted
             /\ [k EXCEPT !.expiresAt = @ + 1].origin = k.origin
  <2>1. k.expiresAt \in 1..Never /\ k.expiresAt + 1 \in 1..Never
    BY <1>2 DEF Bucket, Never
  <2>2. QED BY <2>1 DEF Bucket
<1>3. \A b \in Issued : /\ buckets'[b] \in Bucket
                        /\ buckets'[b].reserved = buckets[b].reserved
                        /\ buckets'[b].consumed = buckets[b].consumed
                        /\ buckets'[b].granted = buckets[b].granted
                        /\ buckets'[b].origin = buckets[b].origin
  <2> TAKE b \in Issued
  <2>1. CASE buckets'[b] = buckets[b]
    BY <1>1, <2>1
  <2>2. CASE buckets'[b] # buckets[b]
    <3>1. /\ buckets'[b] = [buckets[b] EXCEPT !.expiresAt = @ + 1]
          /\ buckets[b] \in Bucket /\ buckets[b].expiresAt \notin {MaxTime, Never}
      BY <1>1, <2>2
    <3>2. QED BY <1>2, <3>1
  <2>3. QED BY <2>1, <2>2
<1>4. buckets' \in [Issued -> Bucket]
  BY <1>3 DEF ExtendCycle
<1>5. buckets' \in Seq(Bucket) /\ Len(buckets') = Len(buckets) /\ Issued' = Issued
  BY <1>4, RowsStayRows DEF LInv, Issued
<1>6. UNCHANGED <<held, legs, grantLegs, clawLegs, l0Expiry, now>>
  BY DEF ExtendCycle
<1>7. TypeOK'
  BY <1>5, <1>6 DEF LInv, TypeOK
<1>8. BucketsWithinCapacity'
  BY <1>3, <1>5 DEF LInv, BucketsWithinCapacity, Spare
<1>9. ReservedIsHeld' /\ HoldsAreBacked'
  BY <1>3, <1>5, <1>6, HoldsUntouched DEF LInv
<1>10. QED BY <1>7, <1>8, <1>9 DEF LInv

\* The clock and stuttering steps leave every row alone.
LEMMA IdleStep ==
  ASSUME LInv, UNCHANGED <<buckets, held, legs, grantLegs, clawLegs, l0Expiry>>,
         now' \in 0..MaxTime
  PROVE  LInv'
<1>1. Issued' = Issued
  BY DEF Issued
<1>2. TypeOK'
  BY DEF LInv, TypeOK
<1>3. BucketsWithinCapacity'
  BY <1>1 DEF LInv, BucketsWithinCapacity
<1>4. ReservedIsHeld'
  BY <1>1 DEF LInv, ReservedIsHeld
<1>5. HoldsAreBacked'
  BY DEF LInv, HoldsAreBacked, PendingOf
<1>6. QED BY <1>2, <1>3, <1>4, <1>5 DEF LInv

LEMMA NextLInv == LInv /\ [Next]_vars => LInv'
<1> SUFFICES ASSUME LInv, [Next]_vars PROVE LInv'
  OBVIOUS
<1>1. ASSUME NEW g \in GrantCalls, Grant(g) PROVE LInv'
  BY <1>1, GrantStep
<1>2. ASSUME NEW j \in Jobs, NEW a \in HoldAmounts, Reserve(j, a) PROVE LInv'
  BY <1>2, ReserveStep
<1>3. ASSUME NEW j \in Jobs, NEW a \in HoldAmounts, Commit(j, a) PROVE LInv'
  BY <1>3, CommitStep
<1>4. ASSUME NEW j \in Jobs, NEW a \in HoldAmounts,
             NEW k \in {"refund", "refund-partial"}, Refund(k, j, a)
      PROVE  LInv'
  BY <1>4, RefundStep
<1>5. ASSUME NEW c \in ClawbackCalls, ReversePayment(c) PROVE LInv'
  BY <1>5, ClawbackStep DEF ReversePayment
<1>6. CASE ExpireL0
  BY <1>6, ExpireL0Step
<1>7. ASSUME NEW c \in Cycles, ExtendCycle(c) PROVE LInv'
  BY <1>7, ExtendCycleStep
<1>8. CASE Tick
  BY <1>8, IdleStep DEF Tick, LInv, TypeOK
<1>9. CASE UNCHANGED vars
  BY <1>9, IdleStep DEF vars, LInv, TypeOK
<1>10. QED BY <1>1, <1>2, <1>3, <1>4, <1>5, <1>6, <1>7, <1>8, <1>9 DEF Next

THEOREM LedgerInvariant == Spec => []LInv
<1>1. Init => LInv
  BY InitLInv
<1>2. LInv /\ [Next]_vars => LInv'
  BY NextLInv
<1>3. QED BY <1>1, <1>2, PTL DEF Spec

(***************************************************************************)
(* However many jobs, buckets and calls: no sequence of ledger operations  *)
(* leaves a row outside its column's type.                                 *)
(***************************************************************************)
THEOREM TypeCorrect == Spec => []TypeOK
<1>1. LInv => TypeOK
  BY DEF LInv
<1>2. QED BY <1>1, LedgerInvariant, PTL

(***************************************************************************)
(* The CHECK constraints of credit_buckets can never abort a transaction   *)
(* of the ledger: what is reserved or consumed of a grant never exceeds it.*)
(***************************************************************************)
THEOREM CapacityIsKept == Spec => []BucketsWithinCapacity
<1>1. LInv => BucketsWithinCapacity
  BY DEF LInv
<1>2. QED BY <1>1, LedgerInvariant, PTL

(***************************************************************************)
(* The reserved column of every bucket is the sum of the open allocations  *)
(* of the jobs, after every sequence of operations.                        *)
(***************************************************************************)
THEOREM ReservedIsAllocated == Spec => []ReservedIsHeld
<1>1. LInv => ReservedIsHeld
  BY DEF LInv
<1>2. QED BY <1>1, LedgerInvariant, PTL

(***************************************************************************)
(* A hold is backed by buckets to its last credit until it is settled, so  *)
(* no clawback, expiry or other job can make a commit or refund fail, and  *)
(* settlements of a job never exceed what it reserved.                     *)
(***************************************************************************)
THEOREM HoldsStayBacked == Spec => []HoldsAreBacked
<1>1. LInv => HoldsAreBacked
  BY DEF LInv
<1>2. QED BY <1>1, LedgerInvariant, PTL

\* The pending legs of a hold never go below nothing, before or after a step.
NothingOversettled == \A j \in Jobs : PendingOf(j) >= 0

LEMMA PendingIsSome == LInv => NothingOversettled
<1> SUFFICES ASSUME LInv, NEW j \in Jobs PROVE PendingOf(j) >= 0
  BY DEF NothingOversettled
<1>1. held[j] \in [1..MaxBuckets -> Nat]
  BY DEF LInv, TypeOK, BucketIds
<1>2. Total(held[j], MaxBuckets) \in Nat
  BY <1>1, TotalBounds
<1>3. QED BY <1>2 DEF LInv, HoldsAreBacked

(***************************************************************************)
(* Commits and refunds of a job together never exceed what it reserved: no *)
(* order of settlements, late, repeated or conflicting, pays out twice.    *)
(***************************************************************************)
THEOREM SettledWithinHold == Spec => [](\A j \in Jobs : PendingOf(j) >= 0)
<1>1. LInv => \A j \in Jobs : PendingOf(j) >= 0
  BY PendingIsSome DEF NothingOversettled
<1>2. QED BY <1>1, LedgerInvariant, PTL

-----------------------------------------------------------------------------
(***************************************************************************)
(* The two books.  The buckets are summed by column, and the columns of    *)
(* granted, reserved and consumed credit each follow legs of their own.    *)
(* BooksAgree is about what is left over (Spare), which no single step     *)
(* accounts for; the column of granted credit is the strengthening.        *)
(***************************************************************************)
GrantedColumn == [b \in BucketIds |-> IF b \in Issued THEN buckets[b].granted ELSE 0]
ReservedColumn == [b \in BucketIds |-> IF b \in Issued THEN buckets[b].reserved ELSE 0]
ConsumedColumn == [b \in BucketIds |-> IF b \in Issued THEN buckets[b].consumed ELSE 0]
SpareColumn == [b \in BucketIds |-> IF b \in Issued THEN Spare(buckets[b]) ELSE 0]

GrantedBook ==
  Total(GrantedColumn, MaxBuckets) =
    SumOfCalls(grantLegs) - SumOfCalls(clawLegs) - AtLeastZero(l0Expiry)
ReservedBook ==
  Total(ReservedColumn, MaxBuckets) =
    Pairs("reserve") - Pairs("commit") - Pairs("refund") - Pairs("refund-partial")
ConsumedBook ==
  Total(ConsumedColumn, MaxBuckets) = Pairs("commit")

\* Only finitely many calls have been made.
CallsFinite == IsFiniteSet(grantLegs) /\ IsFiniteSet(clawLegs)

Books == CallsFinite /\ GrantedBook /\ ReservedBook /\ ConsumedBook

\* Every column has one integer per bucket, in every state and after a step.
Columns == /\ GrantedColumn \in [1..MaxBuckets -> Int]
           /\ ReservedColumn \in [1..MaxBuckets -> Int]
           /\ ConsumedColumn \in [1..MaxBuckets -> Int]
           /\ SpareColumn \in [1..MaxBuckets -> Int]

LEMMA ColumnsTyped == TypeOK => Columns
<1> SUFFICES ASSUME TypeOK PROVE Columns
  OBVIOUS
<1>1. \A b \in Issued : /\ buckets[b].granted \in Int /\ buckets[b].reserved \in Int
                        /\ buckets[b].consumed \in Int /\ Spare(buckets[b]) \in Int
  BY IssuedFacts DEF Bucket, Spare
<1>2. QED
  BY <1>1 DEF Columns, GrantedColumn, ReservedColumn, ConsumedColumn, SpareColumn,
              BucketIds

LEMMA ColumnsTypedNext == TypeOK' => Columns'
BY ColumnsTyped, PTL

LEMMA PairsTyped ==
  ASSUME TypeOK
  PROVE  \A k \in PairKinds : Pairs(k) \in Int /\ legs[k] \in [1..NumJobs -> Int]
<1>1. \A k \in PairKinds : legs[k] \in [1..NumJobs -> Int]
  BY DEF TypeOK, Jobs
<1>2. QED BY <1>1, TotalInt DEF Pairs

LEMMA CallsTyped ==
  ASSUME TypeOK, CallsFinite
  PROVE  /\ SumOfCalls(grantLegs) \in Int /\ SumOfCalls(clawLegs) \in Int
         /\ AtLeastZero(l0Expiry) \in Int
<1>1. /\ \A c \in grantLegs : [x \in grantLegs |-> x.amount][c] \in Int
      /\ \A c \in clawLegs : [x \in clawLegs |-> x.amount][c] \in Int
  BY CallsAssumption DEF TypeOK, GrantCall, ClawbackCall
<1>2. SumOfCalls(grantLegs) \in Int /\ SumOfCalls(clawLegs) \in Int
  BY <1>1, SumInt DEF SumOfCalls, CallsFinite
<1>3. AtLeastZero(l0Expiry) \in Int
  BY DEF TypeOK, AtLeastZero, NotExpired
<1>4. QED BY <1>2, <1>3

\* A new call adds its amount to the sum of the calls.
LEMMA CallAdds ==
  ASSUME NEW calls, IsFiniteSet(calls), NEW c, c \notin calls,
         \A x \in calls \cup {c} : x.amount \in Int
  PROVE  SumOfCalls(calls \cup {c}) = SumOfCalls(calls) + c.amount
<1> DEFINE f == [x \in calls |-> x.amount]
           g == [x \in calls \cup {c} |-> x.amount]
<1>1. /\ \A x \in calls : f[x] = g[x]
      /\ \A x \in calls \cup {c} : g[x] \in Int
      /\ g[c] = c.amount
  OBVIOUS
<1> HIDE DEF f, g
<1>2. SumFunctionOnSet(g, calls \cup {c}) = SumFunctionOnSet(g, calls) + g[c]
  BY <1>1, SumAdds
<1>3. SumFunctionOnSet(f, calls) = SumFunctionOnSet(g, calls)
  BY <1>1, SumSame
<1>4. QED BY <1>1, <1>2, <1>3 DEF SumOfCalls, f, g

\* A pair that is written for the first time adds its amount to its kind.
LEMMA PairAdds ==
  ASSUME TypeOK, NEW j \in Jobs, NEW kind \in PairKinds, NEW amount \in Nat,
         legs[kind][j] = 0, legs' = [legs EXCEPT ![kind][j] = amount]
  PROVE  \A k \in PairKinds :
           Pairs(k)' = IF k = kind THEN Pairs(k) + amount ELSE Pairs(k)
<1> SUFFICES ASSUME NEW k \in PairKinds
             PROVE  Pairs(k)' = IF k = kind THEN Pairs(k) + amount ELSE Pairs(k)
  OBVIOUS
<1>1. /\ legs[k] \in [1..NumJobs -> Int] /\ legs'[k] \in [1..NumJobs -> Int]
      /\ j \in 1..NumJobs /\ Pairs(k) \in Int
  BY PairsTyped DEF TypeOK, Jobs
<1>2. CASE k # kind
  <2>1. legs'[k] = legs[k]
    BY <1>2 DEF TypeOK
  <2>2. QED BY <1>2, <2>1 DEF Pairs
<1>3. CASE k = kind
  <2>1. /\ \A i \in 1..NumJobs : i # j => legs'[k][i] = legs[k][i]
        /\ legs'[k][j] = amount /\ legs[k][j] = 0
    BY <1>3 DEF TypeOK, Jobs
  <2>2. Total(legs'[k], NumJobs) = Total(legs[k], NumJobs) + (legs'[k][j] - legs[k][j])
    BY <1>1, <2>1, TotalChange
  <2>3. QED BY <1>1, <1>3, <2>1, <2>2 DEF Pairs
<1>4. QED BY <1>2, <1>3

LEMMA BooksBalance ==
  ASSUME TypeOK, Books
  PROVE  BooksAgree
<1> DEFINE G == GrantedColumn  R == ReservedColumn  C == ConsumedColumn
           S == SpareColumn
           SR == [b \in BucketIds |-> S[b] + R[b]]
<1>1. /\ G \in [1..MaxBuckets -> Int] /\ R \in [1..MaxBuckets -> Int]
      /\ C \in [1..MaxBuckets -> Int] /\ S \in [1..MaxBuckets -> Int]
  BY ColumnsTyped DEF Columns
<1>2. SR \in [1..MaxBuckets -> Int] /\ \A b \in 1..MaxBuckets : SR[b] = S[b] + R[b]
  BY <1>1 DEF BucketIds
<1>3. \A b \in 1..MaxBuckets : G[b] = SR[b] + C[b]
  <2> TAKE b \in 1..MaxBuckets
  <2>1. CASE b \in Issued
    <3>1. /\ buckets[b].granted \in Int /\ buckets[b].reserved \in Int
          /\ buckets[b].consumed \in Int
      BY <2>1, IssuedFacts DEF Bucket
    <3>2. /\ G[b] = buckets[b].granted /\ R[b] = buckets[b].reserved
          /\ C[b] = buckets[b].consumed /\ S[b] = Spare(buckets[b])
      BY <2>1 DEF GrantedColumn, ReservedColumn, ConsumedColumn, SpareColumn, BucketIds
    <3> HIDE DEF G, R, C, S, SR
    <3>3. /\ R[b] \in Int /\ C[b] \in Int /\ G[b] \in Int
          /\ S[b] = G[b] - R[b] - C[b]
      BY <3>1, <3>2 DEF Spare
    <3>4. SR[b] = S[b] + R[b]
      BY <1>2
    <3>5. QED BY <3>3, <3>4
  <2>2. CASE b \notin Issued
    <3>1. G[b] = 0 /\ R[b] = 0 /\ C[b] = 0 /\ S[b] = 0
      BY <2>2 DEF GrantedColumn, ReservedColumn, ConsumedColumn, SpareColumn, BucketIds
    <3> HIDE DEF G, R, C, S, SR
    <3>2. QED BY <1>2, <3>1
  <2>3. QED BY <2>1, <2>2
<1> HIDE DEF G, R, C, S, SR
<1>4. /\ Total(SR, MaxBuckets) = Total(S, MaxBuckets) + Total(R, MaxBuckets)
      /\ Total(G, MaxBuckets) = Total(SR, MaxBuckets) + Total(C, MaxBuckets)
      /\ Total(S, MaxBuckets) \in Int /\ Total(R, MaxBuckets) \in Int
      /\ Total(C, MaxBuckets) \in Int
  BY <1>1, <1>2, <1>3, TotalAdds, TotalInt
<1>5. /\ Total(S, MaxBuckets) = BucketTotal(Spare)
      /\ Total(R, MaxBuckets) = BucketTotal(LAMBDA k : k.reserved)
      /\ Total(C, MaxBuckets) = BucketTotal(LAMBDA k : k.consumed)
  BY DEF S, R, C, SpareColumn, ReservedColumn, ConsumedColumn, BucketTotal
<1>6. /\ Total(G, MaxBuckets) =
           SumOfCalls(grantLegs) - SumOfCalls(clawLegs) - AtLeastZero(l0Expiry)
      /\ Total(R, MaxBuckets) = Pairs("reserve") - Pairs("commit") - Pairs("refund")
                                  - Pairs("refund-partial")
      /\ Total(C, MaxBuckets) = Pairs("commit")
  BY DEF Books, GrantedBook, ReservedBook, ConsumedBook, G, R, C
<1>7. /\ SumOfCalls(grantLegs) \in Int /\ SumOfCalls(clawLegs) \in Int
      /\ AtLeastZero(l0Expiry) \in Int /\ Pairs("reserve") \in Int
      /\ Pairs("commit") \in Int /\ Pairs("refund") \in Int
      /\ Pairs("refund-partial") \in Int
  BY CallsTyped, PairsTyped DEF Books, PairKinds
<1>8. SumOfCalls(grantLegs) - SumOfCalls(clawLegs) - AtLeastZero(l0Expiry)
        - Pairs("reserve") + Pairs("refund") + Pairs("refund-partial")
          = Total(S, MaxBuckets)
  BY <1>4, <1>6, <1>7
<1>9. QED BY <1>5, <1>6, <1>8 DEF BooksAgree

\* A pair of legs and the columns that move with it keep the books together.
LEMMA PairKeepsBooks ==
  ASSUME TypeOK, TypeOK', Books, Issued' = Issued,
         NEW j \in Jobs, NEW kind \in PairKinds, NEW amount \in Nat,
         NEW take \in [BucketIds -> Nat], Total(take, MaxBuckets) = amount,
         \A b \in BucketIds : b \notin Issued => take[b] = 0,
         \A b \in Issued :
           /\ buckets'[b].granted = buckets[b].granted
           /\ buckets'[b].reserved = IF kind = "reserve" THEN buckets[b].reserved + take[b]
                                     ELSE buckets[b].reserved - take[b]
           /\ buckets'[b].consumed = IF kind = "commit" THEN buckets[b].consumed + take[b]
                                     ELSE buckets[b].consumed,
         legs[kind][j] = 0, legs' = [legs EXCEPT ![kind][j] = amount],
         UNCHANGED <<grantLegs, clawLegs, l0Expiry>>
  PROVE  Books'
<1> DEFINE R == ReservedColumn  R2 == ReservedColumn'
           C == ConsumedColumn  C2 == ConsumedColumn'
<1>1. /\ R \in [1..MaxBuckets -> Int] /\ R2 \in [1..MaxBuckets -> Int]
      /\ C \in [1..MaxBuckets -> Int] /\ C2 \in [1..MaxBuckets -> Int]
  BY ColumnsTyped, ColumnsTypedNext DEF Columns
<1>2. take \in [1..MaxBuckets -> Int]
  BY DEF BucketIds
<1>3. GrantedColumn' = GrantedColumn
  BY DEF GrantedColumn
<1>4. \A b \in 1..MaxBuckets :
        /\ kind = "reserve" => R2[b] = R[b] + take[b]
        /\ kind # "reserve" => R[b] = R2[b] + take[b]
        /\ C2[b] = IF kind = "commit" THEN C[b] + take[b] ELSE C[b]
  <2> TAKE b \in 1..MaxBuckets
  <2>0. b \in BucketIds /\ take[b] \in Nat
    BY DEF BucketIds
  <2>1. CASE b \in Issued
    <3>1. PICK r \in Int : r = buckets[b].reserved
      BY <2>1, IssuedFacts DEF Bucket
    <3>2. PICK c \in Int : c = buckets[b].consumed
      BY <2>1, IssuedFacts DEF Bucket
    <3>3. /\ R[b] = r /\ C[b] = c
          /\ R2[b] = IF kind = "reserve" THEN r + take[b] ELSE r - take[b]
          /\ C2[b] = IF kind = "commit" THEN c + take[b] ELSE c
      BY <2>0, <2>1, <3>1, <3>2 DEF ReservedColumn, ConsumedColumn
    <3> HIDE DEF R, R2, C, C2
    <3>4. QED BY <2>0, <3>1, <3>2, <3>3
  <2>2. CASE b \notin Issued
    <3>1. R[b] = 0 /\ C[b] = 0 /\ R2[b] = 0 /\ C2[b] = 0 /\ take[b] = 0
      BY <2>0, <2>2 DEF ReservedColumn, ConsumedColumn
    <3> HIDE DEF R, R2, C, C2
    <3>2. QED BY <3>1
  <2>3. QED BY <2>1, <2>2
<1> HIDE DEF R, R2, C, C2
<1>5. Total(R2, MaxBuckets) =
        IF kind = "reserve" THEN Total(R, MaxBuckets) + amount
                            ELSE Total(R, MaxBuckets) - amount
  <2>1. CASE kind = "reserve"
    <3>1. \A b \in 1..MaxBuckets : R2[b] = R[b] + take[b]
      BY <1>4, <2>1
    <3>2. Total(R2, MaxBuckets) = Total(R, MaxBuckets) + Total(take, MaxBuckets)
      BY <1>1, <1>2, <3>1, TotalAdds
    <3>3. QED BY <2>1, <3>2
  <2>2. CASE kind # "reserve"
    <3>0. \A b \in 1..MaxBuckets : R[b] = R2[b] + take[b]
      BY <1>4, <2>2
    <3>1. Total(R, MaxBuckets) = Total(R2, MaxBuckets) + Total(take, MaxBuckets)
      BY <1>1, <1>2, <3>0, TotalAdds
    <3>2. Total(R2, MaxBuckets) \in Int
      BY <1>1, TotalInt
    <3>3. QED BY <2>2, <3>1, <3>2
  <2>3. QED BY <2>1, <2>2
<1>6. Total(C2, MaxBuckets) =
        IF kind = "commit" THEN Total(C, MaxBuckets) + amount ELSE Total(C, MaxBuckets)
  <2>1. CASE kind = "commit"
    <3>1. \A b \in 1..MaxBuckets : C2[b] = C[b] + take[b]
      BY <1>4, <2>1
    <3>2. Total(C2, MaxBuckets) = Total(C, MaxBuckets) + Total(take, MaxBuckets)
      BY <1>1, <1>2, <3>1, TotalAdds
    <3>3. QED BY <2>1, <3>2
  <2>2. CASE kind # "commit"
    <3>1. \A b \in 1..MaxBuckets : C2[b] = C[b]
      BY <1>4, <2>2
    <3>2. QED BY <1>1, <2>2, <3>1, TotalSame
  <2>3. QED BY <2>1, <2>2
<1>7. \A k \in PairKinds :
        /\ Pairs(k) \in Int
        /\ Pairs(k)' = IF k = kind THEN Pairs(k) + amount ELSE Pairs(k)
  BY PairAdds, PairsTyped
<1>8. /\ Total(R, MaxBuckets) = Pairs("reserve") - Pairs("commit") - Pairs("refund")
                                  - Pairs("refund-partial")
      /\ Total(C, MaxBuckets) = Pairs("commit")
  BY DEF Books, ReservedBook, ConsumedBook, R, C
<1>9. Total(R2, MaxBuckets) =
        Pairs("reserve")' - Pairs("commit")' - Pairs("refund")' - Pairs("refund-partial")'
  BY <1>5, <1>7, <1>8 DEF PairKinds
<1>10. Total(C2, MaxBuckets) = Pairs("commit")'
  BY <1>6, <1>7, <1>8 DEF PairKinds
<1>11. CallsFinite' /\ GrantedBook'
  BY <1>3 DEF Books, CallsFinite, GrantedBook
<1>12. ReservedBook' /\ ConsumedBook'
  BY <1>9, <1>10 DEF ReservedBook, ConsumedBook, R2, C2
<1>13. QED BY <1>11, <1>12 DEF Books

\* What a settlement takes, as PairKeepsBooks needs it.
LEMMA SettlementTakes ==
  ASSUME LInv, NEW j \in Jobs, NEW amount \in Nat,
         NEW take \in Walks(held[j], SpendOrder, amount)
  PROVE  /\ take \in [BucketIds -> Nat] /\ Total(take, MaxBuckets) = amount
         /\ \A b \in BucketIds : b \notin Issued => take[b] = 0
         /\ \A b \in Issued : /\ buckets[b] \in Bucket /\ take[b] \in Nat
                              /\ take[b] <= buckets[b].reserved
<1>1. /\ take \in [BucketIds -> Nat]
      /\ \A b \in BucketIds : b \notin Issued => take[b] = 0
      /\ \A b \in Issued : take[b] <= buckets[b].reserved
  BY SettlementTake, Zenon
<1>2. Total(take, MaxBuckets) = amount
  BY WalkFacts
<1>3. Issued \subseteq BucketIds /\ \A b \in Issued : buckets[b] \in Bucket
  BY IssuedFacts, Zenon DEF LInv
<1>4. QED BY <1>1, <1>2, <1>3

LEMMA CommitBooks ==
  ASSUME LInv, LInv', Books, NEW j \in Jobs, NEW amount \in HoldAmounts,
         Commit(j, amount)
  PROVE  Books'
<1>1. amount \in Nat /\ "commit" \in PairKinds
  BY CallsAssumption DEF PairKinds
<1>2. PICK take \in Walks(held[j], SpendOrder, amount) :
        buckets' = [b \in Issued |-> Spend(buckets[b], take[b])]
  BY DEF Commit
<1>3. /\ take \in [BucketIds -> Nat] /\ Total(take, MaxBuckets) = amount
      /\ \A b \in BucketIds : b \notin Issued => take[b] = 0
      /\ \A b \in Issued : /\ buckets[b] \in Bucket /\ take[b] \in Nat
                           /\ take[b] <= buckets[b].reserved
  BY <1>1, SettlementTakes
<1>4. \A b \in Issued : /\ buckets'[b] \in Bucket
                        /\ buckets'[b].granted = buckets[b].granted
                        /\ buckets'[b].reserved = buckets[b].reserved - take[b]
                        /\ buckets'[b].consumed = buckets[b].consumed + take[b]
  <2> TAKE b \in Issued
  <2>1. buckets'[b] = Spend(buckets[b], take[b])
    BY <1>2
  <2>2. buckets[b] \in Bucket /\ take[b] \in Nat /\ take[b] <= buckets[b].reserved
    BY <1>3
  <2>3. /\ Spend(buckets[b], take[b]) \in Bucket
        /\ Spend(buckets[b], take[b]).reserved = buckets[b].reserved - take[b]
        /\ Spend(buckets[b], take[b]).consumed = buckets[b].consumed + take[b]
        /\ Spend(buckets[b], take[b]).granted = buckets[b].granted
    BY <2>2, RowOperations
  <2>4. QED BY <2>1, <2>3
<1>5. Issued' = Issued
  <2>1. buckets' \in [Issued -> Bucket]
    BY <1>2, <1>4
  <2>2. QED BY <2>1, RowsStayRows DEF LInv, Issued
<1>6. /\ legs["commit"][j] = 0 /\ legs' = [legs EXCEPT !["commit"][j] = amount]
      /\ UNCHANGED <<grantLegs, clawLegs, l0Expiry>>
  BY DEF Commit
<1>7. \A b \in Issued :
        /\ buckets'[b].granted = buckets[b].granted
        /\ buckets'[b].reserved = IF "commit" = "reserve" THEN buckets[b].reserved + take[b]
                                  ELSE buckets[b].reserved - take[b]
        /\ buckets'[b].consumed = IF "commit" = "commit" THEN buckets[b].consumed + take[b]
                                  ELSE buckets[b].consumed
  BY <1>4
<1>8. TypeOK /\ TypeOK'
  BY DEF LInv
<1>9. QED BY <1>1, <1>3, <1>5, <1>6, <1>7, <1>8, PairKeepsBooks, Zenon

LEMMA RefundBooks ==
  ASSUME LInv, LInv', Books, NEW j \in Jobs, NEW amount \in HoldAmounts,
         NEW kind \in {"refund", "refund-partial"}, Refund(kind, j, amount)
  PROVE  Books'
<1>1. amount \in Nat /\ kind \in PairKinds /\ kind # "reserve" /\ kind # "commit"
  BY CallsAssumption DEF PairKinds
<1>2. PICK take \in Walks(held[j], SpendOrder, amount) :
        buckets' = [b \in Issued |-> Release(buckets[b], take[b])]
  BY DEF Refund
<1>3. /\ take \in [BucketIds -> Nat] /\ Total(take, MaxBuckets) = amount
      /\ \A b \in BucketIds : b \notin Issued => take[b] = 0
      /\ \A b \in Issued : /\ buckets[b] \in Bucket /\ take[b] \in Nat
                           /\ take[b] <= buckets[b].reserved
  BY <1>1, SettlementTakes
<1>4. \A b \in Issued : /\ buckets'[b] \in Bucket
                        /\ buckets'[b].granted = buckets[b].granted
                        /\ buckets'[b].reserved = buckets[b].reserved - take[b]
                        /\ buckets'[b].consumed = buckets[b].consumed
  <2> TAKE b \in Issued
  <2>1. buckets'[b] = Release(buckets[b], take[b])
    BY <1>2
  <2>2. buckets[b] \in Bucket /\ take[b] \in Nat /\ take[b] <= buckets[b].reserved
    BY <1>3
  <2>3. /\ Release(buckets[b], take[b]) \in Bucket
        /\ Release(buckets[b], take[b]).reserved = buckets[b].reserved - take[b]
        /\ Release(buckets[b], take[b]).consumed = buckets[b].consumed
        /\ Release(buckets[b], take[b]).granted = buckets[b].granted
    BY <2>2, RowOperations
  <2>4. QED BY <2>1, <2>3
<1>5. Issued' = Issued
  <2>1. buckets' \in [Issued -> Bucket]
    BY <1>2, <1>4
  <2>2. QED BY <2>1, RowsStayRows DEF LInv, Issued
<1>6. /\ legs[kind][j] = 0 /\ legs' = [legs EXCEPT ![kind][j] = amount]
      /\ UNCHANGED <<grantLegs, clawLegs, l0Expiry>>
  BY DEF Refund
<1>7. \A b \in Issued :
        /\ buckets'[b].granted = buckets[b].granted
        /\ buckets'[b].reserved = IF kind = "reserve" THEN buckets[b].reserved + take[b]
                                  ELSE buckets[b].reserved - take[b]
        /\ buckets'[b].consumed = IF kind = "commit" THEN buckets[b].consumed + take[b]
                                  ELSE buckets[b].consumed
  BY <1>1, <1>4
<1>8. TypeOK /\ TypeOK'
  BY DEF LInv
<1>9. QED BY <1>1, <1>3, <1>5, <1>6, <1>7, <1>8, PairKeepsBooks, Zenon

\* What a reservation takes: only of live buckets, never beyond their rest.
LEMMA ReserveTakes ==
  ASSUME LInv, NEW j \in Jobs, NEW amount \in HoldAmounts, Reserve(j, amount)
  PROVE  /\ amount \in Nat
         /\ \E take \in [BucketIds -> Nat] :
              /\ Total(take, MaxBuckets) = amount
              /\ \A b \in BucketIds : ~(b \in Issued /\ Live(buckets[b])) => take[b] = 0
              /\ \A b \in Issued :
                   /\ buckets'[b].granted = buckets[b].granted
                   /\ buckets'[b].reserved = buckets[b].reserved + take[b]
                   /\ buckets'[b].consumed = buckets[b].consumed
                   /\ buckets'[b].expiresAt = buckets[b].expiresAt
         /\ Issued' = Issued
<1>1. amount \in Nat
  BY CallsAssumption
<1>2. PICK take \in Walks(LiveCapacity, SpendOrder, amount) :
        buckets' = [b \in Issued |-> Hold(buckets[b], take[b])]
  BY DEF Reserve
<1>3. /\ take \in [BucketIds -> Nat]
      /\ Total(take, MaxBuckets) = amount
      /\ \A b \in BucketIds : take[b] <= LiveCapacity[b]
  BY <1>1, WalkFacts
<1>4. \A b \in BucketIds : ~(b \in Issued /\ Live(buckets[b])) => take[b] = 0
  BY <1>3 DEF LiveCapacity
<1>5. \A b \in Issued : buckets[b] \in Bucket /\ take[b] \in Nat
  BY <1>3, IssuedFacts DEF LInv
<1>6. \A b \in Issued :
        /\ buckets'[b] \in Bucket
        /\ buckets'[b].granted = buckets[b].granted
        /\ buckets'[b].reserved = buckets[b].reserved + take[b]
        /\ buckets'[b].consumed = buckets[b].consumed
  BY <1>2, <1>5, RowOperations
<1>7. \A b \in Issued : buckets'[b].expiresAt = buckets[b].expiresAt
  BY <1>2, <1>5 DEF Hold, Bucket
<1>8. Issued' = Issued
  <2>1. buckets' \in [Issued -> Bucket]
    BY <1>2, <1>6
  <2>2. QED BY <2>1, RowsStayRows DEF LInv, Issued
<1>9. QED BY <1>1, <1>3, <1>4, <1>6, <1>7, <1>8

LEMMA ReserveBooks ==
  ASSUME LInv, LInv', Books, NEW j \in Jobs, NEW amount \in HoldAmounts,
         Reserve(j, amount)
  PROVE  Books'
<1>1. PICK take \in [BucketIds -> Nat] :
        /\ Total(take, MaxBuckets) = amount
        /\ \A b \in BucketIds : b \notin Issued => take[b] = 0
        /\ \A b \in Issued : /\ buckets'[b].granted = buckets[b].granted
                             /\ buckets'[b].reserved = buckets[b].reserved + take[b]
                             /\ buckets'[b].consumed = buckets[b].consumed
  BY ReserveTakes
<1>2. /\ legs["reserve"][j] = 0 /\ legs' = [legs EXCEPT !["reserve"][j] = amount]
      /\ UNCHANGED <<grantLegs, clawLegs, l0Expiry>>
  BY DEF Reserve
<1>3. amount \in Nat /\ Issued' = Issued /\ "reserve" \in PairKinds
  BY ReserveTakes DEF PairKinds
<1>4. \A b \in Issued :
        /\ buckets'[b].granted = buckets[b].granted
        /\ buckets'[b].reserved = IF "reserve" = "reserve" THEN buckets[b].reserved + take[b]
                                  ELSE buckets[b].reserved - take[b]
        /\ buckets'[b].consumed = IF "reserve" = "commit" THEN buckets[b].consumed + take[b]
                                  ELSE buckets[b].consumed
  BY <1>1
<1>5. TypeOK /\ TypeOK'
  BY DEF LInv
<1>6. QED BY <1>1, <1>2, <1>3, <1>4, <1>5, PairKeepsBooks, Zenon

\* A step that settles nothing leaves two of the columns and their legs alone.
LEMMA OtherColumnsStay ==
  ASSUME TypeOK, TypeOK', Books, legs' = legs, Issued \subseteq Issued',
         \A b \in Issued : /\ buckets'[b].reserved = buckets[b].reserved
                           /\ buckets'[b].consumed = buckets[b].consumed,
         \A b \in Issued' : b \notin Issued => /\ buckets'[b].reserved = 0
                                               /\ buckets'[b].consumed = 0,
         CallsFinite', GrantedBook'
  PROVE  Books'
<1>1. ReservedColumn' = ReservedColumn /\ ConsumedColumn' = ConsumedColumn
  <2>1. \A b \in BucketIds :
          /\ (IF b \in Issued' THEN buckets'[b].reserved ELSE 0) =
               (IF b \in Issued THEN buckets[b].reserved ELSE 0)
          /\ (IF b \in Issued' THEN buckets'[b].consumed ELSE 0) =
               (IF b \in Issued THEN buckets[b].consumed ELSE 0)
    OBVIOUS
  <2>2. QED BY <2>1, Zenon DEF ReservedColumn, ConsumedColumn
<1>2. \A k \in PairKinds : Pairs(k)' = Pairs(k)
  BY DEF Pairs
<1>3. ReservedBook' /\ ConsumedBook'
  BY <1>1, <1>2 DEF Books, ReservedBook, ConsumedBook, PairKinds
<1>4. QED BY <1>3 DEF Books

\* The amount of a new call joins the sum of its kind, once.
LEMMA GrantBooks ==
  ASSUME LInv, LInv', Books, NEW g \in GrantCalls, Grant(g)
  PROVE  Books'
<1> DEFINE n == Len(buckets) + 1
           new == [key |-> g.key, origin |-> g.origin, granted |-> g.amount,
                   reserved |-> 0, consumed |-> 0, expiresAt |-> g.expiresAt,
                   order |-> g.order, cycle |-> g.cycle]
           G == GrantedColumn  G2 == GrantedColumn'
<1>0. TypeOK /\ TypeOK'
  BY DEF LInv
<1>1. /\ buckets' = Append(buckets, new) /\ Len(buckets) < MaxBuckets
      /\ grantLegs' = grantLegs \cup {g} /\ \A l \in grantLegs : l.key # g.key
      /\ UNCHANGED <<legs, clawLegs, l0Expiry>>
  BY DEF Grant
<1>2. /\ new.granted = g.amount /\ new.reserved = 0 /\ new.consumed = 0
  OBVIOUS
<1>3. /\ Len(buckets) \in Nat /\ Issued \subseteq BucketIds /\ n \in 1..MaxBuckets
      /\ n \notin Issued /\ Issued' = Issued \cup {n}
      /\ \A b \in Issued : buckets'[b] = buckets[b]
      /\ buckets'[n] = new
  <2> HIDE DEF new
  <2>1. Len(buckets) \in Nat /\ Issued \subseteq BucketIds
    BY <1>0, IssuedFacts
  <2>2. QED BY <1>0, <1>1, <2>1 DEF Issued, TypeOK
<1> HIDE DEF new, n
<1>4. G \in [1..MaxBuckets -> Int] /\ G2 \in [1..MaxBuckets -> Int]
  BY <1>0, ColumnsTyped, ColumnsTypedNext DEF Columns
<1>5. \A b \in 1..MaxBuckets : b # n => G2[b] = G[b]
  BY <1>3 DEF GrantedColumn, BucketIds
<1>6. G[n] = 0 /\ G2[n] = g.amount
  BY <1>2, <1>3 DEF GrantedColumn, BucketIds
<1>7. Total(G2, MaxBuckets) = Total(G, MaxBuckets) + g.amount
  <2> HIDE DEF G, G2
  <2>1. Total(G2, MaxBuckets) = Total(G, MaxBuckets) + (G2[n] - G[n])
    BY <1>3, <1>4, <1>5, TotalChange
  <2>2. g.amount \in Int
    BY CallsAssumption DEF GrantCall
  <2>3. QED BY <1>6, <2>1, <2>2
<1>8. SumOfCalls(grantLegs') = SumOfCalls(grantLegs) + g.amount
  <2>1. IsFiniteSet(grantLegs) /\ g \notin grantLegs
    BY <1>1 DEF Books, CallsFinite
  <2>2. \A x \in grantLegs \cup {g} : x.amount \in Int
    BY <1>0, CallsAssumption DEF TypeOK, GrantCall
  <2>3. QED BY <1>1, <2>1, <2>2, CallAdds
<1>9. CallsFinite'
  BY <1>1, FS_AddElement DEF Books, CallsFinite
<1>10. GrantedBook'
  <2>1. /\ SumOfCalls(grantLegs) \in Int /\ SumOfCalls(clawLegs) \in Int
        /\ AtLeastZero(l0Expiry) \in Int /\ g.amount \in Int
    BY <1>0, CallsTyped, CallsAssumption DEF Books, GrantCall
  <2>2. Total(G, MaxBuckets) =
          SumOfCalls(grantLegs) - SumOfCalls(clawLegs) - AtLeastZero(l0Expiry)
    BY DEF Books, GrantedBook
  <2>3. clawLegs' = clawLegs /\ l0Expiry' = l0Expiry
    BY <1>1
  <2> HIDE DEF G, G2
  <2>4. Total(G2, MaxBuckets) =
          SumOfCalls(grantLegs') - SumOfCalls(clawLegs') - AtLeastZero(l0Expiry')
    BY <1>7, <1>8, <2>1, <2>2, <2>3
  <2>5. QED BY <2>4 DEF GrantedBook, G2
<1>11. QED BY <1>0, <1>1, <1>2, <1>3, <1>9, <1>10, OtherColumnsStay

\* What the buckets give and what is left as debt is the amount of the call.
LEMMA ClawbackBooks ==
  ASSUME LInv, LInv', Books, NEW c \in ClawbackCalls, Clawback(c)
  PROVE  Books'
<1> DEFINE taken == Lesser(c.amount, Total(AnyCapacity, MaxBuckets))
           debt == c.amount - taken
           owed == [key |-> c.key, origin |-> "clawback", granted |-> -debt,
                    reserved |-> 0, consumed |-> 0, expiresAt |-> Never,
                    order |-> c.order, cycle |-> NoCycle]
           n == Len(buckets) + 1
           G == GrantedColumn  G2 == GrantedColumn'
<1>0. TypeOK /\ TypeOK'
  BY DEF LInv
<1>1. c.amount \in Nat
  BY CallsAssumption DEF ClawbackCall
<1>2. \A b \in BucketIds : /\ AnyCapacity[b] \in Nat
                           /\ b \notin Issued => AnyCapacity[b] = 0
  BY <1>0, IssuedFacts DEF AnyCapacity, AtLeastZero, Spare, Bucket
<1>3. taken \in Nat /\ debt \in Nat
  <2>1. AnyCapacity \in [1..MaxBuckets -> Nat]
    BY <1>2 DEF AnyCapacity, BucketIds
  <2>2. Total(AnyCapacity, MaxBuckets) \in Nat
    BY <2>1, TotalBounds
  <2>3. QED BY <1>1, <2>2 DEF Lesser
<1>4. owed.granted = -debt /\ owed.reserved = 0 /\ owed.consumed = 0
  OBVIOUS
<1> HIDE DEF taken, owed
<1>5. PICK take \in Walks(AnyCapacity, ClawbackOrder(c.order), taken) :
        buckets' = IF debt = 0 THEN [b \in Issued |-> Cut(buckets[b], take[b])]
                   ELSE Append([b \in Issued |-> Cut(buckets[b], take[b])], owed)
  BY Zenon DEF Clawback, taken, debt, owed
<1>6. /\ legs' = legs /\ clawLegs' = clawLegs \cup {c}
      /\ \A l \in clawLegs : l.key # c.key
      /\ UNCHANGED <<grantLegs, l0Expiry>>
      /\ debt > 0 => Len(buckets) < MaxBuckets
  BY DEF Clawback, debt, taken
<1>7. /\ take \in [BucketIds -> Nat] /\ Total(take, MaxBuckets) = taken
      /\ \A b \in BucketIds : take[b] <= AnyCapacity[b]
  BY <1>3, WalkFacts
<1>8. debt \in Nat /\ taken + debt = c.amount
  BY <1>1, <1>3
<1> HIDE DEF debt
<1>9. \A b \in BucketIds : take[b] \in Nat /\ (b \notin Issued => take[b] = 0)
  BY <1>2, <1>7
<1> DEFINE cut == [b \in Issued |-> Cut(buckets[b], take[b])]
<1>10. \A b \in Issued : /\ cut[b] \in Bucket
                         /\ cut[b].reserved = buckets[b].reserved
                         /\ cut[b].consumed = buckets[b].consumed
                         /\ cut[b].granted = buckets[b].granted - take[b]
  <2> SUFFICES ASSUME NEW b \in Issued
               PROVE  /\ Cut(buckets[b], take[b]) \in Bucket
                      /\ Cut(buckets[b], take[b]).reserved = buckets[b].reserved
                      /\ Cut(buckets[b], take[b]).consumed = buckets[b].consumed
                      /\ Cut(buckets[b], take[b]).granted = buckets[b].granted - take[b]
    BY Zenon
  <2>1. buckets[b] \in Bucket /\ take[b] \in Nat
    BY <1>0, <1>9, IssuedFacts
  <2>2. QED BY <2>1, RowOperations
<1>11. /\ cut \in Seq(Bucket) /\ Len(cut) = Len(buckets)
       /\ Len(buckets) \in Nat /\ Issued \subseteq BucketIds
  <2>1. cut \in [Issued -> Bucket]
    BY <1>10
  <2> HIDE DEF cut
  <2>2. QED BY <1>0, <2>1, RowsStayRows, IssuedFacts
<1>12. n \notin Issued /\ (debt # 0 => n \in 1..MaxBuckets)
  BY <1>6, <1>8, <1>11 DEF Issued
<1>13. /\ \A b \in Issued : buckets'[b] = cut[b]
       /\ debt = 0 => Issued' = Issued
       /\ debt # 0 => Issued' = Issued \cup {n} /\ buckets'[n] = owed
  <2>1. CASE debt = 0
    <3>1. buckets' = cut
      BY <1>5, <2>1
    <3> HIDE DEF cut
    <3>2. QED BY <1>11, <2>1, <3>1 DEF Issued
  <2>2. CASE debt # 0
    <3>1. buckets' = Append(cut, owed)
      BY <1>5, <2>2
    <3> HIDE DEF cut
    <3>2. QED BY <1>11, <2>2, <3>1 DEF Issued
  <2>3. QED BY <2>1, <2>2
<1> HIDE DEF cut, n
<1>14. Total(G2, MaxBuckets) = Total(G, MaxBuckets) - c.amount
  <2> DEFINE H == [b \in 1..MaxBuckets |-> G[b] - take[b]]
  <2>1. G \in [1..MaxBuckets -> Int] /\ G2 \in [1..MaxBuckets -> Int]
    BY <1>0, ColumnsTyped, ColumnsTypedNext DEF Columns
  <2>2. take \in [1..MaxBuckets -> Int]
    BY <1>7 DEF BucketIds
  <2>3. \A b \in 1..MaxBuckets : ~(debt # 0 /\ b = n) => G2[b] = G[b] - take[b]
    <3> SUFFICES ASSUME NEW b \in 1..MaxBuckets, ~(debt # 0 /\ b = n)
                 PROVE  G2[b] = G[b] - take[b]
      BY Zenon
    <3>0. b \in BucketIds
      BY DEF BucketIds
    <3>1. CASE b \in Issued
      <4>1. b \in Issued' /\ buckets'[b].granted = buckets[b].granted - take[b]
        BY <1>10, <1>13, <3>1
      <4>2. QED BY <3>0, <3>1, <4>1 DEF GrantedColumn
    <3>2. CASE b \notin Issued
      <4>1. b \notin Issued' /\ take[b] = 0
        BY <1>9, <1>13, <3>0, <3>2
      <4>2. QED BY <3>0, <3>2, <4>1 DEF GrantedColumn
    <3>3. QED BY <3>1, <3>2
  <2>4. debt # 0 => G[n] = 0 /\ G2[n] = -debt /\ take[n] = 0
    BY <1>4, <1>9, <1>12, <1>13 DEF GrantedColumn, BucketIds
  <2> HIDE DEF G, G2
  <2>5. H \in [1..MaxBuckets -> Int] /\ \A b \in 1..MaxBuckets : H[b] = G[b] - take[b]
    BY <2>1, <2>2
  <2> HIDE DEF H
  <2>6. \A b \in 1..MaxBuckets : G[b] = H[b] + take[b]
    BY <2>1, <2>2, <2>5
  <2>7. Total(G, MaxBuckets) = Total(H, MaxBuckets) + taken
    BY <1>7, <2>1, <2>2, <2>5, <2>6, TotalAdds
  <2>8. Total(G2, MaxBuckets) = Total(H, MaxBuckets) - debt
    <3>0. Total(H, MaxBuckets) \in Int
      BY <2>5, TotalInt
    <3>1. CASE debt = 0
      <4>1. \A b \in 1..MaxBuckets : G2[b] = H[b]
        BY <2>3, <2>5, <3>1
      <4>2. Total(G2, MaxBuckets) = Total(H, MaxBuckets)
        BY <2>1, <2>5, <4>1, TotalSame
      <4>3. QED BY <3>0, <3>1, <4>2
    <3>2. CASE debt # 0
      <4>1. \A b \in 1..MaxBuckets : b # n => G2[b] = H[b]
        BY <2>3, <2>5
      <4>2. Total(G2, MaxBuckets) = Total(H, MaxBuckets) + (G2[n] - H[n])
        BY <1>12, <2>1, <2>5, <3>2, <4>1, TotalChange
      <4>3. H[n] = 0 /\ G2[n] = -debt
        BY <1>12, <2>4, <2>5, <3>2
      <4>4. QED BY <1>8, <3>0, <4>2, <4>3
    <3>3. QED BY <3>1, <3>2
  <2>9. Total(H, MaxBuckets) \in Int
    BY <2>5, TotalInt
  <2>10. QED BY <1>1, <1>3, <1>8, <2>7, <2>8, <2>9
<1>15. SumOfCalls(clawLegs') = SumOfCalls(clawLegs) + c.amount
  <2>1. IsFiniteSet(clawLegs) /\ c \notin clawLegs
    BY <1>6 DEF Books, CallsFinite
  <2>2. \A x \in clawLegs \cup {c} : x.amount \in Int
    BY <1>0, CallsAssumption DEF TypeOK, ClawbackCall
  <2>3. QED BY <1>6, <2>1, <2>2, CallAdds
<1>16. CallsFinite'
  BY <1>6, FS_AddElement DEF Books, CallsFinite
<1>17. GrantedBook'
  <2>1. /\ SumOfCalls(grantLegs) \in Int /\ SumOfCalls(clawLegs) \in Int
        /\ AtLeastZero(l0Expiry) \in Int
    BY <1>0, CallsTyped DEF Books
  <2>2. Total(G, MaxBuckets) =
          SumOfCalls(grantLegs) - SumOfCalls(clawLegs) - AtLeastZero(l0Expiry)
    BY DEF Books, GrantedBook
  <2>3. grantLegs' = grantLegs /\ l0Expiry' = l0Expiry
    BY <1>6
  <2> HIDE DEF G, G2
  <2>4. Total(G2, MaxBuckets) =
          SumOfCalls(grantLegs') - SumOfCalls(clawLegs') - AtLeastZero(l0Expiry')
    BY <1>1, <1>14, <1>15, <2>1, <2>2, <2>3
  <2>5. QED BY <2>4 DEF GrantedBook, G2
<1>18. /\ Issued \subseteq Issued'
       /\ \A b \in Issued : /\ buckets'[b].reserved = buckets[b].reserved
                            /\ buckets'[b].consumed = buckets[b].consumed
       /\ \A b \in Issued' : b \notin Issued => /\ buckets'[b].reserved = 0
                                                /\ buckets'[b].consumed = 0
  BY <1>4, <1>10, <1>13
<1>19. legs' = legs
  BY <1>6
<1>20. QED BY <1>0, <1>16, <1>17, <1>18, <1>19, OtherColumnsStay

\* The leg that expires the gift is worth what its bucket loses.
LEMMA ExpireL0Books ==
  ASSUME LInv, LInv', Books, ExpireL0
  PROVE  Books'
<1> DEFINE G == GrantedColumn  G2 == GrantedColumn'
<1>0. TypeOK /\ TypeOK'
  BY DEF LInv
<1>1. PICK l0 \in Issued :
        /\ l0Expiry' = AtLeastZero(Spare(buckets[l0]))
        /\ buckets' = [b \in Issued |->
             IF b = l0 THEN Cut(buckets[b], AtLeastZero(Spare(buckets[b])))
                       ELSE buckets[b]]
  BY DEF ExpireL0
<1>2. PICK t \in Nat : t = AtLeastZero(Spare(buckets[l0]))
  BY <1>0, IssuedFacts DEF AtLeastZero, Spare, Bucket
<1>3. /\ Cut(buckets[l0], t) \in Bucket
      /\ Cut(buckets[l0], t).reserved = buckets[l0].reserved
      /\ Cut(buckets[l0], t).consumed = buckets[l0].consumed
      /\ Cut(buckets[l0], t).granted = buckets[l0].granted - t
  BY <1>0, IssuedFacts, RowOperations
<1>4. /\ \A b \in Issued : b # l0 => buckets'[b] = buckets[b]
      /\ buckets'[l0] = Cut(buckets[l0], t)
  BY <1>1, <1>2
<1>5. Issued' = Issued /\ Issued \subseteq BucketIds
  <2>1. \A b \in Issued : buckets[b] \in Bucket
    BY <1>0, IssuedFacts
  <2>2. buckets' \in [Issued -> Bucket]
    BY <1>1, <1>3, <1>4, <2>1
  <2>3. QED BY <1>0, <2>2, RowsStayRows, IssuedFacts DEF Issued
<1>6. /\ UNCHANGED <<legs, grantLegs, clawLegs>>
      /\ l0Expiry = NotExpired /\ l0Expiry' = t
  BY <1>1, <1>2 DEF ExpireL0
<1>7. Total(G2, MaxBuckets) = Total(G, MaxBuckets) - t
  <2>1. G \in [1..MaxBuckets -> Int] /\ G2 \in [1..MaxBuckets -> Int]
    BY <1>0, ColumnsTyped, ColumnsTypedNext DEF Columns
  <2>2. l0 \in 1..MaxBuckets /\ \A b \in 1..MaxBuckets : b # l0 => G2[b] = G[b]
    BY <1>4, <1>5 DEF GrantedColumn, BucketIds
  <2>3. G2[l0] = G[l0] - t
    BY <1>3, <1>4, <1>5 DEF GrantedColumn
  <2> HIDE DEF G, G2
  <2>4. Total(G2, MaxBuckets) = Total(G, MaxBuckets) + (G2[l0] - G[l0])
    BY <2>1, <2>2, TotalChange
  <2>5. G[l0] \in Int /\ Total(G, MaxBuckets) \in Int
    BY <2>1, <2>2, TotalInt
  <2>6. QED BY <2>3, <2>4, <2>5
<1>8. GrantedBook'
  <2>1. SumOfCalls(grantLegs) \in Int /\ SumOfCalls(clawLegs) \in Int
    BY <1>0, CallsTyped DEF Books
  <2>2. AtLeastZero(l0Expiry) = 0 /\ AtLeastZero(l0Expiry') = t
    BY <1>6 DEF AtLeastZero, NotExpired
  <2>3. Total(G, MaxBuckets) =
          SumOfCalls(grantLegs) - SumOfCalls(clawLegs) - AtLeastZero(l0Expiry)
    BY DEF Books, GrantedBook
  <2> HIDE DEF G, G2
  <2>4. Total(G2, MaxBuckets) =
          SumOfCalls(grantLegs') - SumOfCalls(clawLegs') - AtLeastZero(l0Expiry')
    BY <1>6, <1>7, <2>1, <2>2, <2>3
  <2>5. QED BY <2>4 DEF GrantedBook, G2
<1>9. CallsFinite'
  BY <1>6 DEF Books, CallsFinite
<1>10. \A b \in Issued : /\ buckets'[b].reserved = buckets[b].reserved
                         /\ buckets'[b].consumed = buckets[b].consumed
  BY <1>3, <1>4
<1>11. QED BY <1>0, <1>5, <1>6, <1>8, <1>9, <1>10, OtherColumnsStay

\* Longer lives, the clock and stuttering steps move no credit.
LEMMA IdleBooks ==
  ASSUME LInv, LInv', Books, Issued' = Issued,
         \A b \in Issued : /\ buckets'[b].granted = buckets[b].granted
                           /\ buckets'[b].reserved = buckets[b].reserved
                           /\ buckets'[b].consumed = buckets[b].consumed,
         UNCHANGED <<legs, grantLegs, clawLegs, l0Expiry>>
  PROVE  Books'
<1>1. GrantedColumn' = GrantedColumn
  BY DEF GrantedColumn
<1>2. CallsFinite' /\ GrantedBook'
  BY <1>1 DEF Books, CallsFinite, GrantedBook
<1>3. TypeOK /\ TypeOK'
  BY DEF LInv
<1>4. QED BY <1>2, <1>3, OtherColumnsStay

LEMMA ExtendCycleBooks ==
  ASSUME LInv, LInv', Books, NEW cycle \in Cycles, ExtendCycle(cycle)
  PROVE  Books'
<1>1. \A b \in Issued :
        /\ buckets[b] \in Bucket
        /\ buckets'[b] = IF buckets[b].cycle = cycle /\ buckets[b].expiresAt # Never
                         THEN [buckets[b] EXCEPT !.expiresAt = @ + 1] ELSE buckets[b]
  BY IssuedFacts DEF LInv, ExtendCycle
<1>2. \A b \in Issued : /\ buckets'[b].granted = buckets[b].granted
                        /\ buckets'[b].reserved = buckets[b].reserved
                        /\ buckets'[b].consumed = buckets[b].consumed
  BY <1>1 DEF Bucket
<1>3. Issued' = Issued
  <2>1. Len(buckets) \in Nat /\ buckets' = [b \in 1..Len(buckets) |-> buckets'[b]]
    BY IssuedFacts DEF LInv, ExtendCycle, Issued
  <2>2. QED BY <2>1 DEF Issued
<1>4. UNCHANGED <<legs, grantLegs, clawLegs, l0Expiry>>
  BY DEF ExtendCycle
<1>5. QED BY <1>2, <1>3, <1>4, IdleBooks

LEMMA InitBooks == Init => Books
<1> SUFFICES ASSUME Init PROVE Books
  OBVIOUS
<1>1. Issued = {} /\ TypeOK
  BY InitLInv DEF Init, Issued, LInv
<1>2. CallsFinite /\ SumOfCalls(grantLegs) = 0 /\ SumOfCalls(clawLegs) = 0
  BY FS_EmptySet, SumOfNone DEF CallsFinite, Init, SumOfCalls
<1>3. AtLeastZero(l0Expiry) = 0
  BY DEF Init, AtLeastZero, NotExpired
<1>4. /\ Total(GrantedColumn, MaxBuckets) = 0
      /\ Total(ReservedColumn, MaxBuckets) = 0
      /\ Total(ConsumedColumn, MaxBuckets) = 0
  <2>1. \A b \in 1..MaxBuckets :
          GrantedColumn[b] = 0 /\ ReservedColumn[b] = 0 /\ ConsumedColumn[b] = 0
    BY <1>1 DEF GrantedColumn, ReservedColumn, ConsumedColumn, BucketIds
  <2>2. /\ GrantedColumn \in [1..MaxBuckets -> Int]
        /\ ReservedColumn \in [1..MaxBuckets -> Int]
        /\ ConsumedColumn \in [1..MaxBuckets -> Int]
    BY <1>1, ColumnsTyped DEF Columns
  <2>3. QED BY <2>1, <2>2, TotalZero
<1>5. \A k \in PairKinds : Pairs(k) = 0
  <2>1. \A k \in PairKinds : \A j \in 1..NumJobs : legs[k][j] = 0
    BY DEF Init, Jobs
  <2>2. QED BY <1>1, <2>1, PairsTyped, TotalZero DEF Pairs
<1>6. GrantedBook
  BY <1>2, <1>3, <1>4 DEF GrantedBook
<1>7. ReservedBook /\ ConsumedBook
  BY <1>4, <1>5 DEF ReservedBook, ConsumedBook, PairKinds
<1>8. QED BY <1>2, <1>6, <1>7 DEF Books

LEMMA NextBooks == LInv /\ LInv' /\ Books /\ [Next]_vars => Books'
<1> SUFFICES ASSUME LInv, LInv', Books, [Next]_vars PROVE Books'
  OBVIOUS
<1>1. ASSUME NEW g \in GrantCalls, Grant(g) PROVE Books'
  BY <1>1, GrantBooks
<1>2. ASSUME NEW j \in Jobs, NEW a \in HoldAmounts, Reserve(j, a) PROVE Books'
  BY <1>2, ReserveBooks
<1>3. ASSUME NEW j \in Jobs, NEW a \in HoldAmounts, Commit(j, a) PROVE Books'
  BY <1>3, CommitBooks
<1>4. ASSUME NEW j \in Jobs, NEW a \in HoldAmounts,
             NEW k \in {"refund", "refund-partial"}, Refund(k, j, a)
      PROVE  Books'
  BY <1>4, RefundBooks
<1>5. ASSUME NEW c \in ClawbackCalls, ReversePayment(c) PROVE Books'
  BY <1>5, ClawbackBooks DEF ReversePayment
<1>6. CASE ExpireL0
  BY <1>6, ExpireL0Books
<1>7. ASSUME NEW c \in Cycles, ExtendCycle(c) PROVE Books'
  BY <1>7, ExtendCycleBooks
<1>8. CASE Tick \/ UNCHANGED vars
  <2>1. buckets' = buckets /\ UNCHANGED <<legs, grantLegs, clawLegs, l0Expiry>>
    BY <1>8 DEF Tick, vars
  <2>2. Issued' = Issued
    BY <2>1 DEF Issued
  <2>3. QED BY <2>1, <2>2, IdleBooks
<1>9. QED BY <1>1, <1>2, <1>3, <1>4, <1>5, <1>6, <1>7, <1>8 DEF Next

(***************************************************************************)
(* The double-entry legs and the buckets never drift apart, whatever the   *)
(* calls and in whatever order: the spendable accounts sum to what the     *)
(* buckets have left, pending to what they reserve, spend to what they     *)
(* consumed.                                                               *)
(***************************************************************************)
THEOREM BooksNeverDrift == Spec => []BooksAgree
<1>1. Init => Books
  BY InitBooks
<1>2. LInv /\ LInv' /\ Books /\ [Next]_vars => Books'
  BY NextBooks
<1>3. LInv /\ Books => BooksAgree
  BY BooksBalance DEF LInv
<1>4. QED BY <1>1, <1>2, <1>3, LedgerInvariant, PTL DEF Spec

-----------------------------------------------------------------------------
\* A reservation takes as much out of the live balance as it is worth.
LEMMA ReserveIsCovered ==
  ASSUME LInv, NEW j \in Jobs, NEW amount \in HoldAmounts, Reserve(j, amount)
  PROVE  Available' >= 0
<1> DEFINE L == [b \in BucketIds |-> IF b \in Issued /\ Live(buckets[b])
                                     THEN Spare(buckets[b]) ELSE 0]
           L2 == [b \in BucketIds |-> IF b \in Issued' /\ Live(buckets[b])'
                                      THEN Spare(buckets[b])' ELSE 0]
<1>1. amount \in Nat /\ Issued' = Issued /\ now' = now /\ Available >= amount
  BY ReserveTakes DEF Reserve
<1>2. PICK take \in [BucketIds -> Nat] :
        /\ Total(take, MaxBuckets) = amount
        /\ \A b \in BucketIds : ~(b \in Issued /\ Live(buckets[b])) => take[b] = 0
        /\ \A b \in Issued : /\ buckets'[b].granted = buckets[b].granted
                             /\ buckets'[b].reserved = buckets[b].reserved + take[b]
                             /\ buckets'[b].consumed = buckets[b].consumed
                             /\ buckets'[b].expiresAt = buckets[b].expiresAt
  BY ReserveTakes
<1>3. \A b \in BucketIds : /\ L[b] \in Int /\ L2[b] = L[b] - take[b]
  <2> TAKE b \in BucketIds
  <2>1. CASE b \in Issued /\ Live(buckets[b])
    <3>1. /\ buckets[b].granted \in Int /\ buckets[b].reserved \in Int
          /\ buckets[b].consumed \in Int
      BY <2>1, IssuedFacts DEF LInv, Bucket
    <3>2. /\ buckets'[b].granted = buckets[b].granted
          /\ buckets'[b].reserved = buckets[b].reserved + take[b]
          /\ buckets'[b].consumed = buckets[b].consumed
          /\ buckets'[b].expiresAt = buckets[b].expiresAt
      BY <1>2, <2>1
    <3>3. L[b] = Spare(buckets[b]) /\ L2[b] = Spare(buckets'[b])
      BY <1>1, <2>1, <3>2 DEF Live
    <3>4. take[b] \in Int
      BY <1>2
    <3> HIDE DEF L, L2
    <3>5. QED BY <3>1, <3>2, <3>3, <3>4 DEF Spare
  <2>2. CASE ~(b \in Issued /\ Live(buckets[b]))
    <3>1. L[b] = 0 /\ take[b] = 0
      BY <1>2, <2>2
    <3>2. b \in Issued => buckets'[b].expiresAt = buckets[b].expiresAt
      BY <1>2
    <3>3. L2[b] = 0
      BY <1>1, <2>2, <3>2 DEF Live
    <3> HIDE DEF L, L2
    <3>4. QED BY <3>1, <3>3
  <2>3. QED BY <2>1, <2>2
<1>4. /\ L \in [1..MaxBuckets -> Int] /\ L2 \in [1..MaxBuckets -> Int]
      /\ take \in [1..MaxBuckets -> Int]
      /\ \A b \in 1..MaxBuckets : L[b] = L2[b] + take[b]
  <2>1. \A b \in BucketIds : L[b] \in Int /\ L2[b] \in Int /\ L[b] = L2[b] + take[b]
    <3> HIDE DEF L, L2
    <3> QED BY <1>2, <1>3
  <2>2. DOMAIN L = BucketIds /\ DOMAIN L2 = BucketIds
    OBVIOUS
  <2>3. QED BY <1>2, <2>1, <2>2 DEF BucketIds
<1>5. Available = Total(L, MaxBuckets) /\ Available' = Total(L2, MaxBuckets)
  BY DEF Available
<1> HIDE DEF L, L2
<1>6. Total(L, MaxBuckets) = Total(L2, MaxBuckets) + amount
  BY <1>2, <1>4, TotalAdds
<1>7. Total(L2, MaxBuckets) \in Int
  BY <1>4, TotalInt
<1>8. QED BY <1>1, <1>5, <1>6, <1>7

(***************************************************************************)
(* Whatever grants, debts and expiries came before: a reservation that the *)
(* ledger accepts never leaves the live balance, debts included, negative. *)
(***************************************************************************)
THEOREM NeverOverdrawn == Spec => NoOverdraft
<1>1. LInv /\ [Next]_vars => [legs'["reserve"] # legs["reserve"] => Available' >= 0]_vars
  <2> SUFFICES ASSUME LInv, Next, legs'["reserve"] # legs["reserve"]
               PROVE  Available' >= 0
    OBVIOUS
  <2>1. ASSUME NEW j \in Jobs, NEW a \in HoldAmounts, Reserve(j, a)
        PROVE  Available' >= 0
    BY <2>1, ReserveIsCovered
  <2>2. ASSUME NEW j \in Jobs, NEW a \in HoldAmounts, Commit(j, a) PROVE FALSE
    BY <2>2 DEF Commit, LInv, TypeOK, PairKinds
  <2>3. ASSUME NEW j \in Jobs, NEW a \in HoldAmounts,
               NEW k \in {"refund", "refund-partial"}, Refund(k, j, a)
        PROVE  FALSE
    BY <2>3 DEF Refund, LInv, TypeOK, PairKinds
  <2>4. ASSUME legs' = legs PROVE FALSE
    BY <2>4
  <2>5. \/ \E j \in Jobs, a \in HoldAmounts : Reserve(j, a)
        \/ \E j \in Jobs, a \in HoldAmounts : Commit(j, a)
        \/ \E j \in Jobs, a \in HoldAmounts, k \in {"refund", "refund-partial"} :
             Refund(k, j, a)
        \/ legs' = legs
    BY DEF Next, Grant, ReversePayment, Clawback, ExpireL0, ExtendCycle, Tick
  <2>6. QED BY <2>1, <2>2, <2>3, <2>4, <2>5
<1>2. QED BY <1>1, LedgerInvariant, PTL DEF Spec, NoOverdraft

-----------------------------------------------------------------------------
\* What JobHold calls left of a hold is what is pending of the job's legs.
LEMMA LeftIsPending ==
  ASSUME TypeOK, NEW j \in Jobs
  PROVE  HoldOf(j)!Left = PendingOf(j)
<1> DEFINE f == [k \in SettlementKinds |-> legs[k][j]]
<1>1. /\ f["commit"] = legs["commit"][j] /\ f["refund"] = legs["refund"][j]
      /\ f["refund-partial"] = legs["refund-partial"][j]
      /\ \A k \in SettlementKinds : f[k] \in Int
      /\ \A k \in PairKinds : legs[k][j] \in Int
  BY DEF TypeOK, SettlementKinds, PairKinds
<1>2. HoldOf(j)!Left = legs["reserve"][j] - SumFunctionOnSet(f, SettlementKinds)
  BY Zenon DEF HoldOf!Left, HoldOf!SumFunctionOnSet, HoldOf!FoldFunctionOnSet,
               HoldOf!MapThenFoldSet, SumFunctionOnSet, FoldFunctionOnSet, MapThenFoldSet
<1> HIDE DEF f
<1>3. SumFunctionOnSet(f, SettlementKinds) =
        f["commit"] + f["refund"] + f["refund-partial"]
  <2> DEFINE A == {"commit"}  B == {"commit", "refund"}
  <2>1. IsFiniteSet({}) /\ IsFiniteSet(A) /\ IsFiniteSet(B)
    <3>1. IsFiniteSet({}) /\ A = {} \cup {"commit"} /\ B = A \cup {"refund"}
      BY FS_EmptySet
    <3>2. IsFiniteSet(A)
      BY <3>1, FS_AddElement
    <3>3. QED BY <3>1, <3>2, FS_AddElement
  <2>2. SumFunctionOnSet(f, {} \cup {"commit"}) = SumFunctionOnSet(f, {}) + f["commit"]
    BY <1>1, <2>1, SumAdds DEF SettlementKinds
  <2>3. SumFunctionOnSet(f, A \cup {"refund"}) = SumFunctionOnSet(f, A) + f["refund"]
    BY <1>1, <2>1, SumAdds DEF SettlementKinds
  <2>4. SumFunctionOnSet(f, B \cup {"refund-partial"}) =
          SumFunctionOnSet(f, B) + f["refund-partial"]
    BY <1>1, <2>1, SumAdds DEF SettlementKinds
  <2>5. /\ A = {} \cup {"commit"} /\ B = A \cup {"refund"}
        /\ SettlementKinds = B \cup {"refund-partial"}
    BY DEF SettlementKinds
  <2> HIDE DEF A, B
  <2>6. SumFunctionOnSet(f, {}) = 0
    BY SumOfNone
  <2>7. f["commit"] \in Int /\ f["refund"] \in Int /\ f["refund-partial"] \in Int
    BY <1>1 DEF SettlementKinds
  <2>8. QED BY <2>2, <2>3, <2>4, <2>5, <2>6, <2>7
<1>4. QED BY <1>1, <1>2, <1>3 DEF PendingOf, PairKinds

\* The same after a step.
LEMMA PendingIsSomeNext == LInv' => NothingOversettled'
BY PendingIsSome, PTL

\* A settlement pair of job i is a Take of job i's hold, and of no other.
LEMMA SettlementIsTake ==
  ASSUME LInv, LInv', NEW i \in Jobs, NEW kind \in SettlementKinds,
         NEW amount \in HoldAmounts, legs[kind][i] = 0,
         legs' = [legs EXCEPT ![kind][i] = amount], NEW j \in Jobs
  PROVE  [HoldOf(j)!Next]_(HoldOf(j)!hold)
<1>0. /\ kind \in PairKinds /\ kind # "reserve" /\ "reserve" \in PairKinds
      /\ SettlementKinds \subseteq PairKinds /\ amount \in Nat /\ amount > 0
      /\ SettlementKinds = PairKinds \ {"reserve"}
  BY CallsAssumption DEF SettlementKinds, PairKinds
<1>1. legs \in [PairKinds -> [Jobs -> Nat]]
  BY DEF LInv, TypeOK
<1>2. legs'["reserve"][j] = legs["reserve"][j]
  BY <1>0, <1>1
<1>3. CASE j # i
  <2>1. \A k \in SettlementKinds : legs'[k][j] = legs[k][j]
    BY <1>0, <1>1, <1>3
  <2>2. [k \in SettlementKinds |-> legs'[k][j]] = [k \in SettlementKinds |-> legs[k][j]]
    BY <2>1
  <2>3. QED BY <1>2, <2>2 DEF HoldOf!hold
<1>4. CASE j = i
  <2>1. amount <= HoldOf(j)!Left
    <3>1. \A k \in PairKinds :
            legs[k][j] \in Int /\ legs'[k][j] = IF k = kind THEN amount ELSE legs[k][j]
      BY <1>0, <1>1, <1>4
    <3>2. PendingOf(j)' = PendingOf(j) - amount /\ PendingOf(j) \in Int
      BY <1>0, <1>4, <3>1 DEF PendingOf, SettlementKinds, PairKinds
    <3>3. PendingOf(j)' >= 0
      BY PendingIsSomeNext DEF NothingOversettled
    <3>4. HoldOf(j)!Left = PendingOf(j)
      BY LeftIsPending DEF LInv
    <3>5. QED BY <1>0, <3>2, <3>3, <3>4
  <2>2. [k \in SettlementKinds |-> legs'[k][j]] =
          [[k \in SettlementKinds |-> legs[k][j]] EXCEPT ![kind] = amount]
    BY <1>0, <1>1, <1>4
  <2>3. [k \in SettlementKinds |-> legs[k][j]][kind] = 0
    BY <1>4
  <2>4. legs'[kind][j] = amount
    BY <1>0, <1>1, <1>4
  <2>5. /\ [k \in SettlementKinds |-> legs[k][j]]'[kind] > 0
        /\ [k \in SettlementKinds |-> legs[k][j]]'[kind] <= HoldOf(j)!Left
        /\ [k \in SettlementKinds |-> legs[k][j]]' =
             [[k \in SettlementKinds |-> legs[k][j]] EXCEPT
                ![kind] = [k \in SettlementKinds |-> legs[k][j]]'[kind]]
    BY <1>0, <2>1, <2>2, <2>4
  <2>6. HoldOf(j)!Next
    BY <1>2, <2>3, <2>5, Zenon DEF HoldOf!Next, HoldOf!Take
  <2>7. QED BY <2>6
<1>5. QED BY <1>3, <1>4

\* A reserve pair of job i is the Reserve of job i's hold, and of no other.
LEMMA ReserveIsReserve ==
  ASSUME LInv, NEW i \in Jobs, NEW amount \in HoldAmounts, legs["reserve"][i] = 0,
         legs' = [legs EXCEPT !["reserve"][i] = amount], NEW j \in Jobs
  PROVE  [HoldOf(j)!Next]_(HoldOf(j)!hold)
<1>0. /\ "reserve" \in PairKinds /\ SettlementKinds \subseteq PairKinds
      /\ "reserve" \notin SettlementKinds /\ amount \in Nat /\ amount > 0
  BY CallsAssumption DEF SettlementKinds, PairKinds
<1>1. legs \in [PairKinds -> [Jobs -> Nat]]
  BY DEF LInv, TypeOK
<1>2. \A k \in SettlementKinds : legs'[k][j] = legs[k][j]
  BY <1>0, <1>1
<1>3. [k \in SettlementKinds |-> legs'[k][j]] = [k \in SettlementKinds |-> legs[k][j]]
  BY <1>2
<1>4. CASE j # i
  <2>1. legs'["reserve"][j] = legs["reserve"][j]
    BY <1>0, <1>1, <1>4
  <2>2. QED BY <1>3, <2>1 DEF HoldOf!hold
<1>5. CASE j = i
  <2>1. legs["reserve"][j] = 0 /\ legs'["reserve"][j] = amount
    BY <1>0, <1>1, <1>5
  <2>2. HoldOf(j)!Reserve(legs'["reserve"][j])
    BY <1>3, <2>1, Zenon DEF HoldOf!Reserve
  <2>3. HoldOf(j)!Next
    BY <1>0, <2>1, <2>2 DEF HoldOf!Next
  <2>4. QED BY <2>3
<1>6. QED BY <1>4, <1>5

(***************************************************************************)
(* The ledger implements JobHold for every job: whatever buckets, other    *)
(* jobs, clawbacks and expiries do, each step is one settlement of at most *)
(* what is left of one hold, under a key not used before, or shows nothing.*)
(***************************************************************************)
THEOREM HoldsAreImplemented == Spec => HoldsImplemented
<1>1. Init => \A j \in Jobs : HoldOf(j)!Init
  BY DEF Init, HoldOf!Init, SettlementKinds, PairKinds
<1>2. LInv /\ LInv' /\ [Next]_vars =>
        [\A j \in Jobs : [HoldOf(j)!Next]_(HoldOf(j)!hold)]_vars
  <2> SUFFICES ASSUME LInv, LInv', Next, NEW j \in Jobs
               PROVE  [HoldOf(j)!Next]_(HoldOf(j)!hold)
    OBVIOUS
  <2>1. ASSUME NEW i \in Jobs, NEW a \in HoldAmounts, Reserve(i, a)
        PROVE  [HoldOf(j)!Next]_(HoldOf(j)!hold)
    BY <2>1, ReserveIsReserve DEF Reserve
  <2>2. ASSUME NEW i \in Jobs, NEW a \in HoldAmounts, Commit(i, a)
        PROVE  [HoldOf(j)!Next]_(HoldOf(j)!hold)
    BY <2>2, SettlementIsTake DEF Commit, SettlementKinds
  <2>3. ASSUME NEW i \in Jobs, NEW a \in HoldAmounts,
               NEW k \in {"refund", "refund-partial"}, Refund(k, i, a)
        PROVE  [HoldOf(j)!Next]_(HoldOf(j)!hold)
    BY <2>3, SettlementIsTake DEF Refund, SettlementKinds
  <2>4. ASSUME legs' = legs
        PROVE  [HoldOf(j)!Next]_(HoldOf(j)!hold)
    BY <2>4 DEF HoldOf!hold
  <2>5. \/ \E i \in Jobs, a \in HoldAmounts : Reserve(i, a)
        \/ \E i \in Jobs, a \in HoldAmounts : Commit(i, a)
        \/ \E i \in Jobs, a \in HoldAmounts, k \in {"refund", "refund-partial"} :
             Refund(k, i, a)
        \/ legs' = legs
    BY DEF Next, Grant, ReversePayment, Clawback, ExpireL0, ExtendCycle, Tick
  <2>6. QED BY <2>1, <2>2, <2>3, <2>4, <2>5
<1>3. QED BY <1>1, <1>2, LedgerInvariant, PTL DEF Spec, HoldsImplemented

=============================================================================
