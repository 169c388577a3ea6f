----------------------------- MODULE CreditLedger -----------------------------
(***************************************************************************)
(* The credit ledger of one user: packages/credits/src/service.ts over the *)
(* tables credit_transactions, credit_buckets and                          *)
(* credit_bucket_allocations.  Every operation is one database transaction *)
(* that holds the user's row lock from before its first read (grant, which *)
(* takes no lock, is a single conflict-free insert), so every operation is *)
(* one action.  A call that the code refuses (idempotency conflict, not    *)
(* enough credits, settlement beyond the hold) or replays rolls back or    *)
(* returns the stored row: it changes nothing, and is a stuttering step.   *)
(***************************************************************************)
EXTENDS Integers, Sequences, Functions, Tally

CONSTANTS
  NumJobs,        \* holds belong to jobs 1..NumJobs
  MaxBuckets,     \* bound on the buckets the user ever gets
  MaxTime,        \* bound on the clock
  HoldAmounts,    \* amounts a caller reserves, commits or refunds
  GrantCalls,     \* grants the callers may ask for, each with its key
  ClawbackCalls,  \* clawbacks the callers may ask for, each with its key
  Keys, Orders, Cycles,
  L0Key,          \* the key of the registration gift
  NoOrder, NoCycle

Never == MaxTime + 1      \* expires_at IS NULL: later than every time
Jobs == 1..NumJobs
BucketIds == 1..MaxBuckets

Origins == {"welcome", "bonus", "subscription", "pack", "admin", "refund"}

Priority(origin) ==
  CASE origin \in {"welcome", "bonus"} -> 1
    [] origin = "subscription" -> 2
    [] origin = "pack" -> 4
    [] OTHER -> 3

GrantCall == [key : Keys, amount : Nat \ {0}, origin : Origins,
              expiresAt : 1..Never, order : Orders \cup {NoOrder},
              cycle : Cycles \cup {NoCycle}]
ClawbackCall == [key : Keys, amount : Nat \ {0}, order : Orders \cup {NoOrder}]

ASSUME BoundsAssumption == /\ NumJobs \in Nat
                           /\ MaxBuckets \in Nat
                           /\ MaxTime \in Nat
ASSUME CallsAssumption == /\ HoldAmounts \subseteq Nat \ {0}
                          /\ GrantCalls \subseteq GrantCall
                          /\ ClawbackCalls \subseteq ClawbackCall

(***************************************************************************)
(* A pair of ledger legs is written under one parent key per job; legs     *)
(* holds the amount of each pair, 0 while the pair does not exist.         *)
(***************************************************************************)
PairKinds == {"reserve", "commit", "refund", "refund-partial"}

VARIABLES
  buckets,     \* credit_buckets rows in creation order
  held,        \* held[j][b]: allocation rows, reserve - commit - release
  legs,        \* legs[kind][j]: the pair of ledger legs of job j
  grantLegs,   \* the grant calls whose leg was inserted
  clawLegs,    \* the clawback calls whose leg was inserted
  l0Expiry,    \* the amount of the leg that expired the gift, or NotExpired
  now

vars == <<buckets, held, legs, grantLegs, clawLegs, l0Expiry, now>>

NotExpired == -1

Bucket == [key : Keys, origin : Origins \cup {"clawback"}, granted : Int, reserved : Nat,
           consumed : Nat, expiresAt : 1..Never,
           order : Orders \cup {NoOrder}, cycle : Cycles \cup {NoCycle}]

-----------------------------------------------------------------------------
Issued == 1..Len(buckets)

Spare(k) == k.granted - k.reserved - k.consumed

Live(k) == k.expiresAt > now

\* balanceFor: expired buckets count for nothing, debt buckets count against.
Available ==
  Total([b \in BucketIds |-> IF b \in Issued /\ Live(buckets[b])
                             THEN Spare(buckets[b]) ELSE 0], MaxBuckets)

\* ORDER BY priority, expires_at NULLS LAST, created_at.
SpendsBefore(a, b) ==
  LET p == Priority(buckets[a].origin)  q == Priority(buckets[b].origin)
      s == buckets[a].expiresAt         t == buckets[b].expiresAt
  IN  p < q \/ (p = q /\ (s < t \/ (s = t /\ a < b)))

SpendOrder ==
  {x \in Issued \X Issued : SpendsBefore(x[1], x[2])}

\* clawbackBuckets: the buckets of the order first, each part in spend order.
ClawbackOrder(order) ==
  LET own(b) == order # NoOrder /\ buckets[b].order = order
  IN  {x \in Issued \X Issued :
         IF own(x[1]) = own(x[2]) THEN SpendsBefore(x[1], x[2]) ELSE own(x[1])}

(***************************************************************************)
(* The loops of allocateLiveBuckets, outstandingReservationAllocations and *)
(* clawback walk the buckets in order and take from each all that is left  *)
(* to take, up to its capacity, until the amount is reached.               *)
(***************************************************************************)
Walks(capacity, before, amount) ==
  {take \in [BucketIds -> 0..amount] :
     /\ Total(take, MaxBuckets) = amount
     /\ \A b \in BucketIds : take[b] <= capacity[b]
     /\ \A a, b \in BucketIds :
          (<<a, b>> \in before /\ take[b] > 0) => take[a] = capacity[a]}

LiveCapacity ==
  [b \in BucketIds |-> IF b \in Issued /\ Live(buckets[b])
                       THEN AtLeastZero(Spare(buckets[b])) ELSE 0]

\* A mutant: credit that is held for a job counts as free.
AnyCapacityWithHeld ==
  [b \in BucketIds |-> IF b \in Issued
                       THEN AtLeastZero(buckets[b].granted - buckets[b].consumed)
                       ELSE 0]

AnyCapacity ==
  [b \in BucketIds |-> IF b \in Issued
                       THEN AtLeastZero(Spare(buckets[b])) ELSE 0]

\* What a taken amount does to a bucket row.
Hold(k, t)    == [k EXCEPT !.reserved = @ + t]
Release(k, t) == [k EXCEPT !.reserved = @ - t]
Spend(k, t)   == [Release(k, t) EXCEPT !.consumed = @ + t]
Cut(k, t)     == [k EXCEPT !.granted = @ - t]

-----------------------------------------------------------------------------
Init ==
  /\ buckets = <<>>
  /\ held = [j \in Jobs |-> [b \in BucketIds |-> 0]]
  /\ legs = [k \in PairKinds |-> [j \in Jobs |-> 0]]
  /\ grantLegs = {}
  /\ clawLegs = {}
  /\ l0Expiry = NotExpired
  /\ now = 0

\* A mutant: the bucket is inserted whether or not the leg's key is new.
GrantUnkeyed(g) ==
  /\ Len(buckets) < MaxBuckets
  /\ buckets' = Append(buckets,
       [key |-> g.key, origin |-> g.origin, granted |-> g.amount, reserved |-> 0,
        consumed |-> 0, expiresAt |-> g.expiresAt, order |-> g.order,
        cycle |-> g.cycle])
  /\ grantLegs' = grantLegs \cup {g}
  /\ UNCHANGED <<held, legs, clawLegs, l0Expiry, now>>

Grant(g) ==
  /\ \A l \in grantLegs : l.key # g.key
  /\ Len(buckets) < MaxBuckets
  /\ buckets' = Append(buckets,
       [key |-> g.key, origin |-> g.origin, granted |-> g.amount, reserved |-> 0,
        consumed |-> 0, expiresAt |-> g.expiresAt, order |-> g.order,
        cycle |-> g.cycle])
  /\ grantLegs' = grantLegs \cup {g}
  /\ UNCHANGED <<held, legs, clawLegs, l0Expiry, now>>

\* A mutant: the buckets have the amount, but the debt is forgotten.
ReserveInDebt(j, amount) ==
  /\ legs["reserve"][j] = 0
  /\ \E take \in Walks(LiveCapacity, SpendOrder, amount) :
       /\ buckets' = [b \in Issued |-> Hold(buckets[b], take[b])]
       /\ held' = [held EXCEPT ![j] = [b \in BucketIds |-> held[j][b] + take[b]]]
  /\ legs' = [legs EXCEPT !["reserve"][j] = amount]
  /\ UNCHANGED <<grantLegs, clawLegs, l0Expiry, now>>

Reserve(j, amount) ==
  /\ legs["reserve"][j] = 0
  /\ Available >= amount
  /\ \E take \in Walks(LiveCapacity, SpendOrder, amount) :
       /\ buckets' = [b \in Issued |-> Hold(buckets[b], take[b])]
       /\ held' = [held EXCEPT ![j] = [b \in BucketIds |-> held[j][b] + take[b]]]
  /\ legs' = [legs EXCEPT !["reserve"][j] = amount]
  /\ UNCHANGED <<grantLegs, clawLegs, l0Expiry, now>>

\* A mutant: the allocation rows of the spent amount are not written.
CommitUnallocated(j, amount) ==
  /\ legs["commit"][j] = 0
  /\ \E take \in Walks(held[j], SpendOrder, amount) :
       buckets' = [b \in Issued |-> Spend(buckets[b], take[b])]
  /\ legs' = [legs EXCEPT !["commit"][j] = amount]
  /\ UNCHANGED <<held, grantLegs, clawLegs, l0Expiry, now>>

Commit(j, amount) ==
  /\ legs["commit"][j] = 0
  /\ \E take \in Walks(held[j], SpendOrder, amount) :
       /\ buckets' = [b \in Issued |-> Spend(buckets[b], take[b])]
       /\ held' = [held EXCEPT ![j] = [b \in BucketIds |-> held[j][b] - take[b]]]
  /\ legs' = [legs EXCEPT !["commit"][j] = amount]
  /\ UNCHANGED <<grantLegs, clawLegs, l0Expiry, now>>

\* A mutant: a refund that releases what any job holds of a bucket.
RefundOfAnyHold(kind, j, amount) ==
  /\ legs[kind][j] = 0
  /\ \E take \in Walks([b \in BucketIds |-> IF b \in Issued
                           THEN buckets[b].reserved ELSE 0], SpendOrder, amount) :
       /\ buckets' = [b \in Issued |-> Release(buckets[b], take[b])]
       /\ held' = [held EXCEPT ![j] = [b \in BucketIds |-> held[j][b] - take[b]]]
  /\ legs' = [legs EXCEPT ![kind][j] = amount]
  /\ UNCHANGED <<grantLegs, clawLegs, l0Expiry, now>>

\* A mutant: the allocations are released, the bucket's column is not.
RefundKeepsReserved(kind, j, amount) ==
  /\ legs[kind][j] = 0
  /\ \E take \in Walks(held[j], SpendOrder, amount) :
       held' = [held EXCEPT ![j] = [b \in BucketIds |-> held[j][b] - take[b]]]
  /\ legs' = [legs EXCEPT ![kind][j] = amount]
  /\ UNCHANGED <<buckets, grantLegs, clawLegs, l0Expiry, now>>

\* The same call under the key of a full or of a partial refund.
Refund(kind, j, amount) ==
  /\ legs[kind][j] = 0
  /\ \E take \in Walks(held[j], SpendOrder, amount) :
       /\ buckets' = [b \in Issued |-> Release(buckets[b], take[b])]
       /\ held' = [held EXCEPT ![j] = [b \in BucketIds |-> held[j][b] - take[b]]]
  /\ legs' = [legs EXCEPT ![kind][j] = amount]
  /\ UNCHANGED <<grantLegs, clawLegs, l0Expiry, now>>

Pairs(kind) == Total(legs[kind], NumJobs)

\* expireL0ForUser: the unspent rest of the registration gift is cut off, but
\* not while any hold is open.  (The 72 hours the sweep waits are left out:
\* here it may come at any time after the grant.)
ExpireL0 ==
  /\ l0Expiry = NotExpired
  /\ Pairs("reserve") - Pairs("commit") - Pairs("refund")
       - Pairs("refund-partial") <= 0
  /\ \E l0 \in Issued :
       /\ buckets[l0].key = L0Key
       /\ l0Expiry' = AtLeastZero(Spare(buckets[l0]))
       /\ buckets' = [b \in Issued |->
            IF b = l0 THEN Cut(buckets[b], AtLeastZero(Spare(buckets[b])))
                      ELSE buckets[b]]
  /\ UNCHANGED <<held, legs, grantLegs, clawLegs, now>>

SumOfCalls(calls) == SumFunctionOnSet([c \in calls |-> c.amount], calls)

GrantedForOrder(order) == SumOfCalls({l \in grantLegs : l.order = order})

ClawedBackForOrder(order) == SumOfCalls({l \in clawLegs : l.order = order})

\* What no bucket can give becomes a bucket of negative size.
Clawback(c) ==
  LET taken == Lesser(c.amount, Total(AnyCapacity, MaxBuckets))
      debt  == c.amount - taken
  IN
  /\ \A l \in clawLegs : l.key # c.key
  /\ debt > 0 => Len(buckets) < MaxBuckets
  /\ \E take \in Walks(AnyCapacity, ClawbackOrder(c.order), taken) :
       LET cut == [b \in Issued |-> Cut(buckets[b], take[b])]
       IN  buckets' = IF debt = 0 THEN cut ELSE
             Append(cut, [key |-> c.key, origin |-> "clawback",
                          granted |-> -debt, reserved |-> 0, consumed |-> 0,
                          expiresAt |-> Never, order |-> c.order,
                          cycle |-> NoCycle])
  /\ clawLegs' = clawLegs \cup {c}
  /\ UNCHANGED <<held, legs, grantLegs, l0Expiry, now>>

\* reversePaymentGrant claws back at most what the order still has to give.
ReversePayment(c) ==
  /\ c.amount <= GrantedForOrder(c.order) - ClawedBackForOrder(c.order)
  /\ Clawback(c)

\* Support extends a billing cycle: its buckets live longer, or live again.
ExtendCycle(cycle) ==
  /\ \A b \in Issued : buckets[b].cycle = cycle => buckets[b].expiresAt # MaxTime
  /\ \E b \in Issued : buckets[b].cycle = cycle
  /\ buckets' = [b \in Issued |->
       IF buckets[b].cycle = cycle /\ buckets[b].expiresAt # Never
       THEN [buckets[b] EXCEPT !.expiresAt = @ + 1] ELSE buckets[b]]
  /\ UNCHANGED <<held, legs, grantLegs, clawLegs, l0Expiry, now>>

Tick ==
  /\ now < MaxTime
  /\ now' = now + 1
  /\ UNCHANGED <<buckets, held, legs, grantLegs, clawLegs, l0Expiry>>

Next ==
  \/ \E g \in GrantCalls : Grant(g)
  \/ \E j \in Jobs, a \in HoldAmounts : Reserve(j, a)
  \/ \E j \in Jobs, a \in HoldAmounts : Commit(j, a)
  \/ \E j \in Jobs, a \in HoldAmounts, k \in {"refund", "refund-partial"} :
       Refund(k, j, a)
  \/ \E c \in ClawbackCalls : ReversePayment(c)
  \/ ExpireL0
  \/ \E c \in Cycles : ExtendCycle(c)
  \/ Tick

Spec == Init /\ [][Next]_vars

-----------------------------------------------------------------------------
\* The rows have the columns' types; the ids in use are bounded.
TypeOK ==
  /\ buckets \in Seq(Bucket) /\ Len(buckets) <= MaxBuckets
  /\ held \in [Jobs -> [BucketIds -> Nat]]
  /\ legs \in [PairKinds -> [Jobs -> Nat]]
  /\ grantLegs \subseteq GrantCalls
  /\ clawLegs \subseteq ClawbackCalls
  /\ l0Expiry \in Nat \cup {NotExpired}
  /\ now \in 0..MaxTime

(***************************************************************************)
(* The CHECK constraints of credit_buckets never fire: no interleaving of  *)
(* reserves, settlements and clawbacks promises more of a grant than it    *)
(* has, so a clawback can never eat into credit that is held or spent.     *)
(***************************************************************************)
BucketsWithinCapacity ==
  \A b \in Issued :
    \/ buckets[b].origin = "clawback" /\ buckets[b].reserved + buckets[b].consumed = 0
    \/ Spare(buckets[b]) >= 0

\* A bucket's reserved column is exactly what the jobs' allocations hold of it.
ReservedIsHeld ==
  \A b \in BucketIds :
    Total([j \in Jobs |-> held[j][b]], NumJobs) =
      IF b \in Issued THEN buckets[b].reserved ELSE 0

\* The pending legs of a job that no settlement has taken yet.
PendingOf(j) == legs["reserve"][j] - legs["commit"][j]
                - legs["refund"][j] - legs["refund-partial"][j]

(***************************************************************************)
(* A hold stays backed by buckets until it is settled, whatever clawbacks, *)
(* expiries and other jobs do meanwhile; so commit and refund of a hold    *)
(* always find it, and together they never settle more than was reserved.  *)
(***************************************************************************)
HoldsAreBacked ==
  \A j \in Jobs : Total(held[j], MaxBuckets) = PendingOf(j)

\* The bucket totals by column, expired buckets included.
BucketTotal(column(_)) ==
  Total([b \in BucketIds |-> IF b \in Issued THEN column(buckets[b]) ELSE 0],
        MaxBuckets)

(***************************************************************************)
(* The double-entry legs and the buckets are two books of the same credit, *)
(* and no sequence of operations lets them drift apart: the spendable      *)
(* accounts sum to what the buckets have left, the pending account to what *)
(* they reserve, the spend account to what they consumed.                  *)
(***************************************************************************)
BooksAgree ==
  /\ SumOfCalls(grantLegs) - SumOfCalls(clawLegs) - AtLeastZero(l0Expiry)
       - Pairs("reserve") + Pairs("refund") + Pairs("refund-partial") = BucketTotal(Spare)
  /\ Pairs("reserve") - Pairs("commit") - Pairs("refund")
       - Pairs("refund-partial") = BucketTotal(LAMBDA k : k.reserved)
  /\ Pairs("commit") = BucketTotal(LAMBDA k : k.consumed)

(***************************************************************************)
(* A reservation never spends beyond the net live balance: while a refunded*)
(* order left the user in debt, credit granted later repays the debt first.*)
(***************************************************************************)
NoOverdraft ==
  [][legs'["reserve"] # legs["reserve"] => Available' >= 0]_vars

=============================================================================
