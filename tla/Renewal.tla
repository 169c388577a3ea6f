------------------------------ MODULE Renewal ------------------------------
(***************************************************************************)
(* One subscription through its paid periods: the cycle worker that renews *)
(* or retires it when a period has elapsed, the bank it charges, the       *)
(* webhook that settles the charge, the reconciliation that cancels the    *)
(* agreement at the bank, and the customer who cancels, opts in and out,   *)
(* upgrades and downgrades at any moment.                                  *)
(*                                                                         *)
(* One worker leads at a time.  Each of its statements and transactions is *)
(* one step; a customer's request reads the row in one step and writes in  *)
(* another.                                                                *)
(***************************************************************************)
EXTENDS Naturals

CONSTANTS
  Last         \* bound: the last cycle that is modelled

VARIABLES
  psp,         \* renewals are charged at Tochka; or the stub renews at once
  status,      \* subscriptions.status
  optedOut,    \* cancel_at_period_end
  elapsed,     \* current_period_end has passed
  cycle,       \* cycle_number
  tier, next,  \* tier, and the pending_tier of a scheduled downgrade
  agreement,   \* the agreement to charge the card, at the bank
  order,       \* the renewal order of each cycle
  bound,       \* its psp_payment_id is set
  charge,      \* its charge at the bank
  granted,     \* grants made for each cycle
  retained,    \* a settlement that was refused is on record
  at, seen,    \* the worker's step, and the row it read
  wish         \* the customer's request between its read and its write

vars == <<psp, status, optedOut, elapsed, cycle, tier, next, agreement, order, bound, charge,
          granted, retained, at, seen, wish>>
terms == <<tier, next>>
row == <<psp, status, optedOut, elapsed, cycle, terms>>
orders == <<order, bound, granted, retained>>
worker == <<at, seen>>

Tiers == {"start", "plus"}
Cycles == 2..Last
Lifecycle == {"active", "past_due"}

-----------------------------------------------------------------------------
\* A subscription as its first payment settles: opted out of renewal.
Init ==
  /\ status = "active" /\ optedOut = TRUE /\ elapsed = FALSE /\ cycle = 1
  /\ tier = "plus" /\ next = "none"
  /\ psp \in {"tochka", "stub"}
  /\ agreement \in IF psp = "tochka" THEN {"none", "active"} ELSE {"none"}
  /\ order = [n \in Cycles |-> "none"]
  /\ bound = [n \in Cycles |-> FALSE]
  /\ charge = [n \in Cycles |-> "none"]
  /\ granted = [n \in Cycles |-> 0]
  /\ retained = [n \in Cycles |-> FALSE]
  /\ at = "idle" /\ seen = [cycle |-> 1, optedOut |-> TRUE]
  /\ wish = "none"

Elapse ==
  /\ ~elapsed /\ status \in Lifecycle /\ cycle < Last
  /\ elapsed' = TRUE
  /\ UNCHANGED <<psp, status, optedOut, cycle, terms, agreement, orders, charge, worker, wish>>

-----------------------------------------------------------------------------
Due == status = "active" /\ elapsed

\* The due-row query.
Select ==
  /\ at = "idle" /\ Due
  /\ seen' = [cycle |-> cycle, optedOut |-> optedOut]
  /\ at' = IF psp = "tochka" THEN "candidate" ELSE "stub"
  /\ UNCHANGED <<row, agreement, orders, charge, wish>>

\* Opted out when it was read, and still: the period ends without a charge.
Expire ==
  /\ at = "candidate" /\ seen.optedOut
  /\ status' = IF Due /\ optedOut THEN "expired" ELSE status
  /\ at' = "idle"
  /\ UNCHANGED <<psp, optedOut, elapsed, cycle, terms, agreement, orders, charge, seen, wish>>

\* A renewal of the cycle is in flight already.
SkipPending ==
  /\ at = "candidate" /\ ~seen.optedOut
  /\ order[seen.cycle + 1] = "pending"
  /\ at' = "idle"
  /\ UNCHANGED <<row, agreement, orders, charge, seen, wish>>

\* A mutant: the row is passed over, as if it were renewed by hand.
NoAgreementSkipped ==
  /\ at = "candidate" /\ ~seen.optedOut
  /\ order[seen.cycle + 1] # "pending" /\ agreement = "none"
  /\ at' = "idle"
  /\ UNCHANGED <<row, agreement, orders, charge, seen, wish>>

\* No agreement to charge under.
NoAgreement ==
  /\ at = "candidate" /\ ~seen.optedOut
  /\ order[seen.cycle + 1] # "pending" /\ agreement = "none"
  /\ status' = IF status = "active" THEN "past_due" ELSE status
  /\ at' = "idle"
  /\ UNCHANGED <<psp, optedOut, elapsed, cycle, terms, agreement, orders, charge, seen, wish>>

\* A mutant: the insert trusts the row the worker read.
InsertUnchecked ==
  /\ at = "candidate" /\ ~seen.optedOut /\ agreement # "none"
  /\ order' = [order EXCEPT ![seen.cycle + 1] = "pending"]
  /\ at' = "charging"
  /\ UNCHANGED <<row, agreement, bound, granted, retained, charge, seen, wish>>

\* The renewal order is inserted under the lock, if the row is as it was read.
Insert ==
  /\ at = "candidate" /\ ~seen.optedOut
  /\ order[seen.cycle + 1] # "pending" /\ agreement # "none"
  /\ IF Due /\ ~optedOut /\ cycle = seen.cycle
     THEN order' = [order EXCEPT ![cycle + 1] = "pending"] /\ at' = "charging"
     ELSE UNCHANGED order /\ at' = "idle"
  /\ UNCHANGED <<row, agreement, bound, granted, retained, charge, seen, wish>>

\* chargeSubscription: taken, or not; and the answer may be lost.
Charge ==
  /\ at = "charging"
  /\ \/ /\ agreement = "active"
        /\ charge' = [charge EXCEPT ![seen.cycle + 1] = "taken"]
        /\ at' \in {"charged", "unknown"}
     \/ at' = "unknown" /\ UNCHANGED charge
  /\ UNCHANGED <<row, agreement, orders, seen, wish>>

Attach ==
  /\ at = "charged"
  /\ bound' = [bound EXCEPT ![seen.cycle + 1] = @ \/ order[seen.cycle + 1] = "pending"]
  /\ at' = "idle"
  /\ UNCHANGED <<row, agreement, order, granted, retained, charge, seen, wish>>

\* A mutant: the recovery does not look whether the webhook was faster.
RecoverBlindly ==
  /\ at = "unknown"
  /\ status' = IF status = "active" THEN "past_due" ELSE status
  /\ at' = "idle"
  /\ UNCHANGED <<psp, optedOut, elapsed, cycle, terms, agreement, orders, charge, seen, wish>>

\* An unknown outcome: the order waits for the webhook, the subscription is past due.
Recover ==
  /\ at = "unknown"
  /\ status' = IF order[seen.cycle + 1] = "pending" /\ status = "active"
               THEN "past_due" ELSE status
  /\ at' = "idle"
  /\ UNCHANGED <<psp, optedOut, elapsed, cycle, terms, agreement, orders, charge, seen, wish>>

Crash ==
  /\ at # "idle" /\ at' = "idle"
  /\ UNCHANGED <<row, agreement, orders, charge, seen, wish>>

(***************************************************************************)
(* The stub's branch is one transaction on the row as it is: it expires,   *)
(* or is renewed, with the scheduled downgrade.                            *)
(***************************************************************************)
RenewStub ==
  /\ at = "stub"
  /\ at' = "idle"
  /\ CASE Due /\ optedOut ->
            /\ status' = "expired"
            /\ UNCHANGED <<optedOut, elapsed, cycle, terms, order, granted>>
       [] Due /\ ~optedOut ->
            /\ tier' = IF next = "none" THEN tier ELSE next
            /\ next' = "none"
            /\ cycle' = cycle + 1 /\ elapsed' = FALSE
            /\ order' = [order EXCEPT ![cycle + 1] = "paid"]
            /\ granted' = [granted EXCEPT ![cycle + 1] = @ + 1]
            /\ UNCHANGED <<status, optedOut>>
       [] ~Due -> UNCHANGED <<status, optedOut, elapsed, cycle, terms, order, granted>>
  /\ UNCHANGED <<psp, agreement, bound, retained, charge, seen, wish>>

-----------------------------------------------------------------------------
\* A mutant: the cycle is granted though it has been renewed.
SettleAgain(n) ==
  /\ charge[n] = "taken"
  /\ order' = [order EXCEPT ![n] = "paid"]
  /\ bound' = [bound EXCEPT ![n] = TRUE]
  /\ granted' = [granted EXCEPT ![n] = IF @ < 2 THEN @ + 1 ELSE @]
  /\ cycle' = n /\ elapsed' = FALSE /\ status' = "active"
  /\ UNCHANGED <<psp, optedOut, terms, agreement, retained, charge, worker, wish>>

\* A mutant: an event that cannot be settled is acknowledged and forgotten.
SettleOrForget(n) ==
  /\ charge[n] = "taken" /\ order[n] = "pending" /\ status \in Lifecycle
  /\ order' = [order EXCEPT ![n] = "paid"]
  /\ bound' = [bound EXCEPT ![n] = TRUE]
  /\ granted' = [granted EXCEPT ![n] = @ + 1]
  /\ cycle' = n /\ elapsed' = FALSE /\ status' = "active"
  /\ UNCHANGED <<psp, optedOut, terms, agreement, retained, charge, worker, wish>>

(***************************************************************************)
(* applyPaymentSucceeded for a renewal: a pending order of a subscription  *)
(* still alive is settled, and grants a cycle not yet reached; an order of *)
(* a dead one is refused and its event kept.                               *)
(***************************************************************************)
Settle(n) ==
  /\ charge[n] = "taken" /\ order[n] = "pending"
  /\ IF status \in Lifecycle
     THEN /\ order' = [order EXCEPT ![n] = "paid"]
          /\ bound' = [bound EXCEPT ![n] = TRUE]
          /\ retained' = [retained EXCEPT ![n] = FALSE]
          /\ IF cycle < n
             THEN /\ granted' = [granted EXCEPT ![n] = @ + 1]
                  /\ cycle' = n /\ elapsed' = FALSE /\ status' = "active"
             ELSE UNCHANGED <<granted, cycle, elapsed, status>>
     ELSE /\ retained' = [retained EXCEPT ![n] = TRUE]
          /\ UNCHANGED <<order, bound, granted, cycle, elapsed, status>>
  /\ UNCHANGED <<psp, optedOut, terms, agreement, charge, worker, wish>>

-----------------------------------------------------------------------------
\* syncTochkaCancellation: at once, best effort.
MaySync == agreement' \in IF agreement = "active" THEN {"active", "cancelled"} ELSE {agreement}

\* cancel-subscription, in one transaction.
Cancel ==
  /\ status \in Lifecycle
  /\ IF elapsed THEN status' = "canceled" /\ UNCHANGED optedOut
                ELSE optedOut' = TRUE /\ UNCHANGED status
  /\ MaySync
  /\ UNCHANGED <<psp, elapsed, cycle, terms, orders, charge, worker, wish>>

(***************************************************************************)
(* resolveElapsedSubscription, before another request acts on the row: an  *)
(* elapsed period is retired when nothing is in flight and the customer    *)
(* had opted out.                                                          *)
(***************************************************************************)
Resolve ==
  /\ Due /\ optedOut
  /\ \A n \in Cycles : order[n] # "pending"
  /\ status' = "expired"
  /\ UNCHANGED <<psp, optedOut, elapsed, cycle, terms, agreement, orders, charge, worker, wish>>

\* renew-toggle and downgrade read a row whose period runs, and write by its id.
Wish ==
  /\ wish = "none" /\ status \in Lifecycle /\ ~elapsed
  /\ wish' \in {"renew", "optout"} \cup (IF tier = "plus" THEN {"downgrade"} ELSE {})
  /\ UNCHANGED <<row, agreement, orders, charge, worker>>

Grant ==
  /\ wish # "none" /\ wish' = "none"
  /\ optedOut' = (wish = "optout")
  /\ next' = IF wish = "downgrade" THEN "start" ELSE next
  /\ IF wish = "optout" THEN MaySync ELSE UNCHANGED agreement
  /\ UNCHANGED <<psp, status, elapsed, cycle, tier, orders, charge, worker>>

\* The settlement of a paid upgrade, on a live period only.
Upgrade ==
  /\ status \in Lifecycle /\ ~elapsed /\ tier = "start"
  /\ tier' = "plus" /\ next' = "none"
  /\ UNCHANGED <<psp, status, optedOut, elapsed, cycle, agreement, orders, charge, worker, wish>>

CancelDowngrade ==
  /\ status \in Lifecycle /\ next # "none" /\ next' = "none"
  /\ UNCHANGED <<psp, status, optedOut, elapsed, cycle, tier, agreement, orders, charge, worker, wish>>

\* A mutant: only live subscriptions are looked at.
CancelLiveAgreement ==
  /\ agreement = "active" /\ status \in Lifecycle /\ optedOut
  /\ agreement' = "cancelled"
  /\ UNCHANGED <<row, orders, charge, worker, wish>>

\* The reconciliation: whatever will not be renewed is cancelled at the bank.
CancelAgreement ==
  /\ agreement = "active" /\ (status \in {"canceled", "expired"} \/ optedOut)
  /\ agreement' = "cancelled"
  /\ UNCHANGED <<row, orders, charge, worker, wish>>

Tick == Expire \/ SkipPending \/ NoAgreement \/ Insert \/ Charge
        \/ Attach \/ Recover \/ RenewStub
Customer == Cancel \/ Resolve \/ Wish \/ Grant \/ Upgrade \/ CancelDowngrade

Next == Elapse \/ Select \/ Tick \/ Crash \/ Customer \/ CancelAgreement \/ \E n \in Cycles : Settle(n)

\* The worker and the reconciliation come round, and no step of a tick crashes
\* every time; the bank repeats its event.
Spec == Init /\ [][Next]_vars
        /\ WF_vars(Select) /\ SF_vars(Tick) /\ WF_vars(CancelAgreement)
        /\ \A n \in Cycles : WF_vars(Settle(n))

-----------------------------------------------------------------------------
\* The row, its orders and the worker have their types.
TypeOK ==
  /\ psp \in {"tochka", "stub"}
  /\ status \in {"active", "past_due", "canceled", "expired"}
  /\ optedOut \in BOOLEAN /\ elapsed \in BOOLEAN /\ cycle \in 1..Last
  /\ tier \in Tiers /\ next \in {"none", "start"}
  /\ agreement \in {"none", "active", "cancelled"}
  /\ order \in [Cycles -> {"none", "pending", "paid"}] /\ bound \in [Cycles -> BOOLEAN]
  /\ charge \in [Cycles -> {"none", "taken"}]
  /\ granted \in [Cycles -> 0..2] /\ retained \in [Cycles -> BOOLEAN]
  /\ at \in {"idle", "candidate", "stub", "charging", "charged", "unknown"}
  /\ seen \in [cycle : 1..Last, optedOut : BOOLEAN]
  /\ wish \in {"none", "renew", "optout", "downgrade"}

(***************************************************************************)
(* A cycle is granted once, for a paid order, exactly when the             *)
(* subscription has reached it, and then the subscription is not past due: *)
(* no event that comes twice, no worker that starts over and none that     *)
(* learns of the charge after the webhook pays the customer a month twice, *)
(* skips one, or leaves a paid one unusable.                               *)
(***************************************************************************)
CyclesArePaidOnce ==
  /\ \A n \in Cycles :
       granted[n] = (IF n <= cycle THEN 1 ELSE 0) /\ (granted[n] = 1 => order[n] = "paid")
  /\ status = "past_due" => elapsed

(***************************************************************************)
(* As the route says, it toggles the renewal on and off: who has opted in  *)
(* has not lost the agreement to be charged under.                         *)
(***************************************************************************)
OptedInIsChargeable ==
  psp = "tochka" /\ status = "active" /\ ~optedOut => agreement # "cancelled"

Unaccounted(n) == charge[n] = "taken" /\ order[n] # "paid" /\ ~retained[n]

(***************************************************************************)
(* No renewal hangs: an elapsed period does not linger unless its charge   *)
(* is in flight; money the bank took is delivered, or kept on record as    *)
(* not deliverable; and what will not be renewed cannot be charged for     *)
(* ever.                                                                   *)
(***************************************************************************)
RenewalsConclude ==
  /\ Due ~> ~Due \/ \E n \in Cycles : order[n] = "pending"
  /\ (\E n \in Cycles : Unaccounted(n)) ~> (\A n \in Cycles : ~Unaccounted(n))
  /\ status \in {"canceled", "expired"} ~> agreement # "active"

=============================================================================
