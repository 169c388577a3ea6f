------------------------------- MODULE Billing --------------------------------
(***************************************************************************)
(* The parts of billing: a checkout, an order's refunds, a subscription's  *)
(* renewals, a user's media, the welcome programme of a device.  They share*)
(* no variable, so that nothing is learnt from interleaving them: a        *)
(* behaviour is about the part in focus, and the others rest.              *)
(***************************************************************************)
EXTENDS Naturals, FiniteSets

CONSTANTS
  Requests, ItemOf, Steady,                       \* of Checkout
  Ids, AmountOf, ByHand, Clerks, Price, Credits,  \* of Refunds
  Last,                                           \* of Renewal
  Assets,                                         \* of MediaRetention
  Users, DevicesOf, Phones, Visits, Amount, Cap,
  DailyDays, CapDays, MaxDay, None                \* of WelcomeGrants

ASSUME RefundsAssumption ==
  /\ IsFiniteSet(Ids) /\ Ids # {} /\ ByHand \subseteq Ids
  /\ Price \in Nat \ {0} /\ Credits \in Nat
  /\ AmountOf \in [Ids -> 0..Price]

ASSUME LastAssumption == Last \in Nat \ {0}

VARIABLES
  focus,
  order, claims, bound, plans, named, payment, refused, at, target, checkoutPsp,
  paidOrder, granted, clawed, plan, planNamed, late, row, amount, bank, step, op, heard, refundPsp,
  status, optedOut, elapsed, cycle, tier, next, agreement, renewal, attached, charge,
  grants, retained, worker, seen, wish, renewalPsp,
  tiered, media, live, pack, item, clock, before, object, reaping,
  day, events, clusters, anchor, visit

Checkout == INSTANCE Checkout WITH psp <- checkoutPsp

Refunds == INSTANCE Refunds WITH
  Grant <- Credits, psp <- refundPsp, order <- paidOrder, named <- planNamed, at <- step

Renewal == INSTANCE Renewal WITH
  psp <- renewalPsp, order <- renewal, bound <- attached, granted <- grants, at <- worker

Media == INSTANCE MediaRetention WITH plan <- media, row <- item

Welcome == INSTANCE WelcomeGrants

ASSUME WelcomeAssumption ==
  /\ Amount \in [Welcome!Kinds -> Nat] /\ {Cap, CapDays, DailyDays, MaxDay} \subseteq Nat
  /\ None \notin Users

checkoutVars == <<checkoutPsp, order, claims, bound, plans, named, payment, refused, at, target>>
refundsVars == <<refundPsp, paidOrder, granted, clawed, plan, planNamed, late,
                 row, amount, bank, step, op, heard>>
renewalVars == <<renewalPsp, status, optedOut, elapsed, cycle, tier, next, agreement, renewal,
                 attached, charge, grants, retained, worker, seen, wish>>
mediaVars == <<tiered, media, live, pack, item, clock, before, object, reaping>>
welcomeVars == <<day, events, clusters, anchor, visit>>
vars == <<focus, checkoutVars, refundsVars, renewalVars, mediaVars, welcomeVars>>

-----------------------------------------------------------------------------
\* Of the parts at rest, one initial state is enough.
Init ==
  /\ focus \in {"checkout", "refunds", "renewal", "media", "welcome"}
  /\ Checkout!Init /\ (focus # "checkout" => checkoutPsp = "tochka")
  /\ Refunds!Init /\ (focus # "refunds" => refundPsp = "tochka" /\ ~late)
  /\ Renewal!Init /\ (focus # "renewal" => renewalPsp = "stub")
  /\ Media!Init /\ (focus # "media" => ~tiered)
  /\ Welcome!Init

CheckoutStep ==
  /\ focus = "checkout" /\ Checkout!Next
  /\ UNCHANGED <<focus, refundsVars, renewalVars, mediaVars, welcomeVars>>

RefundsStep ==
  /\ focus = "refunds" /\ Refunds!Next
  /\ UNCHANGED <<focus, checkoutVars, renewalVars, mediaVars, welcomeVars>>

RenewalStep ==
  /\ focus = "renewal" /\ Renewal!Next
  /\ UNCHANGED <<focus, checkoutVars, refundsVars, mediaVars, welcomeVars>>

MediaStep ==
  /\ focus = "media" /\ Media!Next
  /\ UNCHANGED <<focus, checkoutVars, refundsVars, renewalVars, welcomeVars>>

WelcomeStep ==
  /\ focus = "welcome" /\ Welcome!Next
  /\ UNCHANGED <<focus, checkoutVars, refundsVars, renewalVars, mediaVars>>

Next == CheckoutStep \/ RefundsStep \/ RenewalStep \/ MediaStep \/ WelcomeStep

\* The fairness of each part's own specification, while it is in focus.
Fairness ==
  /\ \A o \in Requests : /\ WF_checkoutVars(focus = "checkout" /\ Checkout!Settle(o))
                         /\ WF_checkoutVars(focus = "checkout" /\ Checkout!Cancel(o))
  /\ \A f \in Ids : WF_refundsVars(focus = "refunds" /\ Refunds!Reconcile(f))
  /\ WF_renewalVars(focus = "renewal" /\ Renewal!Select)
  /\ SF_renewalVars(focus = "renewal" /\ Renewal!Tick)
  /\ WF_renewalVars(focus = "renewal" /\ Renewal!CancelAgreement)
  /\ \A n \in 2..Last : WF_renewalVars(focus = "renewal" /\ Renewal!Settle(n))

Spec == Init /\ [][Next]_vars /\ Fairness

-----------------------------------------------------------------------------
\* Every part's variables have their types.
TypesOK ==
  Checkout!TypeOK /\ Refunds!TypeOK /\ Renewal!TypeOK /\ Media!TypeOK /\ Welcome!TypeOK

\* No customer faces two payments of one checkout that can both be paid.
OnePayable == Checkout!OnePayable

\* A paid order is never buried, and makes one subscription.
PaidIsPlannedOnce == Checkout!PaidIsPlannedOnce

\* Money that arrived is delivered; a cancelled payment frees its subject.
PaymentsConclude == Checkout!PaymentsConclude

\* What refunds took back is the rounded share of what was refunded; a plan
\* outlives a full refund only where a late note erased its name.
ClawbackMatchesRefunds == Refunds!ClawbackMatchesRefunds

\* A refund that was made is applied, a refused one releases its amount.
RefundsConclude == Refunds!RefundsConclude

\* A cycle is granted once, for a paid order, as the subscription reaches it.
CyclesArePaidOnce == Renewal!CyclesArePaidOnce

\* No renewal hangs, no money is forgotten, no agreement outlives its plan.
RenewalsConclude == Renewal!RenewalsConclude

\* Whoever was never charged, or lost plan and refunded pack, stores nothing for ever.
FreeMediaHasAClock == Media!FreeMediaHasAClock

\* No race for the welcome programme's grants gives more than was meant.
GiftIsBounded == Welcome!GiftIsBounded

\* Who has opted in can be charged.  (The renewal toggle promises it; false.)
OptedInIsChargeable == Renewal!OptedInIsChargeable

\* The order of a delivered plan names it.  (A comment says so; false.)
DeliveredPlanIsBound == Checkout!DeliveredPlanIsBound

\* What a paying user has on show never expires.  (A comment says so; false.)
PaidIsPermanent == Media!PaidIsPermanent

=============================================================================
