------------------------------ MODULE Checkout ------------------------------
(***************************************************************************)
(* The checkout of one subject: the subscription of one user.  A request   *)
(* claims the subject by inserting a pending order, or resumes the order   *)
(* that holds it, or stands a dead one aside; then it asks the payment     *)
(* provider for a payment, whose idempotency key is the order's id.  The   *)
(* provider's events settle or bury the order, in any order and more than  *)
(* once.                                                                   *)
(*                                                                         *)
(* A request's own order carries the request's name.  Nothing is locked    *)
(* across the calls to the provider: each is a step between two statements.*)
(***************************************************************************)
EXTENDS Naturals, FiniteSets

CONSTANTS
  Requests,    \* calls of POST /v1/billing/subscribe
  ItemOf,      \* the tier each request asks for
  Steady       \* YooKassa answers every create of one order alike

VARIABLES
  psp,         \* the configured provider: Tochka, or YooKassa
  order,       \* orders.our_status of the order
  claims,      \* its intent_key is set
  bound,       \* its psp_payment_id is set
  plans,       \* subscriptions its settlement created
  named,       \* its metadata names the subscription it created
  payment,     \* the order's payment at the provider
  refused,     \* the provider has refused to create it
  at,          \* the handler's step
  target       \* the order the handler found or drives

vars == <<psp, order, claims, bound, plans, named, payment, refused, at, target>>
local == <<order, claims, bound, plans, named>>
provider == <<psp, payment, refused>>

Live(o) == order[o] = "pending" /\ claims[o]
Goto(r, step) == at' = [at EXCEPT ![r] = step]
Drive(r, o) == Goto(r, "driving") /\ target' = [target EXCEPT ![r] = o]

-----------------------------------------------------------------------------
Init ==
  /\ psp \in {"tochka", "yookassa"}
  /\ order = [r \in Requests |-> "none"]
  /\ claims = [r \in Requests |-> FALSE]
  /\ bound = [r \in Requests |-> FALSE]
  /\ plans = [r \in Requests |-> 0]
  /\ named = [r \in Requests |-> FALSE]
  /\ payment = [r \in Requests |-> "none"]
  /\ refused = [r \in Requests |-> FALSE]
  /\ at = [r \in Requests |-> "idle"]
  /\ target = [r \in Requests |-> r]

\* A subscriber is turned away before anything is written.
Check(r) ==
  /\ at[r] = "idle"
  /\ Goto(r, IF \E o \in Requests : order[o] = "paid" THEN "done" ELSE "checked")
  /\ UNCHANGED <<local, provider, target>>

\* claimBillingIntent: the insert, against the partial unique index.
Claim(r) ==
  /\ at[r] \in {"checked", "again"}
  /\ IF \E o \in Requests : Live(o)
     THEN /\ Goto(r, IF at[r] = "checked" THEN "beaten" ELSE "rebeaten")
          /\ UNCHANGED <<local, target>>
     ELSE /\ order' = [order EXCEPT ![r] = "pending"]
          /\ claims' = [claims EXCEPT ![r] = TRUE]
          /\ Drive(r, r)
          /\ UNCHANGED <<bound, plans, named>>
  /\ UNCHANGED provider

\* isResumable: never bound to a payment, and for the tier now asked for.
Resumable(r, o) == ~bound[o] /\ ItemOf[o] = ItemOf[r]

\* The loser reads the order in its way: resume it, ask about it, or refuse.
LookUp(r) ==
  /\ at[r] \in {"beaten", "rebeaten"}
  /\ \/ (\A o \in Requests : ~Live(o)) /\ Goto(r, "done") /\ UNCHANGED target
     \/ \E o \in Requests :
          /\ Live(o)
          /\ \/ Resumable(r, o) /\ Drive(r, o)
             \/ /\ bound[o] /\ at[r] = "beaten"
                /\ Goto(r, "asking") /\ target' = [target EXCEPT ![r] = o]
             \/ ~Resumable(r, o) /\ Goto(r, "done") /\ UNCHANGED target
  /\ UNCHANGED <<local, provider>>

\* A mutant: an unpaid payment counts as dead.
AskHasty(r) ==
  /\ at[r] = "asking"
  /\ Goto(r, IF payment[target[r]] \in {"open", "canceled"} THEN "dead" ELSE "refused")
  /\ UNCHANGED <<local, provider, target>>

(***************************************************************************)
(* releaseIfPaymentIsDead: only a payment reported as "canceled" is dead.  *)
(* Tochka's answer carries its status elsewhere and in other words, so it  *)
(* never is.  The question may fail.                                       *)
(***************************************************************************)
Ask(r) ==
  /\ at[r] = "asking"
  /\ \/ Goto(r, IF payment[target[r]] = "canceled" /\ psp = "yookassa"
                 THEN "dead" ELSE "refused")
     \/ Goto(r, "done")
  /\ UNCHANGED <<local, provider, target>>

\* The tombstone, unless the order was settled or buried meanwhile.
Bury(r) ==
  /\ at[r] = "dead"
  /\ IF order[target[r]] = "pending"
     THEN order' = [order EXCEPT ![target[r]] = "failed"] /\ Goto(r, "again")
     ELSE UNCHANGED order /\ Goto(r, "done")
  /\ UNCHANGED <<claims, bound, plans, named, provider, target>>

\* A mutant: a create whose outcome is unknown frees the subject as well.
CreateReleasing(r) ==
  LET o == target[r]
  IN  /\ at[r] = "driving"
      /\ payment' = [payment EXCEPT ![o] = IF @ = "none" THEN "open" ELSE @]
      /\ Goto(r, "created") \/ Goto(r, "rejected")
      /\ UNCHANGED <<psp, local, target, refused>>

(***************************************************************************)
(* createPayment.  The provider makes the order's payment, or answers with *)
(* the one it has, as YooKassa does for an Idempotence-Key and Tochka, it  *)
(* is assumed, for a paymentLinkId; or refuses (Tochka's refusals are not  *)
(* told from failures); or the call or its answer is lost.                 *)
(***************************************************************************)
Create(r) ==
  LET o == target[r]
      made == [payment EXCEPT ![o] = IF @ = "none" THEN "open" ELSE @]
  IN  /\ at[r] = "driving"
      /\ \/ /\ Steady => ~refused[o]
            /\ payment' = made
            /\ Goto(r, "created") \/ Goto(r, "done")
            /\ UNCHANGED refused
         \/ /\ psp = "yookassa"
            /\ Steady => payment[o] = "none"
            /\ refused' = [refused EXCEPT ![o] = TRUE]
            /\ Goto(r, "rejected")
            /\ UNCHANGED payment
         \/ Goto(r, "done") /\ UNCHANGED <<payment, refused>>
      /\ UNCHANGED <<psp, local, target>>

\* releaseBillingIntent: the create was refused, so the subject is free.
Release(r) ==
  /\ at[r] = "rejected"
  /\ claims' = [claims EXCEPT ![target[r]] = @ /\ order[target[r]] # "pending"]
  /\ Goto(r, "done")
  /\ UNCHANGED <<order, bound, plans, named, provider, target>>

\* attachPspPayment: a pending, unbound order only; the update may fail.
Attach(r) ==
  /\ at[r] = "created"
  /\ \/ /\ order[target[r]] = "pending"
        /\ bound' = [bound EXCEPT ![target[r]] = TRUE]
     \/ UNCHANGED bound
  /\ Goto(r, IF psp = "tochka" THEN "attached" ELSE "done")
  /\ UNCHANGED <<order, claims, plans, named, provider, target>>

\* With Tochka the order's metadata is then replaced, whatever it became.
Annotate(r) ==
  /\ at[r] = "attached"
  /\ named' = [named EXCEPT ![target[r]] = FALSE]
  /\ Goto(r, "done")
  /\ UNCHANGED <<order, claims, bound, plans, provider, target>>

Crash(r) ==
  /\ at[r] \notin {"idle", "refused", "done"}
  /\ Goto(r, "done")
  /\ UNCHANGED <<local, provider, target>>

-----------------------------------------------------------------------------
\* The customer pays, or the payment is cancelled unpaid, which is final.
Finish(o, fate) ==
  /\ payment[o] = "open"
  /\ payment' = [payment EXCEPT ![o] = fate]
  /\ UNCHANGED <<psp, local, refused, at, target>>

\* A mutant: an order that is no longer pending is settled all the same.
SettleAgain(o) ==
  /\ payment[o] = "succeeded" /\ order[o] # "none"
  /\ bound' = [bound EXCEPT ![o] = TRUE]
  /\ order' = [order EXCEPT ![o] = "paid"]
  /\ plans' = [plans EXCEPT ![o] = IF @ < 2 THEN @ + 1 ELSE @]
  /\ named' = [named EXCEPT ![o] = TRUE]
  /\ UNCHANGED <<claims, provider, at, target>>

(***************************************************************************)
(* applyPaymentSucceeded, from the webhook or the reconciliation: found by *)
(* the payment's id or, after asking the provider, by the order's.  Binds; *)
(* only a pending order is settled.                                        *)
(***************************************************************************)
Settle(o) ==
  /\ payment[o] = "succeeded" /\ order[o] # "none"
  /\ bound' = [bound EXCEPT ![o] = TRUE]
  /\ IF order[o] = "pending"
     THEN /\ order' = [order EXCEPT ![o] = "paid"]
          /\ plans' = [plans EXCEPT ![o] = @ + 1]
          /\ named' = [named EXCEPT ![o] = TRUE]
     ELSE UNCHANGED <<order, plans, named>>
  /\ UNCHANGED <<claims, provider, at, target>>

\* A mutant: the cancelled payment is looked up by its own id alone.
CancelBound(o) ==
  /\ payment[o] = "canceled" /\ psp = "yookassa" /\ bound[o]
  /\ order' = [order EXCEPT ![o] = IF @ = "pending" THEN "failed" ELSE @]
  /\ UNCHANGED <<claims, bound, plans, named, provider, at, target>>

\* reversePaymentGrant on a cancelled payment, found the same two ways.
Cancel(o) ==
  /\ payment[o] = "canceled" /\ psp = "yookassa"
  /\ bound' = [bound EXCEPT ![o] = TRUE]
  /\ order' = [order EXCEPT ![o] = IF @ = "pending" THEN "failed" ELSE @]
  /\ UNCHANGED <<claims, plans, named, provider, at, target>>

Handle(r) ==
  \/ Check(r) \/ Claim(r) \/ LookUp(r) \/ Ask(r) \/ Bury(r) \/ Create(r)
  \/ Release(r) \/ Attach(r) \/ Annotate(r) \/ Crash(r)

Next == \E r \in Requests :
  \/ Handle(r) \/ Settle(r) \/ Cancel(r)
  \/ Finish(r, "succeeded") \/ Finish(r, "canceled")

\* Handlers may stop and customers may leave; an event is sent until it is taken.
Spec == Init /\ [][Next]_vars /\ \A o \in Requests : WF_vars(Settle(o)) /\ WF_vars(Cancel(o))

-----------------------------------------------------------------------------
\* Orders, payments and handlers have their types.
TypeOK ==
  /\ psp \in {"tochka", "yookassa"}
  /\ order \in [Requests -> {"none", "pending", "paid", "failed"}]
  /\ claims \in [Requests -> BOOLEAN] /\ bound \in [Requests -> BOOLEAN]
  /\ plans \in [Requests -> 0..2]
  /\ named \in [Requests -> BOOLEAN]
  /\ payment \in [Requests -> {"none", "open", "succeeded", "canceled"}]
  /\ refused \in [Requests -> BOOLEAN]
  /\ at \in [Requests -> {"idle", "checked", "again", "beaten", "rebeaten", "asking",
                          "refused", "dead", "driving", "rejected", "created", "attached", "done"}]
  /\ target \in [Requests -> Requests]

(***************************************************************************)
(* The customer never faces two payments that can both be paid: the order  *)
(* that holds the subject gives it up only when its payment cannot be paid *)
(* any more.                                                               *)
(***************************************************************************)
OnePayable == \A o, p \in Requests : payment[o] = "open" /\ payment[p] = "open" => o = p

(***************************************************************************)
(* However its events and the probe race, a paid order is never buried,    *)
(* and makes one subscription when it settles, however often it is told.   *)
(***************************************************************************)
PaidIsPlannedOnce ==
  \A o \in Requests :
    /\ payment[o] = "succeeded" => order[o] \in {"pending", "paid"}
    /\ plans[o] = (IF order[o] = "paid" THEN 1 ELSE 0)

(***************************************************************************)
(* As the comment in the settlement says, a delivered subscription is      *)
(* bound to its source order, so that a refund can revoke the very plan    *)
(* this payment created.                                                   *)
(***************************************************************************)
DeliveredPlanIsBound == \A o \in Requests : order[o] = "paid" => named[o]

\* The payment has ended, and its order does not know.
Unheard(o) ==
  \/ payment[o] = "succeeded" /\ order[o] # "paid"
  \/ payment[o] = "canceled" /\ psp = "yookassa" /\ Live(o)

(***************************************************************************)
(* Money that arrived is delivered, whatever became of the request that    *)
(* asked for it; and a checkout whose payment YooKassa cancelled stops     *)
(* blocking its subject.                                                   *)
(***************************************************************************)
PaymentsConclude == (\E o \in Requests : Unheard(o)) ~> (\A o \in Requests : ~Unheard(o))

=============================================================================
