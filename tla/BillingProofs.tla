----------------------------- MODULE BillingProofs -----------------------------
(***************************************************************************)
(* Proofs about billing: about each part on its own, and from there about  *)
(* the whole, of which a step is a step of one part while the others rest. *)
(***************************************************************************)
EXTENDS Billing, TLAPS, FiniteSetTheorems, TallyProofs

-----------------------------------------------------------------------------
\* A step is a step of the part in focus, and leaves every other part alone.
LEMMA StepsOfCheckout == [Next]_vars => Checkout!Next \/ UNCHANGED checkoutVars
  BY DEF vars, Next, CheckoutStep, RefundsStep, RenewalStep, MediaStep, WelcomeStep

LEMMA StepsOfRefunds == [Next]_vars => Refunds!Next \/ UNCHANGED refundsVars
  BY DEF vars, Next, CheckoutStep, RefundsStep, RenewalStep, MediaStep, WelcomeStep

LEMMA StepsOfRenewal == [Next]_vars => Renewal!Next \/ UNCHANGED renewalVars
  BY DEF vars, Next, CheckoutStep, RefundsStep, RenewalStep, MediaStep, WelcomeStep

LEMMA StepsOfMedia == [Next]_vars => Media!Next \/ UNCHANGED mediaVars
  BY DEF vars, Next, CheckoutStep, RefundsStep, RenewalStep, MediaStep, WelcomeStep

LEMMA StepsOfWelcome == [Next]_vars => Welcome!Next \/ UNCHANGED welcomeVars
  BY DEF vars, Next, CheckoutStep, RefundsStep, RenewalStep, MediaStep, WelcomeStep

-----------------------------------------------------------------------------
(***************************************************************************)
(* The checkout.  An order's status and its payment's never contradict     *)
(* each other: what ends an order looks at the payment that a handler, a   *)
(* webhook or the reconciliation has seen end, and payments end once.      *)
(***************************************************************************)
Before == {"idle", "checked", "again", "beaten", "rebeaten", "asking", "dead"}
Driving == {"driving", "created", "rejected", "attached"}

OrderFits(o) ==
  /\ order[o] = "none" => payment[o] = "none" /\ ~claims[o]
  /\ order[o] = "paid" => payment[o] = "succeeded"
  /\ order[o] = "failed" => payment[o] = "canceled"
  /\ plans[o] = (IF order[o] = "paid" THEN 1 ELSE 0)

HandlerFits(r) ==
  /\ at[r] \in Before => order[r] = "none"
  /\ at[r] \in Driving => order[target[r]] # "none"
  /\ at[r] = "dead" => payment[target[r]] = "canceled"

OrdersFollowPayments ==
  /\ Checkout!TypeOK
  /\ \A o \in Requests : OrderFits(o)
  /\ \A r \in Requests : HandlerFits(r)

LEMMA CheckoutInit == Checkout!Init => OrdersFollowPayments
  BY DEF Checkout!Init, OrdersFollowPayments, Checkout!TypeOK, OrderFits, HandlerFits,
         Before, Driving

LEMMA OrdersRest ==
  OrdersFollowPayments /\ UNCHANGED checkoutVars => OrdersFollowPayments'
  BY DEF OrdersFollowPayments, Checkout!TypeOK, OrderFits, HandlerFits, checkoutVars

LEMMA CheckoutKeepsOrders ==
  OrdersFollowPayments /\ Checkout!Next => OrdersFollowPayments'
<1> SUFFICES ASSUME OrdersFollowPayments, Checkout!Next PROVE OrdersFollowPayments'
  OBVIOUS
<1> USE DEF OrdersFollowPayments, Checkout!TypeOK, OrderFits, HandlerFits, Before, Driving,
            Checkout!local, Checkout!provider, Checkout!Goto, Checkout!Drive
<1>1. ASSUME NEW r \in Requests, Checkout!Check(r) PROVE OrdersFollowPayments'
  BY <1>1 DEF Checkout!Check
<1>2. ASSUME NEW r \in Requests, Checkout!Claim(r) PROVE OrdersFollowPayments'
  <2>1. UNCHANGED <<bound, plans, named, payment, refused, checkoutPsp>>
    BY <1>2 DEF Checkout!Claim
  <2>2. order[r] = "none" /\ at[r] \in {"checked", "again"}
    BY <1>2 DEF Checkout!Claim
  <2>3. CASE \E o \in Requests : Checkout!Live(o)
    <3>1. /\ at' \in {[at EXCEPT ![r] = "beaten"], [at EXCEPT ![r] = "rebeaten"]}
          /\ UNCHANGED <<order, claims, target>>
      BY <1>2, <2>3 DEF Checkout!Claim
    <3>2. QED BY <2>1, <2>2, <3>1
  <2>4. CASE ~ \E o \in Requests : Checkout!Live(o)
    <3>1. /\ order' = [order EXCEPT ![r] = "pending"]
          /\ claims' = [claims EXCEPT ![r] = TRUE]
          /\ at' = [at EXCEPT ![r] = "driving"]
          /\ target' = [target EXCEPT ![r] = r]
      BY <1>2, <2>4 DEF Checkout!Claim
    <3>2. Checkout!TypeOK'
      BY <2>1, <2>2, <3>1
    <3>3. \A o \in Requests : OrderFits(o)'
      BY <2>1, <2>2, <3>1
    <3>4. \A q \in Requests : HandlerFits(q)'
      BY <2>1, <2>2, <3>1
    <3>5. QED BY <3>2, <3>3, <3>4
  <2>5. QED BY <2>3, <2>4
<1>3. ASSUME NEW r \in Requests, Checkout!LookUp(r) PROVE OrdersFollowPayments'
  BY <1>3 DEF Checkout!LookUp, Checkout!Live, Checkout!Resumable
<1>4. ASSUME NEW r \in Requests, Checkout!Ask(r) PROVE OrdersFollowPayments'
  BY <1>4 DEF Checkout!Ask
<1>5. ASSUME NEW r \in Requests, Checkout!Bury(r) PROVE OrdersFollowPayments'
  BY <1>5 DEF Checkout!Bury
<1>6. ASSUME NEW r \in Requests, Checkout!Create(r) PROVE OrdersFollowPayments'
  <2> DEFINE o == target[r]
  <2>1. /\ o \in Requests /\ order[o] # "none"
        /\ UNCHANGED <<checkoutPsp, order, claims, bound, plans, named, target>>
    BY <1>6 DEF Checkout!Create
  <2>2. \/ payment' = [payment EXCEPT ![o] = IF payment[o] = "none" THEN "open" ELSE payment[o]]
        \/ UNCHANGED payment
    BY <1>6 DEF Checkout!Create
  <2>3. at' \in {[at EXCEPT ![r] = "created"], [at EXCEPT ![r] = "done"],
                [at EXCEPT ![r] = "rejected"]}
    BY <1>6 DEF Checkout!Create
  <2>10. UNCHANGED refused \/ refused' = [refused EXCEPT ![o] = TRUE]
    BY <1>6 DEF Checkout!Create
  <2>4. at[r] = "driving"
    BY <1>6 DEF Checkout!Create
  <2>5. \A q \in Requests :
          payment'[q] = IF q = o /\ payment[q] = "none" THEN payment'[q] ELSE payment[q]
    BY <2>1, <2>2
  <2>6. Checkout!TypeOK'
    <3>1. payment' \in [Requests -> {"none", "open", "succeeded", "canceled"}]
      BY <2>1, <2>2
    <3>2. at' \in [Requests -> {"idle", "checked", "again", "beaten", "rebeaten", "asking",
                               "refused", "dead", "driving", "rejected", "created", "attached", "done"}]
      BY <2>3
    <3>3. refused' \in [Requests -> BOOLEAN]
      <4>1. refused \in [Requests -> BOOLEAN]
        OBVIOUS
      <4>2. [refused EXCEPT ![o] = TRUE] \in [Requests -> BOOLEAN]
        BY <4>1, Zenon
      <4>3. QED BY <2>10, <4>1, <4>2, Zenon
    <3>4. QED BY <2>1, <3>1, <3>2, <3>3
  <2> HIDE DEF o
  <2>7. \A q \in Requests : OrderFits(q)'
    BY <2>1, <2>5
  <2>8. \A q \in Requests : HandlerFits(q)'
    BY <2>1, <2>3, <2>4, <2>5 DEF o
  <2>9. QED BY <2>6, <2>7, <2>8
<1>7. ASSUME NEW r \in Requests, Checkout!Release(r) PROVE OrdersFollowPayments'
  BY <1>7 DEF Checkout!Release
<1>8. ASSUME NEW r \in Requests, Checkout!Attach(r) PROVE OrdersFollowPayments'
  BY <1>8 DEF Checkout!Attach
<1>9. ASSUME NEW r \in Requests, Checkout!Annotate(r) PROVE OrdersFollowPayments'
  BY <1>9 DEF Checkout!Annotate
<1>10. ASSUME NEW r \in Requests, Checkout!Crash(r) PROVE OrdersFollowPayments'
  BY <1>10 DEF Checkout!Crash
<1>11. ASSUME NEW o \in Requests, Checkout!Settle(o) PROVE OrdersFollowPayments'
  <2>1. /\ payment[o] = "succeeded" /\ order[o] # "none"
        /\ bound' = [bound EXCEPT ![o] = TRUE]
        /\ UNCHANGED <<claims, checkoutPsp, payment, refused, at, target>>
    BY <1>11 DEF Checkout!Settle
  <2>2. CASE order[o] = "pending"
    <3>1. /\ order' = [order EXCEPT ![o] = "paid"]
          /\ plans' = [plans EXCEPT ![o] = plans[o] + 1]
          /\ named' = [named EXCEPT ![o] = TRUE]
      BY <1>11, <2>2 DEF Checkout!Settle
    <3>2. plans[o] = 0
      BY <2>2
    <3>3. plans' = [plans EXCEPT ![o] = 1]
      BY <3>1, <3>2
    <3>4. QED BY <2>1, <2>2, <3>1, <3>3
  <2>3. CASE order[o] # "pending"
    <3>1. UNCHANGED <<order, plans, named>>
      BY <1>11, <2>3 DEF Checkout!Settle
    <3>2. QED BY <2>1, <3>1
  <2>4. QED BY <2>2, <2>3
<1>12. ASSUME NEW o \in Requests, Checkout!Cancel(o) PROVE OrdersFollowPayments'
  BY <1>12 DEF Checkout!Cancel
<1>13. ASSUME NEW o \in Requests, NEW fate \in {"succeeded", "canceled"},
              Checkout!Finish(o, fate)
       PROVE  OrdersFollowPayments'
  BY <1>13 DEF Checkout!Finish
<1>14. QED
  BY <1>1, <1>2, <1>3, <1>4, <1>5, <1>6, <1>7, <1>8, <1>9, <1>10, <1>11, <1>12, <1>13
     DEF Checkout!Next, Checkout!Handle

(***************************************************************************)
(* One order at most holds the subject.  It lets go of it when its payment *)
(* has ended, or when the provider refused to make one; and a provider     *)
(* that answers alike every time never makes that payment later.           *)
(***************************************************************************)
OneLive ==
  /\ \A o, p \in Requests : Checkout!Live(o) /\ Checkout!Live(p) => o = p
  /\ \A o \in Requests : /\ refused[o] => payment[o] = "none"
                         /\ order[o] = "pending" /\ ~claims[o] => refused[o]
  /\ \A r \in Requests : at[r] = "rejected" => refused[target[r]]

LEMMA OneLiveInit == Checkout!Init => OneLive
  BY DEF Checkout!Init, OneLive, Checkout!Live

LEMMA OneLiveRests == OneLive /\ UNCHANGED checkoutVars => OneLive'
  BY DEF OneLive, Checkout!Live, checkoutVars

LEMMA CheckoutKeepsOneLive ==
  ASSUME Steady
  PROVE  OrdersFollowPayments /\ OneLive /\ Checkout!Next => OneLive'
<1> SUFFICES ASSUME OrdersFollowPayments, OneLive, Checkout!Next PROVE OneLive'
  OBVIOUS
<1> USE DEF OneLive, OrdersFollowPayments, Checkout!TypeOK, Checkout!Live, OrderFits,
            HandlerFits, Before, Driving, Checkout!local, Checkout!provider, Checkout!Goto,
            Checkout!Drive
<1>1. ASSUME NEW r \in Requests, Checkout!Check(r) PROVE OneLive'
  BY <1>1 DEF Checkout!Check
<1>2. ASSUME NEW r \in Requests, Checkout!Claim(r) PROVE OneLive'
  <2>1. UNCHANGED <<payment, refused>> /\ order[r] = "none" /\ at[r] \in {"checked", "again"}
    BY <1>2 DEF Checkout!Claim
  <2>2. CASE \E o \in Requests : Checkout!Live(o)
    <3>1. /\ at' \in {[at EXCEPT ![r] = "beaten"], [at EXCEPT ![r] = "rebeaten"]}
          /\ UNCHANGED <<order, claims, target>>
      BY <1>2, <2>2 DEF Checkout!Claim
    <3>2. QED BY <2>1, <3>1
  <2>3. CASE ~ \E o \in Requests : Checkout!Live(o)
    <3>1. /\ order' = [order EXCEPT ![r] = "pending"]
          /\ claims' = [claims EXCEPT ![r] = TRUE]
          /\ at' = [at EXCEPT ![r] = "driving"]
          /\ target' = [target EXCEPT ![r] = r]
      BY <1>2, <2>3 DEF Checkout!Claim
    <3>2. QED BY <2>1, <2>3, <3>1
  <2>4. QED BY <2>2, <2>3
<1>3. ASSUME NEW r \in Requests, Checkout!LookUp(r) PROVE OneLive'
  BY <1>3 DEF Checkout!LookUp, Checkout!Resumable
<1>4. ASSUME NEW r \in Requests, Checkout!Ask(r) PROVE OneLive'
  BY <1>4 DEF Checkout!Ask
<1>5. ASSUME NEW r \in Requests, Checkout!Bury(r) PROVE OneLive'
  BY <1>5 DEF Checkout!Bury
<1>6. ASSUME NEW r \in Requests, Checkout!Create(r) PROVE OneLive'
  <2> DEFINE o == target[r]
  <2>1. o \in Requests /\ UNCHANGED <<order, claims, target>>
    BY <1>6 DEF Checkout!Create
  <2>2. CASE /\ ~refused[o] /\ UNCHANGED refused
             /\ payment' = [payment EXCEPT ![o] = IF payment[o] = "none" THEN "open" ELSE payment[o]]
             /\ at' \in {[at EXCEPT ![r] = "created"], [at EXCEPT ![r] = "done"]}
    BY <2>1, <2>2
  <2>3. CASE /\ payment[o] = "none" /\ UNCHANGED payment
             /\ refused' = [refused EXCEPT ![o] = TRUE]
             /\ at' = [at EXCEPT ![r] = "rejected"]
    BY <2>1, <2>3
  <2>4. CASE UNCHANGED <<payment, refused>> /\ at' = [at EXCEPT ![r] = "done"]
    BY <2>1, <2>4
  <2>5. QED
    BY <1>6, <2>2, <2>3, <2>4 DEF Checkout!Create
<1>7. ASSUME NEW r \in Requests, Checkout!Release(r) PROVE OneLive'
  BY <1>7 DEF Checkout!Release
<1>8. ASSUME NEW r \in Requests, Checkout!Attach(r) PROVE OneLive'
  BY <1>8 DEF Checkout!Attach
<1>9. ASSUME NEW r \in Requests, Checkout!Annotate(r) PROVE OneLive'
  BY <1>9 DEF Checkout!Annotate
<1>10. ASSUME NEW r \in Requests, Checkout!Crash(r) PROVE OneLive'
  BY <1>10 DEF Checkout!Crash
<1>11. ASSUME NEW o \in Requests, Checkout!Settle(o) PROVE OneLive'
  BY <1>11 DEF Checkout!Settle
<1>12. ASSUME NEW o \in Requests, Checkout!Cancel(o) PROVE OneLive'
  BY <1>12 DEF Checkout!Cancel
<1>13. ASSUME NEW o \in Requests, NEW fate \in {"succeeded", "canceled"},
              Checkout!Finish(o, fate)
       PROVE  OneLive'
  BY <1>13 DEF Checkout!Finish
<1>14. QED
  BY <1>1, <1>2, <1>3, <1>4, <1>5, <1>6, <1>7, <1>8, <1>9, <1>10, <1>11, <1>12, <1>13
     DEF Checkout!Next, Checkout!Handle

LEMMA OrdersFollow == Spec => []OrdersFollowPayments
<1>1. Init => OrdersFollowPayments
  BY CheckoutInit DEF Init
<1>2. OrdersFollowPayments /\ [Next]_vars => OrdersFollowPayments'
  BY StepsOfCheckout, OrdersRest, CheckoutKeepsOrders
<1>3. QED
  BY <1>1, <1>2, PTL DEF Spec

(***************************************************************************)
(* A paid order is never buried, and makes one subscription when it        *)
(* settles, however the events of the provider, the probe of a dead        *)
(* payment and the requests race, whether the provider is steady or not.   *)
(***************************************************************************)
THEOREM PaidOrdersArePlannedOnce == Spec => []PaidIsPlannedOnce
<1>1. OrdersFollowPayments => PaidIsPlannedOnce
  BY DEF OrdersFollowPayments, OrderFits, PaidIsPlannedOnce, Checkout!PaidIsPlannedOnce,
         Checkout!TypeOK
<1>2. QED
  BY <1>1, OrdersFollow, PTL

(***************************************************************************)
(* No customer faces two payments of one checkout that can both be paid,   *)
(* however many requests and crashes, from a provider that answers every   *)
(* create of one order alike: an open payment is the payment of the one    *)
(* order that holds the subject.                                           *)
(***************************************************************************)
THEOREM OnePaymentIsPayable ==
  ASSUME Steady
  PROVE  Spec => []OnePayable
<1>1. Init => OneLive
  BY OneLiveInit DEF Init
<1>2. OrdersFollowPayments /\ OneLive /\ [Next]_vars => OneLive'
  BY Steady, StepsOfCheckout, OneLiveRests, CheckoutKeepsOneLive
<1>3. OrdersFollowPayments /\ OneLive => OnePayable
  <2>1. SUFFICES ASSUME OrdersFollowPayments, OneLive,
                        NEW o \in Requests, NEW p \in Requests,
                        payment[o] = "open", payment[p] = "open"
                 PROVE  o = p
    BY DEF OnePayable, Checkout!OnePayable
  <2>2. \A q \in {o, p} : Checkout!Live(q)
    BY <2>1 DEF OrdersFollowPayments, OneLive, OrderFits, Checkout!TypeOK, Checkout!Live
  <2>3. QED
    BY <2>1, <2>2 DEF OneLive
<1>4. QED
  BY <1>1, <1>2, <1>3, OrdersFollow, PTL DEF Spec

-----------------------------------------------------------------------------
(***************************************************************************)
(* The media.  The property is inductive with the types: a payment puts    *)
(* its premise out of force, and every step that brings it into force      *)
(* starts the clocks.                                                      *)
(***************************************************************************)
MediaInv == Media!TypeOK /\ Media!FreeMediaHasAClock

LEMMA MediaInit == Media!Init => MediaInv
  BY DEF Media!Init, MediaInv, Media!TypeOK, Media!FreeMediaHasAClock, Media!Shown

LEMMA MediaRests == MediaInv /\ UNCHANGED mediaVars => MediaInv'
  BY DEF MediaInv, Media!TypeOK, Media!FreeMediaHasAClock, Media!Shown, mediaVars

LEMMA MediaKeepsClocks == MediaInv /\ Media!Next => MediaInv'
<1> SUFFICES ASSUME MediaInv, Media!Next PROVE MediaInv'
  OBVIOUS
<1> USE DEF MediaInv, Media!TypeOK, Media!FreeMediaHasAClock, Media!Shown, Media!account,
            Media!media, Media!Paid, Media!Expiry, Media!Promote, Media!Demote
<1>1. CASE Media!Subscribe
  BY <1>1 DEF Media!Subscribe
<1>2. CASE Media!PeriodEnds
  BY <1>2 DEF Media!PeriodEnds
<1>3. CASE Media!FallDue
  BY <1>3 DEF Media!FallDue
<1>4. CASE Media!Renew
  BY <1>4 DEF Media!Renew
<1>5. CASE Media!EndPlan
  BY <1>5 DEF Media!EndPlan
<1>6. CASE Media!BuyPack
  BY <1>6 DEF Media!BuyPack
<1>7. CASE Media!RefundPart
  BY <1>7 DEF Media!RefundPart
<1>8. CASE Media!RefundPack
  BY <1>8 DEF Media!RefundPack
<1>9. CASE Media!CancelPack
  BY <1>9 DEF Media!CancelPack
<1>10. CASE Media!DeleteRows
  BY <1>10 DEF Media!DeleteRows
<1>11. CASE Media!RollBack
  BY <1>11 DEF Media!RollBack
<1>12. ASSUME NEW a \in Assets, Media!Produce(a) PROVE MediaInv'
  BY <1>12 DEF Media!Produce
<1>13. ASSUME NEW a \in Assets, Media!Delete(a) PROVE MediaInv'
  BY <1>13 DEF Media!Delete
<1>14. ASSUME NEW a \in Assets, Media!Restore(a) PROVE MediaInv'
  BY <1>14 DEF Media!Restore
<1>15. ASSUME NEW a \in Assets, Media!Elapse(a) PROVE MediaInv'
  BY <1>15 DEF Media!Elapse
<1>16. ASSUME NEW batch \in SUBSET Assets, Media!Pick(batch) PROVE MediaInv'
  BY <1>16 DEF Media!Pick
<1>17. ASSUME NEW batch \in SUBSET Assets, Media!Remove(batch) PROVE MediaInv'
  BY <1>17 DEF Media!Remove
<1>18. QED
  BY <1>1, <1>2, <1>3, <1>4, <1>5, <1>6, <1>7, <1>8, <1>9, <1>10, <1>11, <1>12, <1>13, <1>14,
     <1>15, <1>16, <1>17
     DEF Media!Next, Media!Settlements

LEMMA MediaHold == Spec => []MediaInv
<1>1. Init => MediaInv
  BY MediaInit DEF Init
<1>2. MediaInv /\ [Next]_vars => MediaInv'
  BY StepsOfMedia, MediaRests, MediaKeepsClocks
<1>3. QED
  BY <1>1, <1>2, PTL DEF Spec

(***************************************************************************)
(* Whoever was never charged, or whose plan has ended and whose pack was   *)
(* refunded whole, stores nothing for ever: however deletions, undos, the  *)
(* ends of plan and pack, cancelled payments and the reaper interleave,    *)
(* whatever is on show has its clock again, of any number of assets.       *)
(***************************************************************************)
THEOREM FreeMediaExpire == Spec => []FreeMediaHasAClock
<1>1. MediaInv => FreeMediaHasAClock
  BY DEF MediaInv, FreeMediaHasAClock
<1>2. QED
  BY <1>1, MediaHold, PTL

-----------------------------------------------------------------------------
(***************************************************************************)
(* The renewals.  A renewal order is pending only for the next cycle of a  *)
(* period that has elapsed, so that whoever settles it, advances the       *)
(* cycle by one; and whoever calls the subscription past due still has the *)
(* elapsed period before him, because nothing but a settled charge starts  *)
(* a new one at Tochka, and no charge is made without an agreement.        *)
(***************************************************************************)
WorkerFits ==
  /\ worker \in {"candidate", "charging", "charged", "unknown"} =>
       seen.cycle < Last /\ renewalPsp = "tochka"
  /\ worker = "stub" => renewalPsp = "stub"
  /\ worker = "candidate" /\ agreement = "none" => elapsed

CyclesFollowCharges ==
  /\ Renewal!TypeOK
  /\ Renewal!CyclesArePaidOnce
  /\ elapsed => cycle < Last
  /\ WorkerFits
  /\ \A n \in Renewal!Cycles :
       /\ renewal[n] = "pending" => n = cycle + 1 /\ elapsed /\ renewalPsp = "tochka"
       /\ charge[n] = "taken" => agreement # "none"

LEMMA RenewalInit == Renewal!Init => CyclesFollowCharges
<1> SUFFICES ASSUME Renewal!Init PROVE CyclesFollowCharges
  OBVIOUS
<1> USE LastAssumption DEF Renewal!Init, Renewal!Cycles, Renewal!Tiers
<1>1. agreement \in {"none", "active"}
  <2>1. CASE renewalPsp = "tochka"
    BY <2>1
  <2>2. CASE renewalPsp # "tochka"
    BY <2>2
  <2>3. QED BY <2>1, <2>2
<1>2. Renewal!TypeOK
  <2>1. attached \in [2..Last -> BOOLEAN] /\ retained \in [2..Last -> BOOLEAN]
    BY Zenon
  <2>4. optedOut \in BOOLEAN /\ elapsed \in BOOLEAN
    BY Zenon
  <2>5. seen \in [cycle : 1..Last, optedOut : BOOLEAN]
    OBVIOUS
  <2>2. /\ renewal \in [2..Last -> {"none", "pending", "paid"}]
        /\ charge \in [2..Last -> {"none", "taken"}] /\ grants \in [2..Last -> 0..2]
    OBVIOUS
  <2>3. QED BY <1>1, <2>1, <2>2, <2>4, <2>5 DEF Renewal!TypeOK
<1>3. Renewal!CyclesArePaidOnce
  BY DEF Renewal!CyclesArePaidOnce
<1>4. QED
  BY <1>2, <1>3 DEF CyclesFollowCharges, WorkerFits

LEMMA RenewalRests == CyclesFollowCharges /\ UNCHANGED renewalVars => CyclesFollowCharges'
  BY DEF CyclesFollowCharges, Renewal!TypeOK, Renewal!CyclesArePaidOnce, WorkerFits, renewalVars

\* What the stub's transaction, a settlement and a cancellation do in each case.
LEMMA StubRenews ==
  ASSUME Renewal!RenewStub, Renewal!Due, ~optedOut
  PROVE  /\ next' = "none" /\ cycle' = cycle + 1 /\ ~elapsed' /\ elapsed' \in BOOLEAN
         /\ renewal' = [renewal EXCEPT ![cycle + 1] = "paid"]
         /\ grants' = [grants EXCEPT ![cycle + 1] = grants[cycle + 1] + 1]
         /\ tier' = tier \/ (next # "none" /\ tier' = next)
         /\ UNCHANGED <<status, optedOut>>
  BY Zenon DEF Renewal!RenewStub

LEMMA SettlementRenews ==
  ASSUME NEW n, Renewal!Settle(n), status \in Renewal!Lifecycle, cycle < n
  PROVE  /\ renewal' = [renewal EXCEPT ![n] = "paid"]
         /\ attached' = [attached EXCEPT ![n] = TRUE]
         /\ retained' = [retained EXCEPT ![n] = FALSE]
         /\ grants' = [grants EXCEPT ![n] = grants[n] + 1]
         /\ cycle' = n /\ ~elapsed' /\ elapsed' \in BOOLEAN /\ status' = "active"
  BY Zenon DEF Renewal!Settle

LEMMA CancellationCancels ==
  ASSUME Renewal!Cancel, optedOut \in BOOLEAN
  PROVE  /\ UNCHANGED <<renewalPsp, elapsed, cycle, tier, next, renewal, attached, grants,
                        retained, charge, worker, seen, wish>>
         /\ status' \in {status, "canceled"} /\ optedOut' \in BOOLEAN
         /\ status \in {"active", "past_due"}
         /\ agreement' = agreement \/ (agreement = "active" /\ agreement' = "cancelled")
<1>1. UNCHANGED <<renewalPsp, elapsed, cycle, tier, next, renewal, attached, grants,
                  retained, charge, worker, seen, wish>>
  BY DEF Renewal!Cancel, Renewal!orders, Renewal!worker, Renewal!terms
<1>2. status' \in {status, "canceled"} /\ optedOut' \in BOOLEAN
  BY Zenon DEF Renewal!Cancel
<1>3. status \in {"active", "past_due"}
  BY DEF Renewal!Cancel, Renewal!Lifecycle
<1>4. agreement' = agreement \/ (agreement = "active" /\ agreement' = "cancelled")
  BY Zenon DEF Renewal!Cancel, Renewal!MaySync
<1>5. QED BY <1>1, <1>2, <1>3, <1>4

LEMMA RenewalKeepsCycles == CyclesFollowCharges /\ Renewal!Next => CyclesFollowCharges'
<1> SUFFICES ASSUME CyclesFollowCharges, Renewal!Next PROVE CyclesFollowCharges'
  OBVIOUS
<1> USE LastAssumption
    DEF CyclesFollowCharges, Renewal!TypeOK, Renewal!CyclesArePaidOnce, WorkerFits,
        Renewal!Cycles, Renewal!Tiers, Renewal!Lifecycle, Renewal!Due, Renewal!terms,
        Renewal!row, Renewal!orders, Renewal!worker, Renewal!MaySync
<1>1. CASE Renewal!Elapse
  BY <1>1 DEF Renewal!Elapse
<1>2. CASE Renewal!Select
  BY <1>2 DEF Renewal!Select
<1>3. CASE Renewal!Expire
  BY <1>3 DEF Renewal!Expire
<1>4. CASE Renewal!SkipPending
  BY <1>4 DEF Renewal!SkipPending
<1>5. CASE Renewal!NoAgreement
  BY <1>5 DEF Renewal!NoAgreement
<1>6. CASE Renewal!Insert
  BY <1>6 DEF Renewal!Insert
<1>7. CASE Renewal!Charge
  BY <1>7 DEF Renewal!Charge
<1>8. CASE Renewal!Attach
  BY <1>8 DEF Renewal!Attach
<1>9. CASE Renewal!Recover
  BY <1>9 DEF Renewal!Recover
<1>10. CASE Renewal!RenewStub
  <2>1. /\ worker = "stub" /\ worker' = "idle"
        /\ UNCHANGED <<renewalPsp, agreement, attached, retained, charge, seen, wish>>
    BY <1>10 DEF Renewal!RenewStub
  <2>2. CASE Renewal!Due /\ optedOut
    BY <1>10, <2>1, <2>2 DEF Renewal!RenewStub
  <2>3. CASE ~Renewal!Due
    BY <1>10, <2>1, <2>3 DEF Renewal!RenewStub
  <2>4. CASE Renewal!Due /\ ~optedOut
    <3>1. /\ next' = "none" /\ cycle' = cycle + 1 /\ ~elapsed' /\ elapsed' \in BOOLEAN
          /\ renewal' = [renewal EXCEPT ![cycle + 1] = "paid"]
          /\ grants' = [grants EXCEPT ![cycle + 1] = grants[cycle + 1] + 1]
          /\ tier' = tier \/ (next # "none" /\ tier' = next)
          /\ UNCHANGED <<status, optedOut>>
      BY <1>10, <2>4, StubRenews
    <3>3. elapsed /\ status = "active" /\ cycle + 1 \in 2..Last /\ grants[cycle + 1] = 0
      BY <2>4
    <3>4. QED BY <2>1, <3>1, <3>3
  <2>5. QED BY <2>2, <2>3, <2>4
<1>11. CASE Renewal!Crash
  BY <1>11 DEF Renewal!Crash
<1>12. ASSUME NEW n \in Renewal!Cycles, Renewal!Settle(n) PROVE CyclesFollowCharges'
  <2>1. /\ charge[n] = "taken" /\ n = cycle + 1 /\ elapsed /\ renewalPsp = "tochka"
        /\ renewal[n] = "pending" /\ agreement # "none" /\ grants[n] = 0
        /\ UNCHANGED <<renewalPsp, optedOut, tier, next, agreement, charge, worker, seen, wish>>
    BY <1>12 DEF Renewal!Settle
  <2>2. CASE status \in {"active", "past_due"}
    <3>1. /\ renewal' = [renewal EXCEPT ![n] = "paid"]
          /\ attached' = [attached EXCEPT ![n] = TRUE]
          /\ retained' = [retained EXCEPT ![n] = FALSE]
          /\ grants' = [grants EXCEPT ![n] = grants[n] + 1]
          /\ cycle' = n /\ ~elapsed' /\ elapsed' \in BOOLEAN /\ status' = "active"
      BY <1>12, <2>1, <2>2, SettlementRenews
    <3>2. QED BY <2>1, <3>1
  <2>3. CASE status \notin {"active", "past_due"}
    <3>1. /\ retained' = [retained EXCEPT ![n] = TRUE]
          /\ UNCHANGED <<renewal, attached, grants, cycle, elapsed, status>>
      BY <1>12, <2>3 DEF Renewal!Settle
    <3>2. QED BY <2>1, <3>1
  <2>4. QED BY <2>2, <2>3
<1>13. CASE Renewal!Cancel
  BY <1>13, CancellationCancels
<1>14. CASE Renewal!Resolve
  BY <1>14 DEF Renewal!Resolve
<1>15. CASE Renewal!Wish
  BY <1>15 DEF Renewal!Wish
<1>16. CASE Renewal!Grant
  BY <1>16 DEF Renewal!Grant
<1>17. CASE Renewal!Upgrade
  BY <1>17 DEF Renewal!Upgrade
<1>18. CASE Renewal!CancelDowngrade
  BY <1>18 DEF Renewal!CancelDowngrade
<1>19. CASE Renewal!CancelAgreement
  BY <1>19 DEF Renewal!CancelAgreement
<1>20. QED
  BY <1>1, <1>2, <1>3, <1>4, <1>5, <1>6, <1>7, <1>8, <1>9, <1>10, <1>11, <1>12, <1>13,
     <1>14, <1>15, <1>16, <1>17, <1>18, <1>19
     DEF Renewal!Next, Renewal!Tick, Renewal!Customer

LEMMA RenewalHolds == Spec => []CyclesFollowCharges
<1>1. Init => CyclesFollowCharges
  BY RenewalInit DEF Init
<1>2. CyclesFollowCharges /\ [Next]_vars => CyclesFollowCharges'
  BY StepsOfRenewal, RenewalRests, RenewalKeepsCycles
<1>3. QED
  BY <1>1, <1>2, PTL DEF Spec

(***************************************************************************)
(* Of any number of cycles, each is granted once, for a paid order, as the *)
(* subscription reaches it: no event that comes twice, no worker that      *)
(* starts over and none that learns of a charge after the webhook pays the *)
(* customer a month twice, skips one, or leaves a paid one past due.       *)
(***************************************************************************)
THEOREM EveryCycleIsPaidOnce == Spec => []CyclesArePaidOnce
<1>1. CyclesFollowCharges => CyclesArePaidOnce
  BY DEF CyclesFollowCharges, CyclesArePaidOnce
<1>2. QED
  BY <1>1, RenewalHolds, PTL

-----------------------------------------------------------------------------
(***************************************************************************)
(* The refunds.  First the share: what is refunded in full is taken back   *)
(* in full, nothing for nothing, and more for more.                        *)
(***************************************************************************)
LEMMA DivisionGrows ==
  ASSUME NEW a \in Nat, NEW b \in Nat, NEW d \in Nat \ {0}, a <= b
  PROVE  a \div d \in Nat /\ a \div d <= b \div d
  OBVIOUS

LEMMA DivisionRounds ==
  ASSUME NEW q \in Nat, NEW r \in Nat, NEW d \in Nat \ {0}, r < d
  PROVE  (q * d + r) \div d = q
  OBVIOUS

LEMMA ShareGrows ==
  ASSUME NEW x \in Nat, NEW y \in Nat, x <= y
  PROVE  Refunds!Share(x) \in Nat /\ Refunds!Share(x) <= Refunds!Share(y)
  BY RefundsAssumption, DivisionGrows DEF Refunds!Share

LEMMA ShareOfAll ==
  /\ Refunds!Share(0) = 0 /\ Refunds!Share(Price) = Credits
  BY RefundsAssumption, DivisionRounds DEF Refunds!Share

\* A sum over more of the refunds is no smaller.
LEMMA SumsOfRefunds ==
  ASSUME NEW g \in [Ids -> 0..Price], NEW C \in SUBSET Ids, NEW B \in SUBSET C
  PROVE  /\ SumFunctionOnSet(g, B) \in Nat /\ SumFunctionOnSet(g, C) \in Nat
         /\ SumFunctionOnSet(g, B) <= SumFunctionOnSet(g, C)
<1>1. IsFiniteSet(C) /\ \A f \in C : g[f] \in Nat
  BY RefundsAssumption, FS_Subset
<1>2. QED
  BY <1>1, SumNat, SumGrows

LEMMA SumIsTheSum ==
  ASSUME NEW g, NEW B
  PROVE  Refunds!SumFunctionOnSet(g, B) = SumFunctionOnSet(g, B)
  BY Zenon DEF Refunds!SumFunctionOnSet, Refunds!FoldFunctionOnSet, Refunds!MapThenFoldSet,
               SumFunctionOnSet, FoldFunctionOnSet, MapThenFoldSet

(***************************************************************************)
(* What the rows and the clerks know is what the bank did, and the bank    *)
(* returns no more than the price; so the confirmed refunds never exceed   *)
(* it, and a clawback up to their share never exceeds the grant.           *)
(***************************************************************************)
Applied == {f \in Ids : row[f] \in {"applied"}}
Confirmed == {f \in Ids : row[f] \in {"confirmed", "applied"}}
Taken == {f \in Ids : bank[f] \in {"waiting", "done"}}

RowsFollowBank ==
  \A f \in Ids : /\ row[f] \in {"confirmed", "applied"} => bank[f] = "done"
                 /\ f \notin ByHand /\ row[f] = "none" => bank[f] = "none"

ClerksFit ==
  \A c \in Clerks :
    /\ step[c] # "idle" => op[c] \notin ByHand /\ row[op[c]] # "none"
    /\ heard[c] = "done" \/ step[c] = "reversing" => bank[op[c]] = "done"
    /\ heard[c] # "nothing" => step[c] = "hearing"

BankIsBounded == SumFunctionOnSet(amount, Taken) <= Price

\* Before the success is heard nothing is granted, taken back or applied.
BooksFit ==
  /\ paidOrder = "pending" => granted = 0 /\ plan = "none" /\ Applied = {}
  /\ granted = 0 => clawed = 0
  /\ granted > 0 =>
       IF paidOrder = "failed" THEN clawed = granted
       ELSE clawed \in Refunds!Share(SumFunctionOnSet(amount, Applied))
                         .. Refunds!Share(SumFunctionOnSet(amount, Confirmed))
  /\ paidOrder = "refunded" => clawed = granted

\* The plan is named by its order, unless Tochka's late note has erased the name;
\* then it outlives a full refund.
PlanFits ==
  /\ late => refundPsp = "tochka"
  /\ plan = "active" => planNamed \/ (refundPsp = "tochka" /\ ~late)
  /\ paidOrder = "refunded" /\ plan = "active" => ~planNamed

RefundsFit == Refunds!TypeOK /\ RowsFollowBank /\ ClerksFit /\ BankIsBounded /\ BooksFit

LEMMA BooksFitMeans == BooksFit /\ PlanFits => Refunds!ClawbackMatchesRefunds
  BY SumIsTheSum
     DEF BooksFit, PlanFits, Refunds!ClawbackMatchesRefunds, Refunds!Sum, Refunds!In, Applied, Confirmed

LEMMA RefundsInit == Refunds!Init => RefundsFit
<1> SUFFICES ASSUME Refunds!Init PROVE RefundsFit
  OBVIOUS
<1> USE RefundsAssumption DEF Refunds!Init
<1>1. Refunds!TypeOK
  <2>1. (CHOOSE f \in Ids : TRUE) \in Ids
    OBVIOUS
  <2>2. op \in [Clerks -> Ids]
    BY <2>1
  <2>3. planNamed \in BOOLEAN /\ late \in BOOLEAN
    BY Zenon
  <2>4. /\ refundPsp \in {"tochka", "yookassa"}
        /\ paidOrder \in Refunds!Refundable \cup {"pending", "failed"}
        /\ granted \in {0, Credits} /\ clawed \in 0..Credits
        /\ plan \in {"none", "active", "canceled"}
    BY DEF Refunds!Refundable
  <2>5. /\ row \in [Ids -> {"none", "pending", "confirmed", "applied", "rejected"}]
        /\ amount \in [Ids -> 0..Price]
        /\ bank \in [Ids -> {"none", "waiting", "done", "refused"}]
        /\ step \in [Clerks -> {"idle", "asking", "hearing", "reversing"}]
        /\ heard \in [Clerks -> {"nothing", "waiting", "done", "refused"}]
    OBVIOUS
  <2>6. QED BY <2>2, <2>3, <2>4, <2>5, Zenon DEF Refunds!TypeOK
<1>2. Applied = {} /\ Taken = {}
  BY DEF Applied, Taken
<1>3. BankIsBounded
  BY <1>2, SumOfNone DEF BankIsBounded
<1>4. QED
  BY <1>1, <1>2, <1>3 DEF RefundsFit, RowsFollowBank, ClerksFit, BooksFit

LEMMA RefundsRest == RefundsFit /\ UNCHANGED refundsVars => RefundsFit'
<1> SUFFICES ASSUME RefundsFit, UNCHANGED refundsVars PROVE RefundsFit'
  OBVIOUS
<1>1. UNCHANGED <<refundPsp, paidOrder, granted, clawed, plan, planNamed, late, row, amount, bank,
                  step, op, heard>>
  BY DEF refundsVars
<1>2. Refunds!TypeOK' /\ RowsFollowBank' /\ ClerksFit'
  BY <1>1 DEF RefundsFit, Refunds!TypeOK, RowsFollowBank, ClerksFit
<1>3. BankIsBounded'
  BY <1>1 DEF RefundsFit, BankIsBounded, Taken
<1>4. BooksFit'
  BY <1>1 DEF RefundsFit, BooksFit, Applied, Confirmed, Refunds!Share
<1>5. QED BY <1>2, <1>3, <1>4 DEF RefundsFit

LEMMA ConfirmedAreTaken ==
  ASSUME Refunds!TypeOK, RowsFollowBank, BankIsBounded
  PROVE  /\ Applied \subseteq Confirmed /\ Confirmed \subseteq Taken /\ Taken \subseteq Ids
         /\ \A B \in SUBSET Taken :
              SumFunctionOnSet(amount, B) \in Nat /\ SumFunctionOnSet(amount, B) <= Price
<1>1. Applied \subseteq Confirmed /\ Confirmed \subseteq Taken /\ Taken \subseteq Ids
  BY DEF Applied, Confirmed, Taken, RowsFollowBank
<1>2. ASSUME NEW B \in SUBSET Taken
      PROVE  SumFunctionOnSet(amount, B) \in Nat /\ SumFunctionOnSet(amount, B) <= Price
  <2>1. amount \in [Ids -> 0..Price]
    BY DEF Refunds!TypeOK
  <2>2. /\ SumFunctionOnSet(amount, B) \in Nat /\ SumFunctionOnSet(amount, Taken) \in Nat
        /\ SumFunctionOnSet(amount, B) <= SumFunctionOnSet(amount, Taken)
    BY <1>1, <2>1, SumsOfRefunds
  <2>3. QED BY <2>2, RefundsAssumption DEF BankIsBounded
<1>3. QED BY <1>1, <1>2

\* More confirmed refunds only leave more room for the clawback.
LEMMA BooksKept ==
  ASSUME Refunds!TypeOK, BooksFit, UNCHANGED <<paidOrder, granted, clawed, plan>>,
         Applied' = Applied, Confirmed \subseteq Confirmed',
         amount' \in [Ids -> 0..Price], \A f \in Confirmed : amount'[f] = amount[f]
  PROVE  BooksFit'
<1>1. Applied \subseteq Confirmed /\ Confirmed \subseteq Ids /\ Confirmed' \subseteq Ids
  BY DEF Applied, Confirmed
<1>2. IsFiniteSet(Confirmed) /\ IsFiniteSet(Applied)
  BY <1>1, RefundsAssumption, FS_Subset
<1>3. /\ SumFunctionOnSet(amount', Applied) = SumFunctionOnSet(amount, Applied)
      /\ SumFunctionOnSet(amount', Confirmed) = SumFunctionOnSet(amount, Confirmed)
  BY <1>1, <1>2, SumSame
<1>4. /\ SumFunctionOnSet(amount', Confirmed) \in Nat /\ SumFunctionOnSet(amount', Confirmed') \in Nat
      /\ SumFunctionOnSet(amount', Confirmed) <= SumFunctionOnSet(amount', Confirmed')
      /\ SumFunctionOnSet(amount', Applied) \in Nat
  BY <1>1, SumsOfRefunds
<1> DEFINE lo == Refunds!Share(SumFunctionOnSet(amount, Applied))
           hi == Refunds!Share(SumFunctionOnSet(amount, Confirmed))
           higher == Refunds!Share(SumFunctionOnSet(amount', Confirmed'))
<1>5. lo \in Nat /\ hi \in Nat /\ higher \in Nat /\ hi <= higher
  BY <1>3, <1>4, ShareGrows
<1>6. clawed \in Nat
  BY RefundsAssumption DEF Refunds!TypeOK
<1>7. clawed \in lo .. hi => clawed \in lo .. higher
  <2> HIDE DEF lo, hi, higher
  <2>1. QED BY <1>5, <1>6
<1>8. higher = Refunds!Share(SumFunctionOnSet(amount, Confirmed))'
  BY DEF Refunds!Share
<1>9. lo = Refunds!Share(SumFunctionOnSet(amount, Applied))'
  BY <1>3 DEF Refunds!Share
<1>10. clawed' \in lo .. higher <=> clawed' \in Refunds!Share(SumFunctionOnSet(amount, Applied))'
                                     .. Refunds!Share(SumFunctionOnSet(amount, Confirmed))'
  BY <1>8, <1>9
<1> HIDE DEF lo, hi, higher
<1>11. granted > 0 => IF paidOrder = "failed" THEN clawed = granted ELSE clawed \in lo .. hi
  BY DEF BooksFit, lo, hi
<1>12. QED
  BY <1>7, <1>10, <1>11 DEF BooksFit

(***************************************************************************)
(* The reversal brings the clawback up to the share of all that is         *)
(* confirmed with this refund, whoever calls it and however often.         *)
(***************************************************************************)
LEMMA ReversalFits ==
  ASSUME RefundsFit, NEW f \in Ids, bank[f] = "done", Refunds!Reverse(f),
         UNCHANGED <<amount, bank>>
  PROVE  /\ BooksFit' /\ RowsFollowBank' /\ BankIsBounded'
         /\ \A g \in Ids : row[g] # "none" => row'[g] # "none"
         /\ UNCHANGED <<refundPsp, granted, planNamed, late>>
         /\ paidOrder' \in Refunds!Refundable \cup {"pending", "failed"}
         /\ clawed' \in 0..Credits /\ plan' \in {"none", "active", "canceled"}
         /\ PlanFits => PlanFits'
         /\ row' \in [Ids -> {"none", "pending", "confirmed", "applied", "rejected"}]
<1> USE DEF RefundsFit
<1>1. BankIsBounded'
  BY DEF BankIsBounded, Taken
<1>2. amount \in [Ids -> 0..Price] /\ amount' = amount
  BY DEF Refunds!TypeOK
<1>3. CASE row[f] = "applied"
  <2>1. UNCHANGED <<refundPsp, paidOrder, granted, clawed, plan, planNamed, late, row>>
    BY <1>3 DEF Refunds!Reverse, Refunds!books
  <2>2. Applied' = Applied /\ Confirmed' = Confirmed
    BY <2>1 DEF Applied, Confirmed
  <2>3. BooksFit'
    BY <1>2, <2>1, <2>2, BooksKept
  <2>4. RowsFollowBank'
    BY <2>1 DEF RowsFollowBank
  <2>5. PlanFits => PlanFits'
    BY <2>1 DEF PlanFits
  <2>6. QED BY <1>1, <2>1, <2>3, <2>4, <2>5 DEF Refunds!TypeOK
<1>4. CASE row[f] # "applied"
  <2> DEFINE C == Confirmed \cup {f}
             m == SumFunctionOnSet(amount, C)
             owed == Refunds!Share(m)
  <2>1. Refunds!Apply(f, Refunds!Owed(f)) /\ UNCHANGED <<refundPsp, granted, planNamed, late>>
    BY <1>4 DEF Refunds!Reverse, Refunds!fixed
  <2>2. Refunds!Sum(Refunds!In({"confirmed", "applied"}) \cup {f}) = m
    BY SumIsTheSum DEF Refunds!Sum, Refunds!In, Confirmed
  <2>3. Refunds!Owed(f) = owed
    BY <2>2 DEF Refunds!Owed
  <2>4. /\ row' = [row EXCEPT ![f] = "applied"]
        /\ paidOrder' = IF paidOrder \in Refunds!Refundable \cup {"pending"}
                        THEN IF m >= Price THEN "refunded" ELSE "partially_refunded"
                        ELSE paidOrder
        /\ clawed' = IF paidOrder \in Refunds!Refundable /\ granted > 0 /\ owed > clawed
                     THEN owed ELSE clawed
        /\ plan' = IF paidOrder \in Refunds!Refundable /\ m >= Price /\ planNamed /\ plan = "active"
                   THEN "canceled" ELSE plan
    BY <2>1, <2>2, <2>3, Zenon DEF Refunds!Apply
  <2>5. Applied' = Applied \cup {f} /\ Confirmed' = C
    BY <2>4 DEF Applied, Confirmed, Refunds!TypeOK
  <2>6. C \subseteq Taken /\ Applied' \subseteq C /\ Confirmed \subseteq C /\ C \subseteq Ids
    BY <2>5, ConfirmedAreTaken DEF Taken
  <2>7. m \in Nat /\ m <= Price
    BY <2>6, ConfirmedAreTaken
  <2>8. /\ SumFunctionOnSet(amount, Applied') \in Nat /\ SumFunctionOnSet(amount, Applied') <= m
        /\ SumFunctionOnSet(amount, Confirmed) \in Nat /\ SumFunctionOnSet(amount, Confirmed) <= m
    BY <1>2, <2>6, SumsOfRefunds
  <2> DEFINE lo == Refunds!Share(SumFunctionOnSet(amount, Applied'))
             hi == Refunds!Share(SumFunctionOnSet(amount, Confirmed))
             least == Refunds!Share(SumFunctionOnSet(amount, Applied))
  <2>9. lo \in Nat /\ hi \in Nat /\ owed \in Nat /\ lo <= owed /\ hi <= owed
    BY <2>7, <2>8, ShareGrows
  <2>10. owed <= Credits /\ (m >= Price => owed = Credits)
    BY <2>7, ShareGrows, ShareOfAll, RefundsAssumption
  <2>11. lo = Refunds!Share(SumFunctionOnSet(amount, Applied))'
    BY <1>2 DEF Refunds!Share
  <2>12. owed = Refunds!Share(SumFunctionOnSet(amount, Confirmed))'
    BY <1>2, <2>5 DEF Refunds!Share
  <2>13. /\ clawed \in 0..Credits /\ granted \in {0, Credits} /\ Credits \in Nat
         /\ paidOrder \in {"paid", "partially_refunded", "refunded", "pending", "failed"}
         /\ plan \in {"none", "active", "canceled"}
    BY RefundsAssumption DEF Refunds!TypeOK, Refunds!Refundable
  <2>14. /\ paidOrder = "pending" => granted = 0 /\ plan = "none"
         /\ granted = 0 => clawed = 0
         /\ granted > 0 => IF paidOrder = "failed" THEN clawed = granted
                           ELSE clawed \in least .. hi
         /\ paidOrder = "refunded" => clawed = granted
    BY DEF BooksFit
  <2>15. least \in Nat
    <3>1. SumFunctionOnSet(amount, Applied) \in Nat
      BY ConfirmedAreTaken
    <3>2. QED BY <3>1, ShareGrows
  <2> HIDE DEF C, m, owed, lo, hi, least
  <2>16. clawed' \in 0..Credits /\ plan' \in {"none", "active", "canceled"}
    BY <2>4, <2>9, <2>10, <2>13
  <2>17. /\ paidOrder' # "pending"
         /\ paidOrder' \in Refunds!Refundable \cup {"pending", "failed"}
    BY <2>4, <2>13 DEF Refunds!Refundable
  <2>18. granted = 0 => clawed' = 0
    BY <2>4, <2>13, <2>14
  <2>19. granted > 0 => IF paidOrder' = "failed" THEN clawed' = granted ELSE clawed' \in lo .. owed
    BY <2>4, <2>9, <2>13, <2>14, <2>15 DEF Refunds!Refundable
  <2>20. paidOrder' = "refunded" => clawed' = granted
    BY <2>4, <2>9, <2>10, <2>13, <2>14, <2>15 DEF Refunds!Refundable
  <2>21. BooksFit'
    BY <2>1, <2>11, <2>12, <2>17, <2>18, <2>19, <2>20 DEF BooksFit
  <2>22. RowsFollowBank' /\ \A g \in Ids : row[g] # "none" => row'[g] # "none"
    BY <2>4 DEF RowsFollowBank, Refunds!TypeOK
  <2>23. row' \in [Ids -> {"none", "pending", "confirmed", "applied", "rejected"}]
    BY <2>4 DEF Refunds!TypeOK
  <2>24. PlanFits => PlanFits'
    BY <2>1, <2>4, <2>13, <2>14 DEF PlanFits, Refunds!Refundable
  <2>25. QED
    BY <1>1, <2>1, <2>16, <2>17, <2>21, <2>22, <2>23, <2>24
<1>5. QED BY <1>3, <1>4

LEMMA RefundsKeep == RefundsFit /\ Refunds!Next => RefundsFit'
<1> SUFFICES ASSUME RefundsFit, Refunds!Next PROVE RefundsFit'
  OBVIOUS
<1> USE RefundsAssumption
    DEF RefundsFit, Refunds!TypeOK, Refunds!books, Refunds!fixed, Refunds!clerk, Refunds!Goto,
        Refunds!Refundable
<1>1. CASE Refunds!Succeed
  <2>1. /\ paidOrder = "pending" /\ paidOrder' = "paid" /\ granted' = Credits /\ plan' = "active"
        /\ planNamed' = TRUE /\ UNCHANGED <<refundPsp, clawed, late, row, amount, bank, step, op, heard>>
    BY <1>1 DEF Refunds!Succeed
  <2>2. Applied' = {} /\ Confirmed' = Confirmed /\ clawed' = 0
    BY <2>1 DEF BooksFit, Applied, Confirmed
  <2>3. BankIsBounded' /\ RowsFollowBank' /\ ClerksFit'
    BY <2>1 DEF BankIsBounded, Taken, RowsFollowBank, ClerksFit
  <2>4. Refunds!TypeOK'
    BY <2>1
  <2> DEFINE hi == Refunds!Share(SumFunctionOnSet(amount, Confirmed))
  <2>5. hi \in Nat
    BY ConfirmedAreTaken, ShareGrows
  <2>6. Refunds!Share(SumFunctionOnSet(amount, Confirmed))' = hi
    BY <2>1, <2>2 DEF Refunds!Share
  <2>7. Refunds!Share(SumFunctionOnSet(amount, Applied))' = 0
    <3>1. SumFunctionOnSet(amount', Applied') = 0
      BY <2>2, SumOfNone
    <3>2. QED BY <3>1, ShareOfAll DEF Refunds!Share
  <2> HIDE DEF hi
  <2>8. BooksFit'
    BY <2>1, <2>2, <2>5, <2>6, <2>7 DEF BooksFit
  <2>9. QED BY <2>3, <2>4, <2>8
<1>2. CASE Refunds!Cancel
  <2>1. /\ paidOrder' = "failed" /\ clawed' = granted
        /\ UNCHANGED <<Refunds!fixed, plan, row, amount, bank, step, op, heard>>
    BY <1>2 DEF Refunds!Cancel
  <2>2. BankIsBounded' /\ RowsFollowBank' /\ ClerksFit'
    BY <2>1 DEF BankIsBounded, Taken, RowsFollowBank, ClerksFit
  <2>3. BooksFit'
    BY <2>1 DEF BooksFit
  <2>4. QED BY <2>1, <2>2, <2>3
<1>3. ASSUME NEW f \in Ids, Refunds!Report(f) PROVE RefundsFit'
  <2>1. bank[f] = "done" /\ Refunds!Reverse(f) /\ UNCHANGED <<amount, bank, step, op, heard>>
    BY <1>3 DEF Refunds!Report
  <2>2. ClerksFit'
    BY <2>1, ReversalFits DEF ClerksFit
  <2>3. QED BY <2>1, <2>2, ReversalFits
<1>4. ASSUME NEW f \in Ids, Refunds!ObserveRefusal(f) PROVE RefundsFit'
  <2>1. /\ row[f] = "pending" /\ row' = [row EXCEPT ![f] = "rejected"]
        /\ UNCHANGED <<Refunds!books, amount, bank, step, op, heard>>
    BY <1>4 DEF Refunds!ObserveRefusal
  <2>2. Applied' = Applied /\ Confirmed' = Confirmed
    BY <2>1 DEF Applied, Confirmed
  <2>3. BooksFit'
    BY <2>1, <2>2, BooksKept
  <2>4. BankIsBounded' /\ RowsFollowBank' /\ ClerksFit'
    BY <2>1 DEF BankIsBounded, Taken, RowsFollowBank, ClerksFit
  <2>5. QED BY <2>1, <2>3, <2>4
<1>5. ASSUME NEW f \in Ids, Refunds!Decide(f) PROVE RefundsFit'
  <2>1. /\ bank[f] = "waiting" /\ bank' \in {[bank EXCEPT ![f] = "done"], [bank EXCEPT ![f] = "refused"]}
        /\ UNCHANGED <<Refunds!books, row, amount, step, op, heard>>
    BY <1>5 DEF Refunds!Decide
  <2>2. BooksFit'
    BY <2>1, BooksKept DEF Applied, Confirmed
  <2>3. Taken' \subseteq Taken /\ Taken \subseteq Ids
    BY <2>1 DEF Taken
  <2>4. BankIsBounded'
    BY <2>1, <2>3, SumsOfRefunds DEF BankIsBounded
  <2>5. RowsFollowBank' /\ ClerksFit'
    BY <2>1 DEF RowsFollowBank, ClerksFit
  <2>6. QED BY <2>1, <2>2, <2>4, <2>5
<1>6. ASSUME NEW f \in Ids, Refunds!RefundByHand(f) PROVE RefundsFit'
  <2>1. /\ f \in ByHand /\ bank[f] = "none" /\ Refunds!Fits(f) /\ bank' = [bank EXCEPT ![f] = "done"]
        /\ UNCHANGED <<Refunds!books, row, amount, step, op, heard>>
    BY <1>6 DEF Refunds!RefundByHand
  <2>2. BooksFit'
    BY <2>1, BooksKept DEF Applied, Confirmed
  <2>3. Taken' = Taken \cup {f}
    BY <2>1 DEF Taken
  <2>4. BankIsBounded'
    BY <2>1, <2>3, SumIsTheSum DEF BankIsBounded, Refunds!Fits, Refunds!Sum, Taken
  <2>5. RowsFollowBank' /\ ClerksFit'
    BY <2>1 DEF RowsFollowBank, ClerksFit
  <2>6. QED BY <2>1, <2>2, <2>4, <2>5
<1>7. ASSUME NEW c \in Clerks, Refunds!Ask(c) PROVE RefundsFit'
  <2> DEFINE f == op[c]
  <2>1. PICK fate \in {"waiting", "done", "refused"} :
          /\ bank[f] # "none" => fate = bank[f]
          /\ fate # "refused" => Refunds!Fits(f)
          /\ bank' = [bank EXCEPT ![f] = fate]
          /\ \E answer \in {fate, "nothing"} : heard' = [heard EXCEPT ![c] = answer]
    BY <1>7 DEF Refunds!Ask
  <2>2. /\ f \in Ids /\ step[c] = "asking" /\ step' = [step EXCEPT ![c] = "hearing"]
        /\ UNCHANGED <<Refunds!books, row, amount, op>>
    BY <1>7 DEF Refunds!Ask
  <2>3. BooksFit'
    BY <2>2, BooksKept DEF Applied, Confirmed
  <2>4. BankIsBounded'
    <3>1. CASE fate = "refused"
      <4>1. Taken' \subseteq Taken /\ Taken \subseteq Ids
        BY <2>1, <2>2, <3>1 DEF Taken
      <4>2. QED BY <2>2, <4>1, SumsOfRefunds DEF BankIsBounded
    <3>2. CASE fate # "refused"
      <4>1. Taken' = Taken \cup {f}
        BY <2>1, <2>2, <3>2 DEF Taken
      <4>2. QED BY <2>1, <2>2, <3>2, <4>1, SumIsTheSum DEF BankIsBounded, Refunds!Fits, Refunds!Sum, Taken
    <3>3. QED BY <3>1, <3>2
  <2>5. RowsFollowBank'
    BY <2>1, <2>2 DEF RowsFollowBank, ClerksFit
  <2>6. ClerksFit'
    BY <2>1, <2>2 DEF ClerksFit
  <2>7. Refunds!TypeOK'
    BY <2>1, <2>2
  <2>8. QED BY <2>3, <2>4, <2>5, <2>6, <2>7
<1>8. ASSUME NEW c \in Clerks, Refunds!Hear(c) PROVE RefundsFit'
  <2> DEFINE f == op[c]
  <2>1. /\ f \in Ids /\ step[c] = "hearing" /\ row[f] # "none"
        /\ heard' = [heard EXCEPT ![c] = "nothing"]
        /\ UNCHANGED <<Refunds!books, amount, bank, op>>
    BY <1>8 DEF Refunds!Hear, ClerksFit
  <2>2. \/ /\ heard[c] = "done" /\ bank[f] = "done"
           /\ Refunds!Record(f, "confirmed") /\ step' = [step EXCEPT ![c] = "reversing"]
        \/ /\ Refunds!Record(f, "rejected") \/ Refunds!Record(f, "pending")
           /\ step' = [step EXCEPT ![c] = "idle"]
    BY <1>8 DEF Refunds!Hear, ClerksFit
  <2>3. /\ row' \in [Ids -> {"none", "pending", "confirmed", "applied", "rejected"}]
        /\ \A g \in Ids : row[g] # "none" <=> row'[g] # "none"
        /\ \A g \in Ids : row[g] \in {"confirmed", "applied", "none"} => row'[g] = row[g]
        /\ \A g \in Ids : row'[g] = "applied" => row[g] = "applied"
        /\ \A g \in Ids : row'[g] = "confirmed" => row[g] = "confirmed" \/ bank[g] = "done"
    BY <2>1, <2>2 DEF Refunds!Record
  <2>4. Applied' = Applied /\ Confirmed \subseteq Confirmed'
    BY <2>3 DEF Applied, Confirmed
  <2>5. BooksFit'
    BY <2>1, <2>4, BooksKept
  <2>6. BankIsBounded'
    BY <2>1 DEF BankIsBounded, Taken
  <2>7. RowsFollowBank'
    BY <2>1, <2>3 DEF RowsFollowBank
  <2>8. ClerksFit' /\ Refunds!TypeOK'
    BY <2>1, <2>2, <2>3 DEF ClerksFit
  <2>9. QED BY <2>5, <2>6, <2>7, <2>8
<1>9. ASSUME NEW c \in Clerks, Refunds!Conclude(c) PROVE RefundsFit'
  <2>1. /\ step[c] = "reversing" /\ Refunds!Reverse(op[c]) /\ step' = [step EXCEPT ![c] = "idle"]
        /\ UNCHANGED <<amount, bank, op, heard>>
    BY <1>9 DEF Refunds!Conclude
  <2>2. op[c] \in Ids /\ bank[op[c]] = "done"
    BY <2>1 DEF ClerksFit
  <2>3. ClerksFit'
    BY <2>1, <2>2, ReversalFits DEF ClerksFit
  <2>4. QED BY <2>1, <2>2, <2>3, ReversalFits
<1>10. ASSUME NEW c \in Clerks, Refunds!Crash(c) PROVE RefundsFit'
  <2>1. /\ step' = [step EXCEPT ![c] = "idle"] /\ heard' = [heard EXCEPT ![c] = "nothing"]
        /\ UNCHANGED <<Refunds!books, row, amount, bank, op>>
    BY <1>10 DEF Refunds!Crash
  <2>2. BooksFit'
    BY <2>1, BooksKept DEF Applied, Confirmed
  <2>3. BankIsBounded' /\ RowsFollowBank' /\ ClerksFit'
    BY <2>1 DEF BankIsBounded, Taken, RowsFollowBank, ClerksFit
  <2>4. QED BY <2>1, <2>2, <2>3
<1>11. ASSUME NEW c \in Clerks, NEW f \in Ids, Refunds!Request(c, f) PROVE RefundsFit'
  <2> DEFINE asked == IF AmountOf[f] = 0 THEN Refunds!Left ELSE AmountOf[f]
  <2>1. /\ step[c] = "idle" /\ f \notin ByHand /\ op' = [op EXCEPT ![c] = f]
        /\ paidOrder \in {"paid", "partially_refunded"}
        /\ UNCHANGED <<Refunds!books, bank>>
    BY <1>11 DEF Refunds!Request
  <2>2. \/ /\ row[f] = "none" /\ 0 < asked /\ asked <= Refunds!Left
           /\ row' = [row EXCEPT ![f] = "pending"]
           /\ amount' = [amount EXCEPT ![f] = asked]
           /\ step' = [step EXCEPT ![c] = "asking"] /\ UNCHANGED heard
        \/ /\ row[f] = "confirmed" /\ heard' = [heard EXCEPT ![c] = "done"]
           /\ step' = [step EXCEPT ![c] = "hearing"] /\ UNCHANGED <<row, amount>>
        \/ /\ row[f] # "none" /\ step' = [step EXCEPT ![c] = "asking"]
           /\ UNCHANGED <<row, amount, heard>>
    BY <1>11, Zenon DEF Refunds!Request
  <2>3. Applied' = Applied /\ Confirmed' = Confirmed /\ Taken' = Taken
    BY <2>1, <2>2 DEF Applied, Confirmed, Taken
  <2>4. amount' \in [Ids -> 0..Price]
    <3>1. PICK s \in Nat : Refunds!Left = Price - s
      BY SumIsTheSum, SumsOfRefunds DEF Refunds!Left, Refunds!Sum, Refunds!In
    <3>2. 0 < asked /\ asked <= Refunds!Left => asked \in 0..Price
      BY <3>1
    <3> HIDE DEF asked
    <3>3. QED BY <2>2, <3>2
  <2>5. \A g \in Confirmed \cup Taken : amount'[g] = amount[g]
    BY <2>1, <2>2 DEF Confirmed, Taken, RowsFollowBank
  <2>6. BooksFit'
    BY <2>1, <2>3, <2>4, <2>5, BooksKept
  <2>7. BankIsBounded'
    <3>1. IsFiniteSet(Taken)
      BY FS_Subset DEF Taken
    <3>2. SumFunctionOnSet(amount', Taken) = SumFunctionOnSet(amount, Taken)
      BY <2>5, <3>1, SumSame
    <3>3. QED BY <2>3, <3>2 DEF BankIsBounded
  <2> HIDE DEF asked
  <2>8. RowsFollowBank' /\ ClerksFit'
    BY <2>1, <2>2 DEF RowsFollowBank, ClerksFit
  <2>9. Refunds!TypeOK'
    BY <2>1, <2>2, <2>4
  <2>10. QED BY <2>6, <2>7, <2>8, <2>9
<1>12. CASE Refunds!Annotate
  <2>1. /\ planNamed' = FALSE /\ late' = FALSE
        /\ UNCHANGED <<refundPsp, paidOrder, granted, clawed, plan, row, amount, bank, step, op, heard>>
    BY <1>12 DEF Refunds!Annotate
  <2>2. BooksFit'
    BY <2>1, BooksKept DEF Applied, Confirmed
  <2>3. BankIsBounded' /\ RowsFollowBank' /\ ClerksFit'
    BY <2>1 DEF BankIsBounded, Taken, RowsFollowBank, ClerksFit
  <2>4. QED BY <2>1, <2>2, <2>3
<1>13. QED
  BY <1>1, <1>2, <1>3, <1>4, <1>5, <1>6, <1>7, <1>8, <1>9, <1>10, <1>11, <1>12
     DEF Refunds!Next, Refunds!Reconcile, Refunds!Work

\* Only a success, a late note and a refund touch the plan or its name.
LEMMA PlanKeeps == RefundsFit /\ PlanFits /\ Refunds!Next => PlanFits'
<1> SUFFICES ASSUME RefundsFit, PlanFits, Refunds!Next PROVE PlanFits'
  OBVIOUS
<1>1. CASE Refunds!Succeed
  BY <1>1 DEF Refunds!Succeed, PlanFits
<1>2. CASE Refunds!Annotate
  BY <1>2 DEF Refunds!Annotate, PlanFits
<1>3. CASE Refunds!Cancel
  BY <1>3 DEF Refunds!Cancel, Refunds!fixed, PlanFits
<1>4. ASSUME NEW f \in Ids, Refunds!Report(f) PROVE PlanFits'
  <2>1. bank[f] = "done" /\ Refunds!Reverse(f) /\ UNCHANGED <<amount, bank>>
    BY <1>4 DEF Refunds!Report
  <2>2. QED BY <2>1, ReversalFits
<1>5. ASSUME NEW c \in Clerks, Refunds!Conclude(c) PROVE PlanFits'
  <2>1. /\ step[c] = "reversing" /\ Refunds!Reverse(op[c]) /\ UNCHANGED <<amount, bank>>
    BY <1>5 DEF Refunds!Conclude
  <2>2. op[c] \in Ids /\ bank[op[c]] = "done"
    BY <2>1 DEF RefundsFit, Refunds!TypeOK, ClerksFit
  <2>3. QED BY <2>1, <2>2, ReversalFits
<1>6. CASE UNCHANGED Refunds!books
  BY <1>6 DEF Refunds!books, PlanFits
<1>7. QED
  BY <1>1, <1>2, <1>3, <1>4, <1>5, <1>6
  DEF Refunds!Next, Refunds!Reconcile, Refunds!Work, Refunds!ObserveRefusal, Refunds!Decide,
      Refunds!RefundByHand, Refunds!Ask, Refunds!Hear, Refunds!Crash, Refunds!Request

LEMMA RefundsHold == Spec => [](RefundsFit /\ PlanFits)
<1>1. Init => RefundsFit /\ PlanFits
  BY RefundsInit DEF Init, Refunds!Init, PlanFits
<1>2. RefundsFit /\ PlanFits /\ [Next]_vars => (RefundsFit /\ PlanFits)'
  BY StepsOfRefunds, RefundsRest, RefundsKeep, PlanKeeps DEF refundsVars, PlanFits
<1>3. QED
  BY <1>1, <1>2, PTL DEF Spec

(***************************************************************************)
(* Of any set of refunds and any number of clerks: what was taken back is  *)
(* the rounded share of what was refunded, whoever reported the refunds,   *)
(* how often, in which order and before or after the success; a cancelled  *)
(* payment leaves none of its credits, and whoever got all the money back  *)
(* keeps no credits, and keeps the plan only where Tochka's late note has  *)
(* erased its name from the order.                                         *)
(***************************************************************************)
THEOREM ClawbacksMatchRefunds == Spec => []ClawbackMatchesRefunds
<1>1. RefundsFit /\ PlanFits => ClawbackMatchesRefunds
  BY BooksFitMeans DEF RefundsFit, ClawbackMatchesRefunds
<1>2. QED
  BY <1>1, RefundsHold, PTL

-----------------------------------------------------------------------------
(***************************************************************************)
(* The welcome programme.  First what becomes of a device's capped grants  *)
(* within the window as days pass and grants are made.                     *)
(***************************************************************************)
Events == [user : Users, kind : Welcome!Kinds, on : 0..MaxDay,
           cluster : Welcome!Clusters, day : 0..MaxDay]
EventsTyped == events \subseteq Events /\ IsFiniteSet(events) /\ day \in 0..MaxDay

Counts(e, c, today) == e.cluster = c /\ e.kind \in Welcome!Capped /\ e.day >= today - CapDays
Window(c) == {e \in events : Counts(e, c, day)}
Worth == [e \in events |-> Amount[e.kind]]

LEMMA CapSumIsASum ==
  ASSUME NEW c
  PROVE  Welcome!RollingCapSum(c) = SumFunctionOnSet(Worth, Window(c))
<1>1. ASSUME NEW g, NEW B
      PROVE  Welcome!SumFunctionOnSet(g, B) = SumFunctionOnSet(g, B)
  BY Zenon DEF Welcome!SumFunctionOnSet, Welcome!FoldFunctionOnSet, Welcome!MapThenFoldSet,
               SumFunctionOnSet, FoldFunctionOnSet, MapThenFoldSet
<1>2. Welcome!RollingCapSum(c) = Welcome!SumFunctionOnSet(Worth, Window(c))
  BY DEF Welcome!RollingCapSum, Worth, Window, Counts
<1>3. QED BY <1>1, <1>2

CapSumsAgree == \A c : Welcome!RollingCapSum(c) = SumFunctionOnSet(Worth, Window(c))

LEMMA CapSums == CapSumsAgree
  BY CapSumIsASum DEF CapSumsAgree

LEMMA CapSumNext ==
  ASSUME NEW c
  PROVE  Welcome!RollingCapSum(c)' = SumFunctionOnSet(Worth', Window(c)')
<1>1. CapSumsAgree'
  BY CapSums, PTL
<1>2. QED BY <1>1 DEF CapSumsAgree

LEMMA WorthOfWindow ==
  ASSUME EventsTyped, NEW c
  PROVE  /\ IsFiniteSet(Window(c)) /\ \A e \in events : Worth[e] \in Nat
         /\ Welcome!RollingCapSum(c) \in Nat
<1>1. IsFiniteSet(Window(c)) /\ Window(c) \subseteq events
  BY FS_Subset DEF Window, EventsTyped
<1>2. \A e \in events : Worth[e] \in Nat
  BY WelcomeAssumption DEF Worth, EventsTyped, Events
<1>3. Welcome!RollingCapSum(c) \in Nat
  BY <1>1, <1>2, SumNat, CapSumIsASum
<1>4. QED BY <1>1, <1>2, <1>3

\* Without new grants the sum only falls, as the window moves on.
LEMMA CapSumFalls ==
  ASSUME EventsTyped, EventsTyped', events' = events, day' >= day, NEW c
  PROVE  Welcome!RollingCapSum(c)' \in Nat
         /\ Welcome!RollingCapSum(c)' <= Welcome!RollingCapSum(c)
<1>1. Worth' = Worth
  BY DEF Worth
<1>2. Window(c)' \subseteq Window(c)
  BY WelcomeAssumption DEF Window, Counts, EventsTyped, Events
<1>3. /\ IsFiniteSet(Window(c)) /\ \A e \in Window(c) : Worth[e] \in Nat
  BY WorthOfWindow DEF Window
<1>4. /\ SumFunctionOnSet(Worth, Window(c)') \in Nat
      /\ SumFunctionOnSet(Worth, Window(c)') <= SumFunctionOnSet(Worth, Window(c))
  BY <1>2, <1>3, SumGrows, SumNat
<1>5. QED BY <1>1, <1>4, CapSumIsASum, CapSumNext

\* A grant adds its amount to the sum of its own device, if it counts at all.
LEMMA CapSumAdds ==
  ASSUME EventsTyped, EventsTyped', NEW e, e \notin events, events' = events \cup {e},
         day' = day, NEW c
  PROVE  Welcome!RollingCapSum(c)' =
           Welcome!RollingCapSum(c) + (IF Counts(e, c, day) THEN Amount[e.kind] ELSE 0)
<1>1. \A f \in events : Worth'[f] = Worth[f] /\ Worth[f] \in Nat
  BY WorthOfWindow DEF Worth
<1>2. Worth'[e] = Amount[e.kind] /\ Worth'[e] \in Nat
  BY WelcomeAssumption DEF Worth, EventsTyped, Events
<1>3. Window(c)' = Window(c) \cup (IF Counts(e, c, day) THEN {e} ELSE {})
  BY DEF Window, Counts
<1>4. /\ IsFiniteSet(Window(c)) /\ Window(c) \subseteq events
      /\ Welcome!RollingCapSum(c) \in Nat
  BY WorthOfWindow DEF Window
<1>5. SumFunctionOnSet(Worth', Window(c)) = Welcome!RollingCapSum(c)
  BY <1>1, <1>4, SumSame, CapSumIsASum
<1>6. CASE Counts(e, c, day)
  <2>1. Window(c)' = Window(c) \cup {e} /\ e \notin Window(c)
    BY <1>3, <1>4, <1>6
  <2>2. \A f \in Window(c) \cup {e} : Worth'[f] \in Int
    BY <1>1, <1>2, <1>4
  <2>3. SumFunctionOnSet(Worth', Window(c)') = SumFunctionOnSet(Worth', Window(c)) + Worth'[e]
    BY <1>4, <2>1, <2>2, SumAdds
  <2>4. QED BY <1>2, <1>5, <1>6, <2>3, CapSumNext
<1>7. CASE ~Counts(e, c, day)
  <2>1. Window(c)' = Window(c)
    BY <1>3, <1>7
  <2>2. QED BY <1>4, <1>5, <1>7, <2>1, CapSumNext
<1>8. QED BY <1>6, <1>7

(***************************************************************************)
(* A row is locked by one transaction; who has claimed a phone, owns it or *)
(* has inserted its row; and who is about to issue a grant, has the row of *)
(* its device and has read a sum that nobody can have exceeded since.      *)
(***************************************************************************)
Transaction ==
  [at : {"idle", "phone", "anchor", "user", "cluster", "issue"}, user : Users \cup {None},
   kind : Welcome!Kinds, on : 0..MaxDay, cluster : Welcome!Clusters \cup {None},
   phone : Phones \cup {None}, day : 0..MaxDay, used : Nat,
   rows : SUBSET (Users \cup Welcome!Clusters \cup Phones)]

WelcomeTyped ==
  /\ EventsTyped /\ clusters \subseteq Welcome!Clusters
  /\ anchor \in [Phones -> Users \cup {None}] /\ visit \in [Visits -> Transaction]

RowsApart == \A v, w \in Visits : v # w => visit[v].rows \cap visit[w].rows = {}

Ready(t) ==
  t.at # "idle" =>
    /\ t.user \in Users /\ t.cluster \in Welcome!Clusters
    /\ t.kind = "L2" <=> t.phone # None
    /\ t.at \in {"phone", "anchor"} => t.phone # None

PhoneFits(t) ==
  t.at \in {"user", "cluster", "issue"} /\ t.phone # None =>
    \/ anchor[t.phone] = t.user
    \/ anchor[t.phone] = None /\ t.phone \in t.rows

SumFits(t) ==
  t.at = "issue" => t.cluster \in t.rows /\ Welcome!RollingCapSum(t.cluster) <= t.used

TransactionsFit ==
  \A v \in Visits : Ready(visit[v]) /\ PhoneFits(visit[v]) /\ SumFits(visit[v])

GiftFits == WelcomeTyped /\ RowsApart /\ TransactionsFit /\ Welcome!GiftIsBounded

LEMMA WelcomeInit == Welcome!Init => GiftFits
<1> SUFFICES ASSUME Welcome!Init PROVE GiftFits
  OBVIOUS
<1> USE WelcomeAssumption DEF Welcome!Init
<1>1. EventsTyped
  BY FS_EmptySet DEF EventsTyped
<1>2. Welcome!Idle \in Transaction
  BY DEF Transaction, Welcome!Idle, Welcome!Kinds
<1>3. WelcomeTyped
  BY <1>1, <1>2 DEF WelcomeTyped
<1>4. RowsApart /\ TransactionsFit
  BY DEF RowsApart, TransactionsFit, Ready, PhoneFits, SumFits, Welcome!Idle
<1>5. Welcome!GiftIsBounded
  <2>1. ASSUME NEW c PROVE Welcome!RollingCapSum(c) <= Cap
    <3>1. Window(c) = {}
      BY DEF Window
    <3>2. Welcome!RollingCapSum(c) = 0
      BY <3>1, CapSumIsASum, SumOfNone
    <3>3. QED BY <3>2
  <2>2. QED BY <2>1 DEF Welcome!GiftIsBounded
<1>6. QED BY <1>3, <1>4, <1>5 DEF GiftFits

LEMMA CapSumSame ==
  ASSUME events' = events, day' = day
  PROVE  \A c : Welcome!RollingCapSum(c)' = Welcome!RollingCapSum(c)
  BY CapSumNext, CapSumIsASum DEF Window, Worth

\* A step of one transaction that reads, locks and gives up, but grants nothing.
LEMMA TransactionMoves ==
  ASSUME GiftFits, UNCHANGED <<day, events, anchor>>, clusters' \subseteq Welcome!Clusters,
         NEW v \in Visits, NEW t \in Transaction, visit' = [visit EXCEPT ![v] = t],
         \A w \in Visits \ {v} : t.rows \cap visit[w].rows = {},
         Ready(t), PhoneFits(t), SumFits(t)
  PROVE  GiftFits'
<1> USE DEF GiftFits
<1>1. WelcomeTyped'
  BY DEF WelcomeTyped, EventsTyped
<1>2. RowsApart'
  BY DEF RowsApart, WelcomeTyped
<1>3. \A c : Welcome!RollingCapSum(c)' = Welcome!RollingCapSum(c)
  BY CapSumSame
<1>4. \A w \in Visits : visit'[w] = IF w = v THEN t ELSE visit[w]
  BY DEF WelcomeTyped
<1>5. \A w \in Visits : Ready(visit[w])' /\ PhoneFits(visit[w])'
  BY <1>4 DEF TransactionsFit, Ready, PhoneFits
<1>6. ASSUME NEW w \in Visits PROVE SumFits(visit[w])'
  <2>1. SumFits(visit[w]) /\ SumFits(t)
    BY DEF TransactionsFit
  <2>2. Welcome!RollingCapSum(visit[w].cluster)' = Welcome!RollingCapSum(visit'[w].cluster)
    BY <1>3 DEF Welcome!RollingCapSum
  <2>3. QED BY <1>4, <2>1, <2>2 DEF SumFits
<1>7. Welcome!GiftIsBounded'
  BY <1>3 DEF Welcome!GiftIsBounded
<1>8. QED BY <1>1, <1>2, <1>5, <1>6, <1>7 DEF TransactionsFit

LEMMA WelcomeRests == GiftFits /\ UNCHANGED welcomeVars => GiftFits'
<1> SUFFICES ASSUME GiftFits, UNCHANGED welcomeVars PROVE GiftFits'
  OBVIOUS
<1>1. UNCHANGED <<day, events, clusters, anchor, visit>>
  BY DEF welcomeVars
<1>2. \A c : Welcome!RollingCapSum(c)' = Welcome!RollingCapSum(c)
  BY <1>1, CapSumSame
<1>3. WelcomeTyped' /\ RowsApart'
  BY <1>1 DEF GiftFits, WelcomeTyped, EventsTyped, RowsApart
<1>4. TransactionsFit'
  BY <1>1, <1>2 DEF GiftFits, TransactionsFit, Ready, PhoneFits, SumFits
<1>5. Welcome!GiftIsBounded'
  BY <1>1, <1>2 DEF GiftFits, Welcome!GiftIsBounded
<1>6. QED BY <1>3, <1>4, <1>5 DEF GiftFits

LEMMA DaysKeepGifts == GiftFits /\ Welcome!Tomorrow => GiftFits'
<1> SUFFICES ASSUME GiftFits, Welcome!Tomorrow PROVE GiftFits'
  OBVIOUS
<1> USE WelcomeAssumption DEF GiftFits
<1>1. day < MaxDay /\ day' = day + 1 /\ UNCHANGED <<events, clusters, anchor, visit>>
  BY DEF Welcome!Tomorrow
<1>2. WelcomeTyped' /\ RowsApart'
  BY <1>1 DEF WelcomeTyped, EventsTyped, RowsApart
<1>3. \A c : /\ Welcome!RollingCapSum(c)' \in Nat /\ Welcome!RollingCapSum(c) \in Nat
             /\ Welcome!RollingCapSum(c)' <= Welcome!RollingCapSum(c)
  <2>1. EventsTyped /\ EventsTyped' /\ day' >= day
    BY <1>1, <1>2 DEF WelcomeTyped, EventsTyped
  <2>2. QED BY <1>1, <2>1, CapSumFalls, WorthOfWindow
<1>4. TransactionsFit'
  <2>1. SUFFICES ASSUME NEW v \in Visits
                 PROVE  (Ready(visit[v]) /\ PhoneFits(visit[v]) /\ SumFits(visit[v]))'
    BY DEF TransactionsFit
  <2>2. Ready(visit[v]) /\ PhoneFits(visit[v]) /\ SumFits(visit[v]) /\ visit[v].used \in Nat
    BY DEF TransactionsFit, WelcomeTyped, Transaction
  <2>3. Ready(visit[v])' /\ PhoneFits(visit[v])'
    BY <1>1, <2>2 DEF Ready, PhoneFits
  <2> DEFINE c == visit[v].cluster
  <2>4. /\ Welcome!RollingCapSum(c)' \in Nat /\ Welcome!RollingCapSum(c) \in Nat
        /\ Welcome!RollingCapSum(c)' <= Welcome!RollingCapSum(c)
    BY <1>1, <1>3 DEF Welcome!RollingCapSum
  <2>5. SumFits(visit[v])'
    BY <1>1, <2>2, <2>4 DEF SumFits
  <2>6. QED BY <2>3, <2>5
<1>5. Welcome!GiftIsBounded'
  <2>1. \A c \in Welcome!Clusters : Welcome!RollingCapSum(c)' <= Cap
    BY <1>3 DEF Welcome!GiftIsBounded
  <2>2. QED BY <1>1, <2>1 DEF Welcome!GiftIsBounded
<1>6. QED BY <1>2, <1>4, <1>5

LEMMA MovesKeepGifts ==
  ASSUME GiftFits, NEW v \in Visits
  PROVE  /\ \A u \in Users, k \in Welcome!Kinds, p \in Phones \cup {None}, c \in Welcome!Clusters :
              Welcome!Begin(v, u, k, c, p) => GiftFits'
         /\ Welcome!InsertCluster(v) => GiftFits'
         /\ Welcome!ClaimPhone(v) => GiftFits'
         /\ Welcome!LockUser(v) => GiftFits'
         /\ Welcome!LockCluster(v) => GiftFits'
         /\ Welcome!Abort(v) => GiftFits'
<1> DEFINE s == visit[v]
<1>1. /\ s \in Transaction /\ clusters \subseteq Welcome!Clusters /\ visit \in [Visits -> Transaction]
      /\ anchor \in [Phones -> Users \cup {None}] /\ day \in 0..MaxDay
  BY DEF GiftFits, WelcomeTyped, EventsTyped
<1>2. Ready(s) /\ PhoneFits(s) /\ SumFits(s) /\ \A w \in Visits \ {v} : s.rows \cap visit[w].rows = {}
  BY DEF GiftFits, TransactionsFit, RowsApart
<1>3. /\ Welcome!Idle \in Transaction /\ Ready(Welcome!Idle) /\ PhoneFits(Welcome!Idle)
      /\ SumFits(Welcome!Idle) /\ Welcome!Idle.rows = {}
  BY WelcomeAssumption
     DEF Welcome!Idle, Transaction, Ready, PhoneFits, SumFits, Welcome!Kinds
<1>4. ASSUME NEW u \in Users, NEW k \in Welcome!Kinds, NEW p \in Phones \cup {None},
             NEW c \in Welcome!Clusters, Welcome!Begin(v, u, k, c, p)
      PROVE  GiftFits'
  <2> DEFINE t == [at |-> IF k = "L2" THEN "phone" ELSE "user", user |-> u, kind |-> k,
                   on |-> IF k = "daily" THEN day ELSE 0, cluster |-> c, phone |-> p,
                   day |-> day, used |-> 0, rows |-> {}]
  <2>1. /\ p # None <=> k = "L2"
        /\ visit' = [visit EXCEPT ![v] = t] /\ UNCHANGED <<day, events, clusters, anchor>>
    BY <1>4 DEF Welcome!Begin
  <2>2. t \in Transaction
    BY <1>1, WelcomeAssumption DEF Transaction
  <2>3. Ready(t) /\ PhoneFits(t) /\ SumFits(t) /\ t.rows = {}
    BY <2>1 DEF Ready, PhoneFits, SumFits
  <2> HIDE DEF t
  <2>4. QED BY <1>1, <2>1, <2>2, <2>3, TransactionMoves
<1>5. ASSUME NEW r \in Users \cup Welcome!Clusters \cup Phones, NEW stage \in {"anchor", "user", "cluster"},
             Welcome!Lock(v, r, stage), s.at \in {"phone", "anchor", "user"},
             s.at = "user" => stage # "anchor",
             stage \in {"user", "cluster"} /\ s.phone # None =>
               \/ anchor[s.phone] = s.user
               \/ anchor[s.phone] = None /\ s.phone \in s.rows \cup {r},
             UNCHANGED <<day, events, clusters, anchor>>
      PROVE  GiftFits'
  <2> DEFINE t == [s EXCEPT !.rows = s.rows \cup {r}, !.at = stage]
  <2>1. visit' = [visit EXCEPT ![v] = t] /\ \A w \in Visits \ {v} : r \notin visit[w].rows
    BY <1>1, <1>5 DEF Welcome!Lock, Welcome!Free
  <2>2. t \in Transaction
    BY <1>1, <1>5 DEF Transaction
  <2>3. /\ t.at = stage /\ t.user = s.user /\ t.kind = s.kind /\ t.cluster = s.cluster
        /\ t.phone = s.phone /\ t.rows = s.rows \cup {r}
    BY <1>1 DEF Transaction
  <2> HIDE DEF t, s
  <2>4. Ready(t) /\ PhoneFits(t) /\ SumFits(t)
    BY <1>2, <1>5, <2>3 DEF Ready, PhoneFits, SumFits
  <2>5. \A w \in Visits \ {v} : t.rows \cap visit[w].rows = {}
    BY <1>2, <2>1, <2>3
  <2>6. QED BY <1>1, <1>5, <2>1, <2>2, <2>4, <2>5, TransactionMoves
<1>6. ASSUME NEW stage \in {"anchor", "user"}, s.at \in {"phone", "anchor"},
             visit' = [visit EXCEPT ![v].at = stage],
             stage = "user" /\ s.phone # None => anchor[s.phone] = s.user,
             UNCHANGED <<day, events, clusters, anchor>>
      PROVE  GiftFits'
  <2> DEFINE t == [s EXCEPT !.at = stage]
  <2>1. visit' = [visit EXCEPT ![v] = t]
    BY <1>1, <1>6
  <2>2. t \in Transaction
    BY <1>1, <1>6 DEF Transaction
  <2>3. /\ t.at = stage /\ t.user = s.user /\ t.kind = s.kind /\ t.cluster = s.cluster
        /\ t.phone = s.phone /\ t.rows = s.rows
    BY <1>1 DEF Transaction
  <2> HIDE DEF t, s
  <2>4. Ready(t) /\ PhoneFits(t) /\ SumFits(t)
    BY <1>2, <1>6, <2>3 DEF Ready, PhoneFits, SumFits
  <2>5. \A w \in Visits \ {v} : t.rows \cap visit[w].rows = {}
    BY <1>2, <2>3
  <2>6. QED BY <1>1, <1>6, <2>1, <2>2, <2>4, <2>5, TransactionMoves
<1>7. ASSUME Welcome!End(v), clusters' \subseteq Welcome!Clusters, UNCHANGED <<day, events, anchor>>
      PROVE  GiftFits'
  <2>1. visit' = [visit EXCEPT ![v] = Welcome!Idle]
    BY <1>7 DEF Welcome!End
  <2>2. QED BY <1>3, <1>7, <2>1, TransactionMoves
<1>8. ASSUME Welcome!InsertCluster(v) PROVE GiftFits'
  <2>1. s.at = "phone" /\ s.cluster \in Welcome!Clusters /\ UNCHANGED <<day, events, clusters, anchor>>
    BY <1>2, <1>8 DEF Welcome!InsertCluster, Ready
  <2>2. visit' = [visit EXCEPT ![v].at = "anchor"] \/ Welcome!Lock(v, s.cluster, "anchor")
    BY <1>8 DEF Welcome!InsertCluster
  <2> HIDE DEF s
  <2>3. QED BY <1>5, <1>6, <2>1, <2>2
<1>9. ASSUME Welcome!ClaimPhone(v) PROVE GiftFits'
  <2>1. s.at = "anchor" /\ s.cluster \in Welcome!Clusters /\ UNCHANGED <<day, events, anchor>>
    BY <1>2, <1>9 DEF Welcome!ClaimPhone, Ready
  <2>2. \/ anchor[s.phone] = None /\ Welcome!Lock(v, s.phone, "user") /\ UNCHANGED clusters
        \/ /\ anchor[s.phone] = s.user /\ visit' = [visit EXCEPT ![v].at = "user"]
           /\ UNCHANGED clusters
        \/ Welcome!End(v) /\ clusters' = clusters \cup {s.cluster}
    BY <1>9, Zenon DEF Welcome!ClaimPhone
  <2>3. s.phone \in Phones
    BY <1>1, <1>2, <2>1 DEF Transaction, Ready
  <2> HIDE DEF s
  <2>4. CASE anchor[s.phone] = None /\ Welcome!Lock(v, s.phone, "user") /\ UNCHANGED clusters
    BY <1>5, <2>1, <2>3, <2>4
  <2>5. CASE /\ anchor[s.phone] = s.user /\ visit' = [visit EXCEPT ![v].at = "user"]
             /\ UNCHANGED clusters
    BY <1>6, <2>1, <2>5
  <2>6. CASE Welcome!End(v) /\ clusters' = clusters \cup {s.cluster}
    BY <1>1, <1>7, <2>1, <2>6
  <2>7. QED BY <2>2, <2>4, <2>5, <2>6
<1>10. ASSUME Welcome!LockUser(v) PROVE GiftFits'
  <2>1. /\ s.at = "user" /\ s.user \in Users /\ UNCHANGED <<day, events, clusters, anchor>>
        /\ Welcome!Lock(v, s.user, "cluster")
    BY <1>2, <1>10 DEF Welcome!LockUser, Ready
  <2>2. s.phone # None => anchor[s.phone] = s.user \/ (anchor[s.phone] = None /\ s.phone \in s.rows)
    BY <1>2, <2>1 DEF PhoneFits
  <2> HIDE DEF s
  <2>3. QED BY <1>5, <2>1, <2>2
<1>11. ASSUME Welcome!LockCluster(v) PROVE GiftFits'
  <2> DEFINE sum == Welcome!RollingCapSum(s.cluster)
             t == [s EXCEPT !.rows = s.rows \cup {s.cluster}, !.at = "issue", !.used = sum]
  <2>1. /\ s.at = "cluster" /\ s.cluster \in Welcome!Clusters
        /\ UNCHANGED <<day, events, clusters, anchor>>
        /\ \A w \in Visits \ {v} : s.cluster \notin visit[w].rows
    BY <1>2, <1>11 DEF Welcome!LockCluster, Welcome!Free, Ready
  <2>2. sum \in Nat
    BY WorthOfWindow DEF GiftFits, WelcomeTyped
  <2>3. visit' = [visit EXCEPT ![v] = t]
    <3>1. visit' = [visit EXCEPT ![v].rows = @ \cup {s.cluster}, ![v].at = "issue",
                                 ![v].used = Welcome!RollingCapSum(s.cluster)]
      BY <1>11 DEF Welcome!LockCluster
    <3> HIDE DEF sum
    <3>2. visit' = [visit EXCEPT ![v].rows = @ \cup {s.cluster}, ![v].at = "issue", ![v].used = sum]
      BY <3>1 DEF sum
    <3>3. QED BY <1>1, <3>2
  <2> HIDE DEF sum
  <2>4. t \in Transaction
    BY <1>1, <2>1, <2>2 DEF Transaction
  <2>5. /\ t.at = "issue" /\ t.user = s.user /\ t.kind = s.kind /\ t.cluster = s.cluster
        /\ t.phone = s.phone /\ t.rows = s.rows \cup {s.cluster} /\ t.used = sum
    BY <1>1 DEF Transaction
  <2> HIDE DEF t, s
  <2>6. Ready(t) /\ PhoneFits(t)
    BY <1>2, <2>1, <2>5 DEF Ready, PhoneFits
  <2>7. SumFits(t)
    <3>1. Welcome!RollingCapSum(t.cluster) = sum
      BY <2>5 DEF sum
    <3>2. QED BY <2>2, <2>5, <3>1 DEF SumFits
  <2>8. \A w \in Visits \ {v} : t.rows \cap visit[w].rows = {}
    BY <1>2, <2>1, <2>5
  <2>9. QED BY <1>1, <2>1, <2>3, <2>4, <2>6, <2>7, <2>8, TransactionMoves
<1>12. ASSUME Welcome!Abort(v) PROVE GiftFits'
  BY <1>1, <1>7, <1>12 DEF Welcome!Abort
<1>13. QED BY <1>4, <1>8, <1>9, <1>10, <1>11, <1>12

(***************************************************************************)
(* The grant itself: the gate refuses a second one of its level, the sum   *)
(* under the lock one that would pass the cap, and the phone's row is the  *)
(* user's own by now.                                                      *)
(***************************************************************************)
LEMMA IssueKeepsGifts ==
  ASSUME GiftFits, NEW v \in Visits, Welcome!Issue(v)
  PROVE  GiftFits'
<1> DEFINE s == visit[v]
           e == Welcome!Event(v)
           issued == Welcome!Fits(v) /\ ~Welcome!Has(s.user, s.kind, s.on)
<1>1. /\ s \in Transaction /\ s.at = "issue" /\ Ready(s) /\ PhoneFits(s) /\ SumFits(s)
      /\ s.user \in Users /\ s.cluster \in Welcome!Clusters /\ visit \in [Visits -> Transaction]
      /\ anchor \in [Phones -> Users \cup {None}]
  BY DEF GiftFits, WelcomeTyped, TransactionsFit, Welcome!Issue, Ready
<1>2. /\ visit' = [visit EXCEPT ![v] = Welcome!Idle] /\ day' = day
      /\ clusters' = clusters \cup {s.cluster}
      /\ anchor' = IF s.phone = None THEN anchor ELSE [anchor EXCEPT ![s.phone] = s.user]
      /\ events' = IF issued THEN events \cup {e} ELSE events
  BY DEF Welcome!Issue, Welcome!Leave, Welcome!End
<1>3. e = [user |-> s.user, kind |-> s.kind, on |-> s.on, cluster |-> s.cluster, day |-> s.day]
  BY DEF Welcome!Event
<1>4. e \in Events /\ e.user = s.user /\ e.kind = s.kind /\ e.on = s.on /\ e.cluster = s.cluster
  BY <1>1, <1>3 DEF Events, Transaction
<1>5. /\ EventsTyped
      /\ \A x, y \in events : (x.user = y.user /\ x.kind = y.kind /\ x.on = y.on) => x = y
      /\ \A x \in events : (x.kind = "L2") => \E p \in Phones : anchor[p] = x.user
      /\ \A c \in Welcome!Clusters : Welcome!RollingCapSum(c) <= Cap
  BY DEF GiftFits, WelcomeTyped, Welcome!GiftIsBounded
<1>6. EventsTyped'
  BY <1>2, <1>4, <1>5, FS_AddElement DEF EventsTyped
<1>7. issued =>
        /\ \A x \in events : ~(x.user = s.user /\ x.kind = s.kind /\ x.on = s.on)
        /\ s.kind \in Welcome!Capped => s.used + Amount[s.kind] <= Cap
  BY DEF Welcome!Has, Welcome!Fits
<1>8. issued => e \notin events
  BY <1>4, <1>7
<1> HIDE DEF e, s, issued
<1>9. ASSUME NEW c \in Welcome!Clusters, c # s.cluster
      PROVE  Welcome!RollingCapSum(c)' = Welcome!RollingCapSum(c)
  <2>1. Welcome!RollingCapSum(c) \in Nat
    BY <1>5, WorthOfWindow
  <2>2. CASE issued
    <3>1. events' = events \cup {e} /\ ~Counts(e, c, day)
      BY <1>2, <1>4, <1>9, <2>2 DEF Counts
    <3>2. QED BY <1>2, <1>5, <1>6, <1>8, <2>1, <2>2, <3>1, CapSumAdds
  <2>3. CASE ~issued
    <3>1. events' = events
      BY <1>2, <2>3
    <3>2. QED BY <1>2, <3>1, CapSumSame
  <2>4. QED BY <2>2, <2>3
<1>10. Welcome!RollingCapSum(s.cluster) \in Nat /\ Welcome!RollingCapSum(s.cluster) <= s.used
       /\ s.used \in Nat
  BY <1>1, <1>5, WorthOfWindow DEF SumFits, Transaction
<1>11. ASSUME NEW c \in Welcome!Clusters, c = s.cluster
       PROVE  Welcome!RollingCapSum(c)' <= Cap
  <2>1. Welcome!RollingCapSum(c) \in Nat /\ Welcome!RollingCapSum(c) <= s.used
        /\ Welcome!RollingCapSum(c) <= Cap
    BY <1>5, <1>10, <1>11
  <2>2. CASE issued
    <3>1. events' = events \cup {e}
      BY <1>2, <2>2
    <3>2. Welcome!RollingCapSum(c)' =
            Welcome!RollingCapSum(c) + (IF Counts(e, c, day) THEN Amount[e.kind] ELSE 0)
      BY <1>2, <1>5, <1>6, <1>8, <2>2, <3>1, CapSumAdds
    <3>3. CASE Counts(e, c, day)
      <4>1. s.kind \in Welcome!Capped
        BY <1>4, <3>3 DEF Counts
      <4>2. s.used + Amount[s.kind] <= Cap /\ Amount[s.kind] \in Nat /\ s.used \in Nat
        BY <1>7, <1>10, <2>2, <4>1, WelcomeAssumption DEF Welcome!Capped, Welcome!Kinds
      <4>3. Welcome!RollingCapSum(c)' = Welcome!RollingCapSum(c) + Amount[s.kind]
        BY <1>4, <3>2, <3>3
      <4>4. QED BY <2>1, <4>2, <4>3, WelcomeAssumption
    <3>4. CASE ~Counts(e, c, day)
      BY <2>1, <3>2, <3>4
    <3>5. QED BY <3>3, <3>4
  <2>3. CASE ~issued
    <3>1. events' = events
      BY <1>2, <2>3
    <3>2. QED BY <1>2, <2>1, <3>1, CapSumSame
  <2>4. QED BY <2>2, <2>3
<1>12. \A c \in Welcome!Clusters : Welcome!RollingCapSum(c)' <= Cap
  BY <1>5, <1>9, <1>11
\* The phone's row is inserted by one transaction, and its owner stays.
<1>13. s.phone # None =>
         /\ s.phone \in Phones
         /\ anchor[s.phone] = s.user \/ (anchor[s.phone] = None /\ s.phone \in s.rows)
  BY <1>1 DEF PhoneFits, Transaction
<1>14. \A p \in Phones : \A u \in Users : anchor[p] = u => anchor'[p] = u
  BY <1>1, <1>2, <1>13, WelcomeAssumption
<1>15. \A x, y \in events' : (x.user = y.user /\ x.kind = y.kind /\ x.on = y.on) => x = y
  BY <1>2, <1>4, <1>5, <1>7
<1>16. \A x \in events' : (x.kind = "L2") => \E p \in Phones : anchor'[p] = x.user
  <2>1. ASSUME NEW x \in events, x.kind = "L2" PROVE \E p \in Phones : anchor'[p] = x.user
    <3>1. x.user \in Users
      BY <1>5 DEF EventsTyped, Events
    <3>2. QED BY <1>5, <1>14, <2>1, <3>1
  <2>2. e.kind = "L2" => \E p \in Phones : anchor'[p] = e.user
    BY <1>1, <1>2, <1>4, <1>13 DEF Ready
  <2>3. QED BY <1>2, <2>1, <2>2
<1>17. Welcome!GiftIsBounded'
  BY <1>12, <1>15, <1>16 DEF Welcome!GiftIsBounded
<1>18. /\ Welcome!Idle \in Transaction /\ Ready(Welcome!Idle) /\ Welcome!Idle.rows = {}
       /\ Welcome!Idle.at = "idle"
  BY WelcomeAssumption DEF Welcome!Idle, Transaction, Ready, Welcome!Kinds
<1>19. anchor' \in [Phones -> Users \cup {None}]
  BY <1>1, <1>2
<1>20. WelcomeTyped'
  BY <1>1, <1>2, <1>6, <1>18, <1>19 DEF WelcomeTyped, GiftFits
<1>21. \A w \in Visits : visit'[w] = IF w = v THEN Welcome!Idle ELSE visit[w]
  BY <1>1, <1>2
<1>22. RowsApart'
  BY <1>18, <1>21 DEF RowsApart, GiftFits
<1>23. ASSUME NEW w \in Visits
       PROVE  Ready(visit[w])' /\ PhoneFits(visit[w])' /\ SumFits(visit[w])'
  <2>1. CASE w = v
    BY <1>18, <1>21, <2>1 DEF Ready, PhoneFits, SumFits
  <2>2. CASE w # v
    <3> DEFINE t == visit[w]
    <3>1. /\ visit'[w] = t /\ t \in Transaction /\ Ready(t) /\ PhoneFits(t) /\ SumFits(t)
          /\ t.rows \cap s.rows = {}
      BY <1>1, <1>21, <2>2 DEF GiftFits, TransactionsFit, RowsApart, s
    <3> HIDE DEF t
    <3>2. Ready(visit'[w])
      BY <3>1
    <3>3. PhoneFits(visit[w])'
      <4>1. SUFFICES ASSUME t.at \in {"user", "cluster", "issue"}, t.phone # None
                     PROVE  \/ anchor'[t.phone] = t.user
                            \/ anchor'[t.phone] = None /\ t.phone \in t.rows
        BY <3>1 DEF PhoneFits
      <4>2. /\ t.phone \in Phones /\ t.user \in Users
            /\ anchor[t.phone] = t.user \/ (anchor[t.phone] = None /\ t.phone \in t.rows)
        BY <3>1, <4>1 DEF PhoneFits, Ready, Transaction
      <4>3. CASE anchor[t.phone] = t.user
        BY <1>14, <4>2, <4>3
      <4>4. CASE anchor[t.phone] = None /\ t.phone \in t.rows
        <5>1. s.phone = None \/ s.phone # t.phone
          BY <1>1, <1>13, <3>1, <4>4, WelcomeAssumption
        <5>2. anchor'[t.phone] = anchor[t.phone]
          BY <1>1, <1>2, <1>13, <4>2, <5>1
        <5>3. QED BY <4>4, <5>2
      <4>5. QED BY <4>2, <4>3, <4>4
    <3>4. SumFits(visit[w])'
      <4>1. SUFFICES ASSUME t.at = "issue"
                     PROVE  t.cluster \in t.rows /\ Welcome!RollingCapSum(visit[w].cluster)' <= t.used
        BY <3>1 DEF SumFits
      <4>2. /\ t.cluster \in t.rows /\ Welcome!RollingCapSum(t.cluster) <= t.used
            /\ t.cluster \in Welcome!Clusters
        BY <3>1, <4>1 DEF SumFits, Ready
      <4>3. t.cluster # s.cluster
        BY <1>1, <3>1, <4>2 DEF SumFits
      <4>4. \A c : c = t.cluster => Welcome!RollingCapSum(c)' = Welcome!RollingCapSum(c)
        BY <1>9, <4>2, <4>3
      <4>5. Welcome!RollingCapSum(visit[w].cluster)' = Welcome!RollingCapSum(t.cluster)
        BY <3>1, <4>4 DEF Welcome!RollingCapSum
      <4>6. QED BY <4>2, <4>5
    <3>5. QED BY <3>1, <3>2, <3>3, <3>4 DEF Ready
  <2>3. QED BY <2>1, <2>2
<1>24. TransactionsFit'
  BY <1>23 DEF TransactionsFit
<1>25. QED BY <1>17, <1>20, <1>22, <1>24 DEF GiftFits

LEMMA WelcomeKeepsGifts == GiftFits /\ Welcome!Next => GiftFits'
  BY DaysKeepGifts, MovesKeepGifts, IssueKeepsGifts DEF Welcome!Next

LEMMA GiftsHold == Spec => []GiftFits
<1>1. Init => GiftFits
  BY WelcomeInit DEF Init
<1>2. GiftFits /\ [Next]_vars => GiftFits'
  BY StepsOfWelcome, WelcomeRests, WelcomeKeepsGifts
<1>3. QED
  BY <1>1, <1>2, PTL DEF Spec

(***************************************************************************)
(* However many users, devices, phones and transactions race for the       *)
(* welcome programme: a level is given once, a phone carries one account's *)
(* bonus, and the capped grants of a device within the window stay under   *)
(* the cap.                                                                *)
(***************************************************************************)
THEOREM GiftsAreBounded == Spec => []GiftIsBounded
<1>1. GiftFits => GiftIsBounded
  BY DEF GiftFits, GiftIsBounded
<1>2. QED
  BY <1>1, GiftsHold, PTL

-----------------------------------------------------------------------------
\* Every part of billing keeps its types, for all values of the constants.
THEOREM BillingIsTyped == Spec => []TypesOK
<1>1. WelcomeTyped => Welcome!TypeOK
  BY DEF WelcomeTyped, EventsTyped, Events, Transaction, Welcome!TypeOK
<1>2. /\ OrdersFollowPayments => Checkout!TypeOK
      /\ RefundsFit => Refunds!TypeOK
      /\ CyclesFollowCharges => Renewal!TypeOK
      /\ MediaInv => Media!TypeOK
      /\ GiftFits => Welcome!TypeOK
  BY <1>1 DEF OrdersFollowPayments, RefundsFit, CyclesFollowCharges, MediaInv, GiftFits
<1>3. OrdersFollowPayments /\ RefundsFit /\ CyclesFollowCharges /\ MediaInv /\ GiftFits => TypesOK
  BY <1>2 DEF TypesOK
<1>4. QED
  BY <1>3, OrdersFollow, RefundsHold, RenewalHolds, MediaHold, GiftsHold, PTL

=============================================================================
