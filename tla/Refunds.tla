------------------------------ MODULE Refunds -------------------------------
(***************************************************************************)
(* One paid order and the refunds of its payment.  An administrator's      *)
(* request writes a row, asks the bank, records its answer and takes the   *)
(* credits back; the webhook and the reconciliation, which see what the    *)
(* bank did, take the same credits back at any time, in any order and      *)
(* again.  The success of the payment may come after them all, and so may  *)
(* the last statement of the checkout that made the order.                 *)
(*                                                                         *)
(* Amounts are in units of the price; a refund's name is its refund uid.   *)
(***************************************************************************)
EXTENDS Naturals, FiniteSets, Functions

CONSTANTS
  Ids,          \* the refunds that may be made
  AmountOf,     \* the amount of each; 0: whatever is left
  ByHand,       \* those made at the bank, past the administrator's route
  Clerks,       \* administrators' requests in flight
  Price,        \* what the order cost
  Grant         \* the credits it buys

VARIABLES
  psp,          \* orders.psp: Tochka or YooKassa
  order,        \* orders.our_status
  granted,      \* credits granted for the order
  clawed,       \* credits taken back for it
  plan,         \* the subscription the order created
  named,        \* orders.metadata names that subscription
  late,         \* the checkout has yet to replace the metadata
  row,          \* billing_refunds.status of the refund
  amount,       \* its amount
  bank,         \* the refund at the bank
  at, op,       \* a clerk's step, and the refund it is about
  heard         \* the bank's answer as the clerk's request heard it

vars == <<psp, order, granted, clawed, plan, named, late, row, amount, bank, at, op, heard>>
books == <<psp, order, granted, clawed, plan, named, late>>
fixed == <<psp, granted, named, late>>
clerk == <<at, op, heard>>

Refundable == {"paid", "partially_refunded", "refunded"}
Sum(refunds) == SumFunctionOnSet(amount, refunds)
In(statuses) == {f \in Ids : row[f] \in statuses}

\* Math.round of the share of the grant that a refunded amount stands for.
Share(refunded) == (2 * Grant * refunded + Price) \div (2 * Price)

Goto(c, step) == at' = [at EXCEPT ![c] = step]

-----------------------------------------------------------------------------
\* The customer has paid; the success has yet to be reported.  A second request
\* for the same order may still have Tochka's payment to note.
Init ==
  /\ psp \in {"tochka", "yookassa"}
  /\ named = FALSE /\ late \in BOOLEAN /\ (late => psp = "tochka")
  /\ order = "pending" /\ granted = 0 /\ clawed = 0 /\ plan = "none"
  /\ row = [f \in Ids |-> "none"]
  /\ amount = [f \in Ids |-> AmountOf[f]]
  /\ bank = [f \in Ids |-> "none"]
  /\ at = [c \in Clerks |-> "idle"]
  /\ op = [c \in Clerks |-> CHOOSE f \in Ids : TRUE]
  /\ heard = [c \in Clerks |-> "nothing"]

\* A mutant: only an order that is already paid is passed over.
SucceedUnlessPaid ==
  /\ order # "paid"
  /\ order' = "paid" /\ granted' = Grant /\ plan' = "active" /\ named' = TRUE
  /\ UNCHANGED <<psp, clawed, late, row, amount, bank, clerk>>

\* applyPaymentSucceeded: only a pending order is granted.
Succeed ==
  /\ order = "pending"
  /\ order' = "paid" /\ granted' = Grant /\ plan' = "active" /\ named' = TRUE
  /\ UNCHANGED <<psp, clawed, late, row, amount, bank, clerk>>

\* The subscribe handler replaces the metadata, whatever the order became.
Annotate ==
  /\ late /\ late' = FALSE
  /\ named' = FALSE
  /\ UNCHANGED <<psp, order, granted, clawed, plan, row, amount, bank, clerk>>

\* reversePaymentGrant, "failed": a pending order is buried, a granted one
\* emptied of its credits; the plan stays.
Cancel ==
  /\ psp = "yookassa"
  /\ order \in {"pending", "paid", "partially_refunded"}
  /\ order' = "failed"
  /\ clawed' = granted
  /\ UNCHANGED <<fixed, plan, row, amount, bank, clerk>>

(***************************************************************************)
(* The rest of reversePaymentGrant: the refund's row is confirmed, the     *)
(* clawback brought up to the share of all confirmed refunds, the order's  *)
(* status follows, and the row is applied.  A full refund ends the plan    *)
(* that the order's metadata names.                                        *)
(***************************************************************************)
Owed(f) == Share(Sum(In({"confirmed", "applied"}) \cup {f}))

Apply(f, target) ==
  LET whole == Sum(In({"confirmed", "applied"}) \cup {f}) >= Price
  IN  /\ row' = [row EXCEPT ![f] = "applied"]
      /\ IF order \in Refundable \cup {"pending"}
         THEN order' = IF whole THEN "refunded" ELSE "partially_refunded"
         ELSE UNCHANGED order
      /\ clawed' = IF order \in Refundable /\ granted > 0 /\ target > clawed
                   THEN target ELSE clawed
      /\ plan' = IF order \in Refundable /\ whole /\ named /\ plan = "active"
                 THEN "canceled" ELSE plan

\* A mutant: each refund takes back its own share, rounded on its own.
ReversePiecewise(f) ==
  IF row[f] = "applied" THEN UNCHANGED <<books, row>>
  ELSE Apply(f, clawed + Share(amount[f])) /\ UNCHANGED fixed

\* A mutant: the plan outlives the refund.
ReverseKeepingPlan(f) ==
  IF row[f] = "applied" THEN UNCHANGED <<books, row>>
  ELSE /\ row' = [row EXCEPT ![f] = "applied"]
       /\ order' = IF order \in Refundable \cup {"pending"}
                     /\ Sum(In({"confirmed", "applied"}) \cup {f}) >= Price
                   THEN "refunded" ELSE order
       /\ clawed' = IF order \in Refundable /\ granted > 0 THEN Owed(f) ELSE clawed
       /\ UNCHANGED <<fixed, plan>>

Reverse(f) ==
  IF row[f] = "applied" THEN UNCHANGED <<books, row>>
  ELSE Apply(f, Owed(f)) /\ UNCHANGED fixed

\* A mutant: the refunds of an order that failed are never looked for.
ReportUnlessFailed(f) ==
  /\ bank[f] = "done" /\ order # "failed"
  /\ Reverse(f)
  /\ UNCHANGED <<amount, bank, clerk>>

\* The webhook and the reconciliation report a refund the bank has made.
Report(f) ==
  /\ bank[f] = "done"
  /\ Reverse(f)
  /\ UNCHANGED <<amount, bank, clerk>>

\* A mutant: only paid orders are asked about.
ObserveRefusalOfPaid(f) ==
  /\ bank[f] = "refused" /\ row[f] = "pending" /\ order = "paid"
  /\ row' = [row EXCEPT ![f] = "rejected"]
  /\ UNCHANGED <<books, amount, bank, clerk>>

\* The reconciliation sees a refusal: recordRefundObservation.
ObserveRefusal(f) ==
  /\ bank[f] = "refused" /\ row[f] = "pending"
  /\ row' = [row EXCEPT ![f] = "rejected"]
  /\ UNCHANGED <<books, amount, bank, clerk>>

-----------------------------------------------------------------------------
Left == Price - Sum(In({"pending", "confirmed", "applied"}))

(***************************************************************************)
(* POST /v1/admin/billing/refund, under the user's lock: a row that exists *)
(* is taken up where it stands; a new one must fit into what is left.      *)
(***************************************************************************)
Request(c, f) ==
  LET asked == IF AmountOf[f] = 0 THEN Left ELSE AmountOf[f]
  IN  /\ at[c] = "idle" /\ f \notin ByHand
      /\ psp = "tochka"
      /\ order \in {"paid", "partially_refunded"}
      /\ op' = [op EXCEPT ![c] = f]
      /\ CASE row[f] = "none" ->
                /\ 0 < asked /\ asked <= Left
                /\ row' = [row EXCEPT ![f] = "pending"]
                /\ amount' = [amount EXCEPT ![f] = asked]
                /\ Goto(c, "asking") /\ UNCHANGED heard
           [] row[f] = "confirmed" ->
                /\ heard' = [heard EXCEPT ![c] = "done"]
                /\ Goto(c, "hearing") /\ UNCHANGED <<row, amount>>
           [] row[f] \in {"pending", "rejected"} ->
                Goto(c, "asking") /\ UNCHANGED <<row, amount, heard>>
           [] OTHER -> FALSE
      /\ UNCHANGED <<books, bank>>

\* The bank never returns more than it took; one uid is one refund.
Fits(f) == Sum({g \in Ids : bank[g] \in {"waiting", "done"}} \cup {f}) <= Price

\* refundPayment: the bank takes the request up, and its answer may be lost.
Ask(c) ==
  LET f == op[c]
  IN  /\ at[c] = "asking"
      /\ \E fate \in {"waiting", "done", "refused"} :
           /\ bank[f] # "none" => fate = bank[f]
           /\ fate # "refused" => Fits(f)
           /\ bank' = [bank EXCEPT ![f] = fate]
           /\ \E answer \in {fate, "nothing"} : heard' = [heard EXCEPT ![c] = answer]
      /\ Goto(c, "hearing")
      /\ UNCHANGED <<books, row, amount, op>>

\* A mutant: the answer is recorded whatever became of the row meanwhile.
RecordUnguarded(f, status) == row' = [row EXCEPT ![f] = status]

\* updateRefundRequest: an answer never takes a row back from applied.
Record(f, status) ==
  row' = [row EXCEPT ![f] =
    IF @ \in {"pending", "rejected"} \/ (status = "confirmed" /\ @ = "confirmed")
    THEN status ELSE @]

\* The answer is recorded; silence is no proof of anything.
Hear(c) ==
  /\ at[c] = "hearing"
  /\ CASE heard[c] = "done" -> Record(op[c], "confirmed") /\ Goto(c, "reversing")
       [] heard[c] = "refused" -> Record(op[c], "rejected") /\ Goto(c, "idle")
       [] OTHER -> Record(op[c], "pending") /\ Goto(c, "idle")
  /\ heard' = [heard EXCEPT ![c] = "nothing"]
  /\ UNCHANGED <<books, amount, bank, op>>

\* The clerk's own reversal of the refund the bank confirmed.
Conclude(c) ==
  /\ at[c] = "reversing"
  /\ Reverse(op[c])
  /\ Goto(c, "idle")
  /\ UNCHANGED <<amount, bank, op, heard>>

Crash(c) ==
  /\ at[c] # "idle"
  /\ Goto(c, "idle")
  /\ heard' = [heard EXCEPT ![c] = "nothing"]
  /\ UNCHANGED <<books, row, amount, bank, op>>

-----------------------------------------------------------------------------
\* The bank decides on what it was asked, or is asked at its own counter.
Decide(f) ==
  /\ bank[f] = "waiting"
  /\ \E fate \in {"done", "refused"} : bank' = [bank EXCEPT ![f] = fate]
  /\ UNCHANGED <<books, row, amount, clerk>>

RefundByHand(f) ==
  /\ f \in ByHand /\ bank[f] = "none" /\ Fits(f)
  /\ bank' = [bank EXCEPT ![f] = "done"]
  /\ UNCHANGED <<books, row, amount, clerk>>

Work(c) == Ask(c) \/ Hear(c) \/ Conclude(c) \/ Crash(c)
Reconcile(f) == Report(f) \/ ObserveRefusal(f)

Next ==
  \/ Succeed \/ Annotate \/ Cancel
  \/ \E f \in Ids : Reconcile(f) \/ Decide(f) \/ RefundByHand(f)
  \/ \E c \in Clerks : Work(c) \/ \E f \in Ids : Request(c, f)

\* The reconciliation comes round every minute; clerks may stop, the bank may wait.
Spec == Init /\ [][Next]_vars /\ \A f \in Ids : WF_vars(Reconcile(f))

-----------------------------------------------------------------------------
\* The order, the rows and the clerks have their types.
TypeOK ==
  /\ psp \in {"tochka", "yookassa"}
  /\ order \in Refundable \cup {"pending", "failed"}
  /\ granted \in {0, Grant} /\ clawed \in 0..Grant
  /\ plan \in {"none", "active", "canceled"}
  /\ named \in BOOLEAN /\ late \in BOOLEAN
  /\ row \in [Ids -> {"none", "pending", "confirmed", "applied", "rejected"}]
  /\ amount \in [Ids -> 0..Price]
  /\ bank \in [Ids -> {"none", "waiting", "done", "refused"}]
  /\ at \in [Clerks -> {"idle", "asking", "hearing", "reversing"}]
  /\ op \in [Clerks -> Ids]
  /\ heard \in [Clerks -> {"nothing", "waiting", "done", "refused"}]

(***************************************************************************)
(* What was taken back is the rounded share of what was refunded, whoever  *)
(* reported the refunds, how often, and into how many parts they came: no  *)
(* less than for those applied, no more than for those confirmed.  A       *)
(* cancelled payment leaves its credits to nobody, though it leaves the    *)
(* plan; and whoever got all the money back keeps no credits, even if the  *)
(* success is heard last, and keeps the plan only where a late note of     *)
(* Tochka's payment has erased its name from the order.                    *)
(***************************************************************************)
ClawbackMatchesRefunds ==
  /\ granted > 0 =>
       IF order = "failed" THEN clawed = granted
       ELSE clawed \in Share(Sum(In({"applied"}))) .. Share(Sum(In({"confirmed", "applied"})))
  /\ order = "refunded" =>
       clawed = granted /\ (plan = "active" => psp = "tochka" /\ ~late /\ ~named)

\* The bank has decided, and the row does not say so.
Outstanding(f) ==
  \/ bank[f] = "done" /\ row[f] # "applied"
  \/ bank[f] = "refused" /\ row[f] = "pending"

(***************************************************************************)
(* Every refund the bank made is applied in the end, and every one that it *)
(* refused stops holding its amount.                                       *)
(***************************************************************************)
RefundsConclude == \A f \in Ids : Outstanding(f) ~> ~Outstanding(f)

=============================================================================
