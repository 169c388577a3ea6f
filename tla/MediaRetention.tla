--------------------------- MODULE MediaRetention ---------------------------
(***************************************************************************)
(* How long one user's media are kept.  A row's expiry is the only clock:  *)
(* NULL while the user pays, thirty days otherwise, seconds for what the   *)
(* user deleted and may still undo.  Payments, refunds and the end of a    *)
(* plan set it, all under one lock per user; the reaper removes the        *)
(* objects and then the rows of what has run out, under a lock per asset.  *)
(***************************************************************************)
EXTENDS FiniteSets

CONSTANTS
  Assets

VARIABLES
  tiered,      \* users_app.tier is not 'free'
  plan,        \* subscriptions.status; "none": no subscription yet
  live,        \* its current_period_end is to come
  pack,        \* orders.our_status of a pack
  row,         \* the gallery item: none, shown, or deleted by its owner
  clock,       \* expires_at: NULL, ahead, or past
  before,      \* asset_deletion_leases.previous_expires_at
  object,      \* the asset's object is in the bucket
  reaping      \* the assets the reaper's transaction has locked

vars == <<tiered, plan, live, pack, row, clock, before, object, reaping>>
account == <<tiered, plan, live, pack>>
media == <<row, clock, before, object>>

\* hasPaidMediaStorage, after a change of the account.
Paid(p, l, k) == tiered \/ (p = "active" /\ l) \/ k = "paid"
Expiry == IF Paid(plan, live, pack) THEN "null" ELSE "ahead"
Shown == {a \in Assets : row[a] = "shown"}

-----------------------------------------------------------------------------
\* Nothing in billing writes users_app.tier: some accounts have one.
Init ==
  /\ tiered \in BOOLEAN
  /\ plan = "none" /\ live = FALSE /\ pack = "none"
  /\ row = [a \in Assets |-> "none"]
  /\ clock = [a \in Assets |-> "null"] /\ before = [a \in Assets |-> "null"]
  /\ object = [a \in Assets |-> FALSE]
  /\ reaping = {}

\* A payment stops the clock of everything shown; it waits for a locked row.
Promote ==
  /\ reaping \cap Shown = {}
  /\ clock' = [a \in Assets |-> IF a \in Shown THEN "null" ELSE clock[a]]
  /\ UNCHANGED <<tiered, row, before, object, reaping>>

\* Whoever pays no more gets thirty days for what had no clock.
Demote ==
  /\ clock' = IF Paid(plan', live', pack') THEN clock
              ELSE [a \in Assets |-> IF a \in Shown /\ clock[a] = "null" THEN "ahead" ELSE clock[a]]
  /\ UNCHANGED <<tiered, row, before, object, reaping>>

\* The settlement of a first payment, or a comped plan.
Subscribe ==
  /\ plan \in {"none", "ended"}
  /\ plan' = "active" /\ live' = TRUE
  /\ Promote
  /\ UNCHANGED pack

PeriodEnds ==
  /\ plan = "active" /\ live
  /\ live' = FALSE
  /\ UNCHANGED <<tiered, plan, pack, media, reaping>>

\* A renewal could not be charged, or nobody knows.
FallDue ==
  /\ plan = "active" /\ ~live
  /\ plan' = "past_due"
  /\ UNCHANGED <<tiered, live, pack, media, reaping>>

\* The settlement of a renewal; the media are left as they are.
Renew ==
  /\ plan \in {"active", "past_due"} /\ ~live
  /\ plan' = "active" /\ live' = TRUE
  /\ UNCHANGED <<tiered, pack, media, reaping>>

\* Expired by the worker, retired or cancelled after its period, closed or refunded.
EndPlan ==
  /\ plan \in {"active", "past_due"}
  /\ plan' = "ended" /\ live' = FALSE
  /\ UNCHANGED pack
  /\ Demote

BuyPack ==
  /\ pack = "none"
  /\ pack' = "paid"
  /\ Promote
  /\ UNCHANGED <<plan, live>>

\* A partial refund changes the order's status and nothing else here.
RefundPart ==
  /\ pack = "paid" /\ pack' = "partially_refunded"
  /\ UNCHANGED <<tiered, plan, live, media, reaping>>

RefundPack ==
  /\ pack \in {"paid", "partially_refunded"} /\ pack' = "refunded"
  /\ UNCHANGED <<plan, live>>
  /\ Demote

\* A cancelled payment takes its credits back and looks at no media.
CancelPack ==
  /\ pack \in {"paid", "partially_refunded"} /\ pack' = "failed"
  /\ UNCHANGED <<tiered, plan, live, media, reaping>>

-----------------------------------------------------------------------------
\* A job, a render or an upload: the object first, then the row.
Produce(a) ==
  /\ row[a] = "none" /\ ~object[a]
  /\ object' = [object EXCEPT ![a] = TRUE]
  /\ row' = [row EXCEPT ![a] = "shown"]
  /\ clock' = [clock EXCEPT ![a] = Expiry]
  /\ UNCHANGED <<account, before, reaping>>

\* DELETE /v1/assets/:id, under the asset's lock: the undo keeps the old clock.
Delete(a) ==
  /\ row[a] = "shown" /\ a \notin reaping
  /\ row' = [row EXCEPT ![a] = "deleted"]
  /\ before' = [before EXCEPT ![a] = clock[a]]
  /\ clock' = [clock EXCEPT ![a] = "ahead"]
  /\ UNCHANGED <<account, object, reaping>>

\* A mutant: the undo brings back the clock as it was.
RestoreClock(a) ==
  /\ row[a] = "deleted" /\ a \notin reaping /\ clock[a] = "ahead"
  /\ row' = [row EXCEPT ![a] = "shown"]
  /\ clock' = [clock EXCEPT ![a] = before[a]]
  /\ UNCHANGED <<account, before, object, reaping>>

\* POST /v1/assets/:id/restore, under the same lock, in time.
Restore(a) ==
  /\ row[a] = "deleted" /\ a \notin reaping /\ clock[a] = "ahead"
  /\ row' = [row EXCEPT ![a] = "shown"]
  /\ clock' = [clock EXCEPT ![a] = IF Expiry = "ahead" /\ before[a] # "null" THEN before[a] ELSE Expiry]
  /\ UNCHANGED <<account, before, object, reaping>>

\* Time passes, for the clock the undo would bring back as well.
Elapse(a) ==
  \/ /\ row[a] # "none" /\ clock[a] = "ahead"
     /\ clock' = [clock EXCEPT ![a] = "past"]
     /\ UNCHANGED <<account, row, before, object, reaping>>
  \/ /\ row[a] = "deleted" /\ before[a] = "ahead"
     /\ before' = [before EXCEPT ![a] = "past"]
     /\ UNCHANGED <<account, row, clock, object, reaping>>

-----------------------------------------------------------------------------
\* The reaper's transaction locks a batch of rows that have run out...
Pick(batch) ==
  /\ reaping = {} /\ batch # {}
  /\ \A a \in batch : row[a] # "none" /\ clock[a] = "past"
  /\ reaping' = batch
  /\ UNCHANGED <<account, media>>

\* ... removes their objects, or some of them before it fails...
Remove(batch) ==
  /\ batch # {} /\ batch \subseteq reaping /\ \A a \in batch : object[a]
  /\ object' = [a \in Assets |-> object[a] /\ a \notin batch]
  /\ UNCHANGED <<account, row, clock, before, reaping>>

\* ... and then, with all objects gone, the rows.
DeleteRows ==
  /\ reaping # {} /\ \A a \in reaping : ~object[a]
  /\ row' = [a \in Assets |-> IF a \in reaping THEN "none" ELSE row[a]]
  /\ reaping' = {}
  /\ UNCHANGED <<account, clock, before, object>>

\* The storage fails or the worker dies: the rows stay, and are unlocked.
RollBack ==
  /\ reaping # {} /\ reaping' = {}
  /\ UNCHANGED <<account, media>>

Settlements ==
  \/ Subscribe \/ PeriodEnds \/ FallDue \/ Renew \/ EndPlan
  \/ BuyPack \/ RefundPart \/ RefundPack \/ CancelPack

Next ==
  \/ Settlements \/ DeleteRows \/ RollBack
  \/ \E a \in Assets : Produce(a) \/ Delete(a) \/ Restore(a) \/ Elapse(a)
  \/ \E batch \in SUBSET Assets : Pick(batch) \/ Remove(batch)

Spec == Init /\ [][Next]_vars

-----------------------------------------------------------------------------
\* The account, its media and the reaper have their types.
TypeOK ==
  /\ plan \in {"none", "active", "past_due", "ended"} /\ {tiered, live} \subseteq BOOLEAN
  /\ pack \in {"none", "paid", "partially_refunded", "refunded", "failed"}
  /\ row \in [Assets -> {"none", "shown", "deleted"}]
  /\ clock \in [Assets -> {"null", "ahead", "past"}]
  /\ before \in [Assets -> {"null", "ahead", "past"}]
  /\ object \in [Assets -> BOOLEAN]
  /\ reaping \subseteq Assets

(***************************************************************************)
(* Whoever was never charged, or whose plan has ended and whose pack was   *)
(* refunded whole, stores nothing for ever: however deletions, undos and   *)
(* the ends of plan and pack interleave, what is on show has its clock     *)
(* again.  A pack whose payment was cancelled, or refunded in part, starts *)
(* no clock by itself; those two are left out.                             *)
(***************************************************************************)
FreeMediaHasAClock ==
  ~tiered /\ plan \in {"none", "ended"} /\ pack \in {"none", "refunded"} =>
    \A a \in Shown : clock[a] # "null"

(***************************************************************************)
(* As the comment on the clock says, paid is permanent: what a paying user *)
(* has on show never expires.                                              *)
(***************************************************************************)
PaidIsPermanent ==
  Paid(plan, live, pack) => \A a \in Shown : clock[a] = "null"

=============================================================================
