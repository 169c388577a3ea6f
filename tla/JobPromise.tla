----------------------------- MODULE JobPromise -------------------------------
(***************************************************************************)
(* What a generation job promises the customer and the house, by its       *)
(* status, the settlements it has caused and what vendors are generating.  *)
(* GenerationJob keeps it as long as BullMQ's locks and the database's     *)
(* acknowledgements are sound.                                             *)
(***************************************************************************)
EXTENDS Integers, FiniteSets

VARIABLES
  status,        \* jobs.status, or "none" before the job is created
  owed,          \* the settlements written to the outbox, or done by erasure
  live           \* attempts the vendor took on whose end nobody has seen

Charged == "commit" \in owed
Returned == "refund" \in owed \/ "erased" \in owed

(***************************************************************************)
(* The job's end and the money's way agree, whoever ends the job: what     *)
(* succeeded is charged and not returned, what failed the other way round, *)
(* and no money moves for a job that has not ended.                        *)
(***************************************************************************)
SettledAsFinished ==
  (status = "succeeded" <=> Charged) /\ (status = "failed" <=> Returned)

(***************************************************************************)
(* No second generation is bought while an earlier one that was paid for   *)
(* may still deliver: across retries, redeliveries, crashes and legs.      *)
(***************************************************************************)
NoSecondPurchase == Cardinality(live) <= 1

\* The hold of the job is charged or returned, once and for good.
Promise == INSTANCE HoldPromise WITH
  fate <- CASE Charged /\ Returned -> "both"
            [] Charged -> "charged"
            [] Returned -> "returned"
            [] OTHER -> "held"

PromiseKept == Promise!Spec

=============================================================================
