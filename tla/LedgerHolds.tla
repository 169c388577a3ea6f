----------------------------- MODULE LedgerHolds -----------------------------
(***************************************************************************)
(* The credit ledger implements, for every job, the hold that the job's    *)
(* settlement relies on (JobHold): the buckets, the other jobs, clawbacks  *)
(* and expiries do not show.                                               *)
(***************************************************************************)
EXTENDS CreditLedger

SettlementKinds == {"commit", "refund", "refund-partial"}

HoldOf(j) == INSTANCE JobHold WITH
  SettlementKeys <- SettlementKinds,
  reserved <- legs["reserve"][j],
  taken <- [k \in SettlementKinds |-> legs[k][j]]

(***************************************************************************)
(* commit and refund of a job settle at most what is left of its own hold, *)
(* each key once, and find all of it in the buckets when they come.  (It is*)
(* HoldOf(j)!Spec for every job j, with the quantifiers inside the boxes.) *)
(***************************************************************************)
HoldsImplemented ==
  /\ \A j \in Jobs : HoldOf(j)!Init
  /\ [][\A j \in Jobs : [HoldOf(j)!Next]_(HoldOf(j)!hold)]_vars

=============================================================================
