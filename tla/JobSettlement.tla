---------------------------- MODULE JobSettlement ----------------------------
(***************************************************************************)
(* A generation job and the hold of its credits.  The job writes the       *)
(* settlements it owes to the outbox; they reach the ledger in any order,  *)
(* any number of times, and are retried until they land.  The ledger takes *)
(* each under its own key and only from what is left of the hold.          *)
(***************************************************************************)
EXTENDS GenerationJob

CONSTANT Cost     \* what the job reserves

ASSUME CostAssumption == Cost \in Nat \ {0}

VARIABLES reserved, taken, spent

Ledger == INSTANCE JobHold WITH SettlementKeys <- Settlements

settlementVars == <<vars, reserved, taken, spent>>

SettlementInit == Init /\ Ledger!Init /\ spent = 0

\* The amounts of the outbox rows.
Amount(key) ==
  CASE key = "commit" -> spent
    [] key = "refund-partial" -> Cost - spent
    [] OTHER -> Cost

\* The transaction that creates the job also reserves.
Place == Create /\ Ledger!Reserve(Cost) /\ UNCHANGED <<taken, spent>>

\* computeSpent: a whole delivery costs the hold, a smaller one less.
Deliverance(w) ==
  /\ Settle(w)
  /\ spent' \in IF Charged \/ ~Charged' THEN {spent}
                ELSE IF "refund-partial" \in owed' THEN 1..(Cost - 1) ELSE {Cost}
  /\ UNCHANGED <<reserved, taken>>

\* The erasure refunds in its own transaction, which fails if it cannot.
Erase ==
  /\ EraseWrites
  /\ IF "erased" \in owed' THEN Ledger!Take("erased", Cost)
                           ELSE UNCHANGED <<reserved, taken>>
  /\ UNCHANGED spent

\* credits.commit and credits.refund workers: what does not land is retried.
Land(key) ==
  /\ key \in owed
  /\ Ledger!Take(key, Amount(key))
  /\ UNCHANGED <<vars, spent>>

Elsewhere ==
  \/ Deliver \/ Stall \/ Sweep \/ EraseReads
  \/ \E w \in Workers : Take(w) \/ Crash(w) \/ (RunJob(w) /\ ~At(w, "upload"))
                        \/ (At(w, "upload") /\ Break(w))

SettlementNext ==
  \/ Place \/ Erase
  \/ \E w \in Workers : Deliverance(w)
  \/ \E key \in Settlements : Land(key)
  \/ Elsewhere /\ UNCHANGED <<reserved, taken, spent>>

SettlementSpec ==
  /\ SettlementInit /\ [][SettlementNext]_settlementVars
  /\ WF_settlementVars(Sweep /\ UNCHANGED <<reserved, taken, spent>>)
  /\ \A key \in Settlements : WF_settlementVars(Land(key))

-----------------------------------------------------------------------------
(***************************************************************************)
(* Whatever faults let the job owe, the ledger charges or returns the hold *)
(* and never does both: a refund of the whole hold and a charge from it    *)
(* cannot both land.                                                       *)
(***************************************************************************)
LedgerPromise == INSTANCE HoldPromise WITH
  fate <- LET charged == taken["commit"] > 0
              returned == taken["refund"] + taken["erased"] > 0
          IN  CASE charged /\ returned -> "both"
                [] charged -> "charged"
                [] returned -> "returned"
                [] OTHER -> "held"

LedgerKeepsPromise == LedgerPromise!Spec

(***************************************************************************)
(* No credit stays held: once a job is created, its whole hold is settled  *)
(* in the end, whichever of crash, sweep, retry and erasure ends the job.  *)
(***************************************************************************)
HoldIsReleased == (reserved > 0) ~> (Ledger!Left = 0)

=============================================================================
