--------------------------------- MODULE Work ---------------------------------
(***************************************************************************)
(* Five parts around generation jobs: paid script requests, the official   *)
(* leg's budget, a studio render, a board in several tabs, a guest's work. *)
(* They share no variable; as in Billing, a behaviour is about the part in *)
(* focus, and the others rest.                                             *)
(***************************************************************************)
EXTENDS Integers, FiniteSets, RenderPromise, BoardPromise, ReaperPromise

CONSTANTS
  Requests, KeyOf,                          \* of PaidClaim
  Jobs, MaxRows, Worst, Bills, Price, Cap,  \* of LegBudget
  Runs,                                     \* of StudioRender
  Tabs, Edits, MaxRev, None                 \* of BoardAutosave; Works is GuestWork's

ASSUME BudgetAssumption ==
  /\ IsFiniteSet(Jobs) /\ "nobody" \notin Jobs
  /\ {MaxRows, Price} \subseteq Nat /\ Worst \in Nat \ {0} /\ Cap \in Nat
  /\ Bills \subseteq Nat

ASSUME RevisionAssumption == MaxRev \in Nat

VARIABLES
  focus,
  row, held, expired, at, blocker, owed, hold,
  rows, job, step, mine, invoice, lock, seen,
  run,
  rev, open, here, base, localDirty, dirty, saving, timer, blocked, stored, beacons,
  auth, uploads, shown, reaper   \* the rest is declared by the promises

Claims == INSTANCE PaidClaim

Budget == INSTANCE LegBudget WITH at <- step

Render == INSTANCE StudioRender WITH at <- run

Board == INSTANCE BoardAutosave

Guests == INSTANCE GuestWork

claimsVars == <<row, held, expired, at, blocker, owed, hold>>
budgetVars == <<rows, job, step, mine, invoice, lock, seen>>
renderVars == <<status, file, items, run>>
boardVars == <<rev, doc, open, here, base, localDirty, dirty, saving, timer, blocked, stored,
               beacons, given>>
guestsVars == <<auth, app, owner, uploads, objects, shown, listed, claim, stale, reaper>>
vars == <<focus, claimsVars, budgetVars, renderVars, boardVars, guestsVars>>

-----------------------------------------------------------------------------
Init ==
  /\ focus \in {"claims", "budget", "render", "board", "guests"}
  /\ Claims!Init /\ Budget!Init /\ Render!Init /\ Board!Init
  /\ Guests!Init /\ (focus # "guests" => auth["person"] = "unborn")

ClaimsStep ==
  /\ focus = "claims" /\ Claims!Next
  /\ UNCHANGED <<focus, budgetVars, renderVars, boardVars, guestsVars>>

BudgetStep ==
  /\ focus = "budget" /\ Budget!Next
  /\ UNCHANGED <<focus, claimsVars, renderVars, boardVars, guestsVars>>

RenderStep ==
  /\ focus = "render" /\ Render!Next
  /\ UNCHANGED <<focus, claimsVars, budgetVars, boardVars, guestsVars>>

BoardStep ==
  /\ focus = "board" /\ Board!Next
  /\ UNCHANGED <<focus, claimsVars, budgetVars, renderVars, guestsVars>>

GuestsStep ==
  /\ focus = "guests" /\ Guests!Next
  /\ UNCHANGED <<focus, claimsVars, budgetVars, renderVars, boardVars>>

Next == ClaimsStep \/ BudgetStep \/ RenderStep \/ BoardStep \/ GuestsStep

\* The fairness of each part's own specification; three have none.
Fairness ==
  /\ \A r \in Requests : /\ WF_claimsVars(focus = "claims" /\ Claims!Expire(r))
                         /\ WF_claimsVars(focus = "claims" /\ Claims!Sweep(r))
  /\ \A r \in Requests, leg \in {"commit", "refund"} :
       WF_claimsVars(focus = "claims" /\ Claims!Land(r, leg))
  /\ \A j \in Jobs : WF_budgetVars(focus = "budget" /\ Budget!Reap(j))
  /\ WF_budgetVars(focus = "budget" /\ Budget!Tick({}))

Spec == Init /\ [][Next]_vars /\ Fairness

-----------------------------------------------------------------------------
\* Every part's variables have their types.
TypesOK == Claims!TypeOK /\ Budget!TypeOK /\ Render!TypeOK /\ Board!TypeOK /\ Guests!TypeOK

\* A key's result is paid for once, and can be fetched again.
OneChargePerKey == Claims!OneChargePerKey

\* Every settlement that is owed finds the hold it settles.
OwedIsHeld == Claims!OwedIsHeld

\* No hold of a paid request is stranded.
HoldsSettle == Claims!HoldsSettle

\* No attempt goes out that could exceed the leg's budget.
ApprovedUnderCap == Budget!ApprovedUnderCap

\* What an attempt cost stays in the budget, and no refunded job covers it.
LossesAreBooked == Budget!LossesAreBooked

\* No booking holds its worst case for ever.
BookingsClose == Budget!BookingsClose

=============================================================================
