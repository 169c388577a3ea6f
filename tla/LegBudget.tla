------------------------------ MODULE LegBudget ------------------------------
(***************************************************************************)
(* The loss budget of the last, official leg.  A job that falls back to it *)
(* books its worst case before it submits, under a lock that makes the     *)
(* reading of the budget and the booking one decision; the transaction     *)
(* that ends the job replaces the booking by what the attempt really cost  *)
(* and earned; the reaper closes what nobody closed.                       *)
(*                                                                         *)
(* Rows are in the order they were booked, and leave the rolling window in *)
(* that order; the day's and the month's windows follow the same rule, so  *)
(* that one of them is modelled.  Money is in units of half a worst case.  *)
(***************************************************************************)
EXTENDS Integers, Sequences, FiniteSets, FiniteSetsExt

CONSTANTS
  Jobs,
  MaxRows,             \* bound: attempts on the leg
  Worst,               \* the cost that is booked: units at the configured rate
  Bills,               \* what the vendor may charge for an attempt
  Price,               \* what the customer of a finished job has paid
  Cap                  \* the budget of the window

VARIABLES
  rows,        \* official_leg_spend, with the vendor's true bill
  job,         \* jobs.status
  at,          \* the worker's step
  mine,        \* the attempt it has booked
  invoice,     \* the bill its result came with; 0: none, or not the whole
  lock,        \* who holds OFFICIAL_LEG_RESERVATION_LOCK
  seen         \* the window's losses as its holder read them

vars == <<rows, job, at, mine, invoice, lock, seen>>

Nobody == "nobody"
Row(j) == [job |-> j, source |-> "reserved", cost |-> Worst, pending |-> Worst,
           revenue |-> 0, bill |-> 0, inside |-> TRUE]

Goto(j, step) == at' = [at EXCEPT ![j] = step]
Leave(j) ==
  /\ Goto(j, "idle")
  /\ mine' = [mine EXCEPT ![j] = 0]
  /\ invoice' = [invoice EXCEPT ![j] = 0]
Open(i) == rows[i].source = "reserved"
OpenOf(j) == {i \in DOMAIN rows : rows[i].job = j /\ Open(i)}

\* readOfficialLegSpend: the loss of every job by itself, profits counting for none.
Loss(j) ==
  LET net == SumFunctionOnSet([i \in DOMAIN rows |-> rows[i].cost - rows[i].revenue],
                              {i \in DOMAIN rows : rows[i].job = j /\ rows[i].inside})
  IN  IF net > 0 THEN net ELSE 0
Spend == SumFunctionOnSet([j \in Jobs |-> Loss(j)], Jobs)

-----------------------------------------------------------------------------
Init ==
  /\ rows = << >>
  /\ job = [j \in Jobs |-> "queued"]
  /\ at = [j \in Jobs |-> "idle"]
  /\ mine = [j \in Jobs |-> 0]
  /\ invoice = [j \in Jobs |-> 0]
  /\ lock = Nobody
  /\ seen = 0

\* runJob claims the job; another leg delivers, or the chain comes to this one.
Route(j) ==
  /\ job[j] = "queued" /\ at[j] = "idle"
  /\ job' = [job EXCEPT ![j] = "running"]
  /\ Goto(j, "delivered") \/ Goto(j, "asking")
  /\ UNCHANGED <<rows, mine, invoice, lock, seen>>

\* reserveOfficialLegSpend takes the lock and reads the windows.
ReadBudget(j) ==
  /\ at[j] = "asking" /\ lock = Nobody
  /\ lock' = j
  /\ seen' = Spend
  /\ Goto(j, "deciding")
  /\ UNCHANGED <<rows, job, mine, invoice>>

\* A mutant: the history alone decides, without the job that asks.
BookHistory(j) ==
  /\ at[j] = "deciding"
  /\ lock' = Nobody /\ seen' = 0
  /\ IF seen < Cap
     THEN /\ Len(rows) < MaxRows
          /\ rows' = Append(rows, Row(j))
          /\ mine' = [mine EXCEPT ![j] = Len(rows) + 1]
          /\ Goto(j, "submitting")
     ELSE Goto(j, "hopeless") /\ UNCHANGED <<rows, mine>>
  /\ UNCHANGED <<job, invoice>>

\* It books the worst case if that fits under both caps, and commits.
Book(j) ==
  /\ at[j] = "deciding"
  /\ lock' = Nobody /\ seen' = 0
  /\ IF seen + Worst < Cap
     THEN /\ Len(rows) < MaxRows
          /\ rows' = Append(rows, Row(j))
          /\ mine' = [mine EXCEPT ![j] = Len(rows) + 1]
          /\ Goto(j, "submitting")
     ELSE Goto(j, "hopeless") /\ UNCHANGED <<rows, mine>>
  /\ UNCHANGED <<job, invoice>>

(***************************************************************************)
(* The delegate's paid calls.  All delivered, with the whole bill or       *)
(* without; or one failed, whatever its siblings cost; or a single call    *)
(* was refused outright and cost nothing.                                  *)
(***************************************************************************)
Submit(j) ==
  /\ at[j] = "submitting"
  /\ \E bill \in Bills :
       /\ rows' = [rows EXCEPT ![mine[j]].bill = bill]
       /\ \/ Goto(j, "delivered") /\ \E told \in {0, bill} : invoice' = [invoice EXCEPT ![j] = told]
          \/ Goto(j, "failed") /\ UNCHANGED invoice
          \/ bill = 0 /\ Goto(j, "refused") /\ UNCHANGED invoice
  /\ UNCHANGED <<job, mine, lock, seen>>

\* A mutant: what is in flight is not taken back with the cost.
ReleaseInFlight(j) ==
  LET i == mine[j]
  IN  /\ at[j] = "refused"
      /\ rows' = IF Open(i) THEN [rows EXCEPT ![i].cost = @ - rows[i].pending, ![i].source = "released"]
                            ELSE rows
      /\ Goto(j, "failed")
      /\ UNCHANGED <<job, mine, invoice, lock, seen>>

\* A mutant: the job's bookings are given back, not the attempt's.
ReleaseJob(j) ==
  /\ at[j] = "refused"
  /\ rows' = [i \in DOMAIN rows |->
                IF i \in OpenOf(j)
                THEN [rows[i] EXCEPT !.cost = @ - rows[i].pending, !.pending = 0, !.source = "released"]
                ELSE rows[i]]
  /\ Goto(j, "failed")
  /\ UNCHANGED <<job, mine, invoice, lock, seen>>

\* releaseOfficialLegSpend: this attempt's booking, if it is still open.
Release(j) ==
  LET i == mine[j]
  IN  /\ at[j] = "refused"
      /\ rows' = IF Open(i)
                 THEN [rows EXCEPT ![i].cost = @ - rows[i].pending, ![i].pending = 0,
                                   ![i].source = "released"]
                 ELSE rows
      /\ Goto(j, "failed")
      /\ UNCHANGED <<job, mine, invoice, lock, seen>>

-----------------------------------------------------------------------------
\* settleOfficialLegSpend: every open row is closed, the last at its invoice.
Settled(j, bill, earned) ==
  [i \in DOMAIN rows |->
     IF i \in OpenOf(j)
     THEN LET last == i = Max(OpenOf(j))
          IN  [rows[i] EXCEPT
                 !.cost = IF last /\ bill > 0 THEN @ - rows[i].pending + bill ELSE @,
                 !.revenue = IF last THEN @ + earned ELSE @,
                 !.pending = 0,
                 !.source = IF last /\ bill > 0 THEN "invoiced" ELSE "configured"]
     ELSE rows[i]]

\* A mutant: an invoice is settled without the lock.
FinishUnlocked(j) ==
  /\ at[j] = "delivered"
  /\ IF job[j] = "running"
     THEN /\ job' = [job EXCEPT ![j] = "succeeded"]
          /\ rows' = Settled(j, invoice[j], Price)
     ELSE rows' = Settled(j, invoice[j], 0) /\ UNCHANGED job
  /\ Leave(j)
  /\ UNCHANGED <<lock, seen>>

\* A mutant: a job that was failed and refunded meanwhile earns all the same.
FinishEarning(j) ==
  /\ at[j] = "delivered"
  /\ invoice[j] > 0 => lock = Nobody
  /\ job' = [job EXCEPT ![j] = IF @ = "running" THEN "succeeded" ELSE @]
  /\ rows' = Settled(j, invoice[j], Price)
  /\ Leave(j)
  /\ UNCHANGED <<lock, seen>>

(***************************************************************************)
(* The settling transaction of a delivered job.  An invoice, which may     *)
(* raise what is spent, waits for the lock.                                *)
(***************************************************************************)
Finish(j) ==
  /\ at[j] = "delivered"
  /\ invoice[j] > 0 => lock = Nobody
  /\ IF job[j] = "running"
     THEN /\ job' = [job EXCEPT ![j] = "succeeded"]
          /\ rows' = Settled(j, invoice[j], Price)
     ELSE rows' = Settled(j, invoice[j], 0) /\ UNCHANGED job
  /\ Leave(j)
  /\ UNCHANGED <<lock, seen>>

\* The catch block: back to the queue while attempts are left...
Retry(j) ==
  /\ at[j] = "failed"
  /\ job' = [job EXCEPT ![j] = IF @ = "running" THEN "queued" ELSE @]
  /\ Leave(j)
  /\ UNCHANGED <<rows, lock, seen>>

\* ... or the end of the job; a delivered result may fail on its way as well.
Fail(j) ==
  /\ at[j] \in {"failed", "hopeless", "delivered"}
  /\ job' = [job EXCEPT ![j] = "failed"]
  /\ rows' = Settled(j, 0, 0)
  /\ Leave(j)
  /\ UNCHANGED <<lock, seen>>

Crash(j) ==
  /\ at[j] # "idle"
  /\ Leave(j)
  /\ lock' = IF lock = j THEN Nobody ELSE lock
  /\ seen' = IF lock = j THEN 0 ELSE seen
  /\ UNCHANGED <<rows, job>>

Ended(j) == job[j] \notin {"queued", "running"}

\* A mutant: only the jobs failed by this very tick are looked at.
TickReaped(reaped) ==
  /\ reaped \subseteq {j \in Jobs : ~Ended(j)}
  /\ job' = [j \in Jobs |-> IF j \in reaped THEN "failed" ELSE job[j]]
  /\ rows' = [i \in DOMAIN rows |->
                IF Open(i) /\ rows[i].job \in reaped
                THEN [rows[i] EXCEPT !.pending = 0, !.source = "configured"] ELSE rows[i]]
  /\ rows' # rows \/ job' # job
  /\ UNCHANGED <<at, mine, invoice, lock, seen>>

(***************************************************************************)
(* One tick of the reaper: it fails the jobs that have taken too long, and *)
(* closes what is open of any job that has ended                           *)
(* (sweepUnsettledOfficialLegSpend).                                       *)
(***************************************************************************)
Tick(reaped) ==
  /\ reaped \subseteq {j \in Jobs : ~Ended(j)}
  /\ job' = [j \in Jobs |-> IF j \in reaped THEN "failed" ELSE job[j]]
  /\ rows' = [i \in DOMAIN rows |->
                IF Open(i) /\ (Ended(rows[i].job) \/ rows[i].job \in reaped)
                THEN [rows[i] EXCEPT !.pending = 0, !.source = "configured"] ELSE rows[i]]
  /\ rows' # rows \/ job' # job
  /\ UNCHANGED <<at, mine, invoice, lock, seen>>

\* A tick that finds the job to have taken too long.
Reap(j) == \E reaped \in SUBSET Jobs : j \in reaped /\ Tick(reaped)

\* A row leaves the window when all older ones have, and long after it is closed.
Age(i) ==
  /\ i \in DOMAIN rows /\ rows[i].inside /\ ~Open(i)
  /\ \A k \in 1..(i - 1) : ~rows[k].inside
  /\ rows' = [rows EXCEPT ![i].inside = FALSE]
  /\ UNCHANGED <<job, at, mine, invoice, lock, seen>>

Work(j) ==
  \/ Route(j) \/ ReadBudget(j) \/ Book(j) \/ Submit(j) \/ Release(j)
  \/ Finish(j) \/ Retry(j) \/ Fail(j) \/ Crash(j)

Next ==
  \/ \E j \in Jobs : Work(j)
  \/ \E reaped \in SUBSET Jobs : Tick(reaped)
  \/ \E i \in 1..MaxRows : Age(i)

\* Workers may stop anywhere; the reaper comes round, and no job outlasts it.
Spec == /\ Init /\ [][Next]_vars
        /\ \A j \in Jobs : WF_vars(Reap(j))
        /\ WF_vars(Tick({}))

-----------------------------------------------------------------------------
\* Rows, jobs and workers have their types; money booked is still in flight
\* just as long as the row is open.
TypeOK ==
  /\ rows \in Seq([job : Jobs, source : {"reserved", "invoiced", "configured", "released"},
                   cost : Int, pending : {0, Worst}, revenue : {0, Price},
                   bill : Bills \cup {0}, inside : BOOLEAN])
  /\ \A i \in DOMAIN rows : rows[i].cost >= 0 /\ (rows[i].pending > 0 <=> Open(i))
  /\ job \in [Jobs -> {"queued", "running", "succeeded", "failed"}]
  /\ at \in [Jobs -> {"idle", "asking", "deciding", "submitting", "refused", "delivered",
                      "failed", "hopeless"}]
  /\ mine \in [Jobs -> 0..MaxRows]
  /\ invoice \in [Jobs -> Bills \cup {0}]
  /\ lock \in Jobs \cup {Nobody}
  /\ seen \in Nat

(***************************************************************************)
(* An attempt goes out only if the losses of the window, with its own      *)
(* worst case and with every invoice that has come in by then, stay under  *)
(* the cap: the lock leaves no gap for an invoice between the reading and  *)
(* the booking.                                                            *)
(***************************************************************************)
ApprovedUnderCap ==
  [][Len(rows') > Len(rows) => Spend' < Cap]_vars

(***************************************************************************)
(* No loss is hidden.  What the vendor billed stays in the budget, up to   *)
(* what was booked for that attempt, whatever another attempt of the job   *)
(* was invoiced or released for; and who was refunded has paid for nothing:*)
(* no revenue covers such a loss.                                          *)
(***************************************************************************)
LossesAreBooked ==
  \A i \in DOMAIN rows :
    /\ rows[i].cost >= (IF rows[i].bill < Worst THEN rows[i].bill ELSE Worst)
    /\ rows[i].revenue > 0 => job[rows[i].job] = "succeeded"

\* No booking holds its worst case against the caps for ever.
BookingsClose == (\E j \in Jobs : OpenOf(j) # {}) ~> (\A j \in Jobs : OpenOf(j) = {})

=============================================================================
