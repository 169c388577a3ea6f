------------------------------ MODULE PaidClaim ------------------------------
(***************************************************************************)
(* Paid script requests of one user and one operation (structurize): each  *)
(* request claims a row, holds credits, calls the model, and charges or    *)
(* returns the hold.  A row in progress whose lease has expired is taken   *)
(* away by the user's next request or by the reaper, while the handler it  *)
(* belongs to may still be at work.                                        *)
(*                                                                         *)
(* Each statement or transaction of the handler is one step.  Time is one  *)
(* Boolean per row: whether its lease has expired.                         *)
(***************************************************************************)
EXTENDS Naturals, FiniteSets

CONSTANTS
  Requests,    \* calls of the handler, each with a row and a hold of its own
  KeyOf        \* the idempotency key each request comes with

VARIABLES
  row,         \* script_assist_requests.status of the request's row
  held,        \* its column reserved: the hold is confirmed
  expired,     \* its updated_at is older than the lease
  at,          \* the handler's step
  blocker,     \* the row the handler found in its way
  owed,        \* settlements written to the outbox
  hold         \* the request's hold in the ledger

vars == <<row, held, expired, at, blocker, owed, hold>>
ledger == <<owed, hold>>
columns == <<row, held, expired>>

Nobody == "nobody"

Legs == {"commit", "refund"}
Steps == {"idle", "blocked", "unknown", "clearing", "reclaiming", "again",
          "claimed", "unreserved", "reserved", "calling", "parsed", "refunding",
          "returned", "lost", "done"}
Over == {"idle", "lost", "done"}

Present(q) == row[q] \in {"in_progress", "completed", "failed"}
Goto(r, step) == at' = [at EXCEPT ![r] = step]

-----------------------------------------------------------------------------
Init ==
  /\ row = [r \in Requests |-> "none"]
  /\ held = [r \in Requests |-> FALSE]
  /\ expired = [r \in Requests |-> FALSE]
  /\ at = [r \in Requests |-> "idle"]
  /\ blocker = [r \in Requests |-> Nobody]
  /\ owed = [r \in Requests |-> {}]
  /\ hold = [r \in Requests |-> "none"]

\* The unique indexes: one row per key, one row in progress.
InTheWay(r) == {q \in Requests : Present(q) /\ (KeyOf[q] = KeyOf[r] \/ row[q] = "in_progress")}

\* tryClaim: INSERT ... ON CONFLICT DO NOTHING; the second refusal is a 409.
Claim(r) ==
  /\ at[r] \in {"idle", "again"}
  /\ IF InTheWay(r) = {}
     THEN row' = [row EXCEPT ![r] = "in_progress"] /\ Goto(r, "claimed")
     ELSE UNCHANGED row /\ Goto(r, IF at[r] = "idle" THEN "blocked" ELSE "done")
  /\ UNCHANGED <<held, expired, blocker, ledger>>

\* What the handler does about a row in progress: wait, or reclaim a stale one.
FoundInProgress(r, q) ==
  IF expired[q] THEN Goto(r, "reclaiming") /\ blocker' = [blocker EXCEPT ![r] = q]
                ELSE Goto(r, "done") /\ UNCHANGED blocker

\* The row with the request's own key: replay, clear away, or reclaim.
LookUpKey(r) ==
  /\ at[r] = "blocked"
  /\ \/ /\ \A q \in Requests : Present(q) => KeyOf[q] # KeyOf[r]
        /\ Goto(r, "unknown") /\ UNCHANGED blocker
     \/ \E q \in Requests :
          /\ Present(q) /\ KeyOf[q] = KeyOf[r]
          /\ CASE row[q] = "completed" -> Goto(r, "done") /\ UNCHANGED blocker
               [] row[q] = "failed" -> /\ Goto(r, "clearing")
                                       /\ blocker' = [blocker EXCEPT ![r] = q]
               [] row[q] = "in_progress" -> FoundInProgress(r, q)
  /\ UNCHANGED <<columns, ledger>>

\* Else the user's row in progress under another key.
LookUpInFlight(r) ==
  /\ at[r] = "unknown"
  /\ \/ /\ \A q \in Requests : row[q] # "in_progress"
        /\ Goto(r, "done") /\ UNCHANGED blocker
     \/ \E q \in Requests : row[q] = "in_progress" /\ FoundInProgress(r, q)
  /\ UNCHANGED <<columns, ledger>>

Delete(q) ==
  /\ row' = [row EXCEPT ![q] = "deleted"]
  /\ held' = [held EXCEPT ![q] = FALSE]
  /\ expired' = [expired EXCEPT ![q] = FALSE]

\* Deletes the failed row, if it still is one, and claims again.
Clear(r) ==
  /\ at[r] = "clearing"
  /\ IF row[blocker[r]] = "failed" THEN Delete(blocker[r]) ELSE UNCHANGED columns
  /\ Goto(r, "again")
  /\ blocker' = [blocker EXCEPT ![r] = Nobody]
  /\ UNCHANGED ledger

\* A mutant: the refund is owed whether or not the hold was confirmed.
RemoveUnasked(q) == Delete(q) /\ owed' = [owed EXCEPT ![q] = @ \cup {"refund"}]

\* Deleting a row in progress owes the refund of a confirmed hold.
Remove(q) ==
  /\ Delete(q)
  /\ owed' = IF held[q] THEN [owed EXCEPT ![q] = @ \cup {"refund"}] ELSE owed

\* reclaimStaleClaim: only the winner of the conditional delete owns the row.
\* The lease is not read again.
Reclaim(r) ==
  /\ at[r] = "reclaiming"
  /\ IF row[blocker[r]] = "in_progress"
     THEN Remove(blocker[r]) /\ Goto(r, "again")
     ELSE Goto(r, "done") /\ UNCHANGED <<columns, owed>>
  /\ blocker' = [blocker EXCEPT ![r] = Nobody]
  /\ UNCHANGED hold

-----------------------------------------------------------------------------
\* An update of the row renews its lease.
Update(r, status) ==
  /\ row' = [row EXCEPT ![r] = status]
  /\ expired' = [expired EXCEPT ![r] = FALSE]

\* markRequest: by the id alone, if the row is there; the update itself may fail.
Mark(r) ==
  \/ Present(r) /\ Update(r, "failed")
  \/ UNCHANGED <<row, expired>>

\* The daily cap refuses the request.
Capped(r) ==
  /\ at[r] = "claimed"
  /\ Mark(r) /\ Goto(r, "done")
  /\ UNCHANGED <<held, blocker, ledger>>

\* One transaction reserves and confirms, fenced on the row being in progress.
Reserve(r) ==
  /\ at[r] = "claimed"
  /\ \/ /\ row[r] = "in_progress"
        /\ hold' = [hold EXCEPT ![r] = "held"]
        /\ held' = [held EXCEPT ![r] = TRUE]
        /\ expired' = [expired EXCEPT ![r] = FALSE]
        /\ Goto(r, "reserved")
     \/ /\ row[r] # "in_progress"
        /\ Goto(r, "lost") /\ UNCHANGED <<hold, held, expired>>
     \/ Goto(r, "unreserved") /\ UNCHANGED <<hold, held, expired>>
  /\ UNCHANGED <<row, blocker, owed>>

\* A reservation that was refused, or that failed.
GiveUp(r) ==
  /\ at[r] = "unreserved"
  /\ Mark(r) /\ Goto(r, "done")
  /\ UNCHANGED <<held, blocker, ledger>>

\* The lease is renewed before the provider call; an error here is not caught.
Renew(r) ==
  /\ at[r] = "reserved"
  /\ \/ /\ expired' = IF Present(r) THEN [expired EXCEPT ![r] = FALSE] ELSE expired
        /\ Goto(r, "calling")
     \/ Goto(r, "done") /\ UNCHANGED expired
  /\ UNCHANGED <<row, held, blocker, ledger>>

\* The provider's answer is usable, or after all attempts it is not.
Call(r) ==
  /\ at[r] = "calling"
  /\ Goto(r, "parsed") \/ Goto(r, "refunding")
  /\ UNCHANGED <<columns, blocker, ledger>>

\* A mutant: the completion is not fenced on the row being in progress.
CommitUnfenced(r) ==
  /\ at[r] = "parsed"
  /\ IF Present(r) THEN Update(r, "completed") ELSE UNCHANGED <<row, expired>>
  /\ owed' = [owed EXCEPT ![r] = @ \cup {"commit"}]
  /\ Goto(r, "done")
  /\ UNCHANGED <<held, blocker, hold>>

(***************************************************************************)
(* commitAtomic: the result and the charge in one transaction, fenced on   *)
(* the row and on the script's revision, which the user may have changed.  *)
(* A lost fence answers 409 and settles nothing; any other error leads to  *)
(* the refund.                                                             *)
(***************************************************************************)
Commit(r) ==
  /\ at[r] = "parsed"
  /\ \/ /\ row[r] = "in_progress"
        /\ Update(r, "completed")
        /\ owed' = [owed EXCEPT ![r] = @ \cup {"commit"}]
        /\ Goto(r, "done")
     \/ (Goto(r, "lost") \/ Goto(r, "refunding")) /\ UNCHANGED <<row, expired, owed>>
  /\ UNCHANGED <<held, blocker, hold>>

\* The ledger takes a settlement from a hold that is there, and replays its own.
Lands(r, leg) ==
  LET fate == IF leg = "commit" THEN "charged" ELSE "returned"
  IN  hold[r] \in {"held", fate} /\ hold' = [hold EXCEPT ![r] = fate]

\* A mutant: the row is made terminal though the refund did not go through.
RefundUnconfirmed(r) ==
  /\ at[r] = "refunding"
  /\ Lands(r, "refund") \/ UNCHANGED hold
  /\ Goto(r, "returned")
  /\ UNCHANGED <<columns, blocker, owed>>

\* refundLeg: at once, or through the outbox, or not at all.
Refund(r) ==
  /\ at[r] = "refunding"
  /\ \/ Lands(r, "refund") /\ Goto(r, "returned") /\ UNCHANGED owed
     \/ /\ owed' = [owed EXCEPT ![r] = @ \cup {"refund"}]
        /\ Goto(r, "returned") /\ UNCHANGED hold
     \/ Goto(r, "done") /\ UNCHANGED <<owed, hold>>
  /\ UNCHANGED <<columns, blocker>>

\* Only now is the row made terminal, if that succeeds.
Close(r) ==
  /\ at[r] = "returned"
  /\ Mark(r) /\ Goto(r, "done")
  /\ UNCHANGED <<held, blocker, ledger>>

Crash(r) ==
  /\ at[r] \notin Over
  /\ Goto(r, "done")
  /\ blocker' = [blocker EXCEPT ![r] = Nobody]
  /\ UNCHANGED <<columns, ledger>>

-----------------------------------------------------------------------------
\* Ten minutes pass without an update of the row.
Expire(q) ==
  /\ row[q] = "in_progress" /\ ~expired[q]
  /\ expired' = [expired EXCEPT ![q] = TRUE]
  /\ UNCHANGED <<row, held, at, blocker, ledger>>

\* sweepExpiredScriptRequests
Sweep(q) ==
  /\ row[q] = "in_progress" /\ expired[q]
  /\ Remove(q)
  /\ UNCHANGED <<at, blocker, hold>>

\* The outbox and the credit workers: what does not land is retried.
Land(q, leg) ==
  /\ leg \in owed[q]
  /\ Lands(q, leg)
  /\ UNCHANGED <<columns, at, blocker, owed>>

Handle(r) ==
  \/ Claim(r) \/ LookUpKey(r) \/ LookUpInFlight(r) \/ Clear(r) \/ Reclaim(r)
  \/ Capped(r) \/ Reserve(r) \/ GiveUp(r) \/ Renew(r) \/ Call(r) \/ Commit(r)
  \/ Refund(r) \/ Close(r) \/ Crash(r)

Next ==
  \/ \E r \in Requests : Handle(r) \/ Expire(r) \/ Sweep(r)
  \/ \E r \in Requests, leg \in Legs : Land(r, leg)

\* The handlers may stop anywhere; the reaper runs, and what is owed is retried.
Spec == /\ Init /\ [][Next]_vars
        /\ \A r \in Requests : WF_vars(Expire(r)) /\ WF_vars(Sweep(r))
        /\ \A r \in Requests, leg \in Legs : WF_vars(Land(r, leg))

-----------------------------------------------------------------------------
\* Rows, handlers and holds have their types.
TypeOK ==
  /\ row \in [Requests -> {"none", "in_progress", "completed", "failed", "deleted"}]
  /\ held \in [Requests -> BOOLEAN]
  /\ expired \in [Requests -> BOOLEAN]
  /\ at \in [Requests -> Steps]
  /\ blocker \in [Requests -> Requests \cup {Nobody}]
  /\ owed \in [Requests -> SUBSET Legs]
  /\ hold \in [Requests -> {"none", "held", "charged", "returned"}]

(***************************************************************************)
(* However many handlers a key has had, and whoever reclaimed whose row,   *)
(* its result is paid for once; a charge is only scheduled for a result    *)
(* that the customer can fetch again under the key, and nothing returns it.*)
(***************************************************************************)
OneChargePerKey ==
  /\ \A r, q \in Requests :
       KeyOf[r] = KeyOf[q] /\ "commit" \in owed[r] /\ "commit" \in owed[q] => r = q
  /\ \A r \in Requests :
       /\ "commit" \in owed[r] <=> row[r] = "completed"
       /\ "commit" \in owed[r] => "refund" \notin owed[r] /\ hold[r] # "returned"

(***************************************************************************)
(* Every settlement that is owed finds the hold it settles: none was       *)
(* scheduled for a claim that never held credits, which the ledger would   *)
(* refuse for ever.                                                        *)
(***************************************************************************)
OwedIsHeld == \A r \in Requests : owed[r] # {} => hold[r] # "none"

(***************************************************************************)
(* No hold is stranded: wherever its handler stopped, and whoever deleted  *)
(* its row, it is charged or returned in the end.                          *)
(***************************************************************************)
HoldsSettle == (\E r \in Requests : hold[r] = "held") ~> (\A r \in Requests : hold[r] # "held")

=============================================================================
