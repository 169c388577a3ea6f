---------------------------- MODULE OutboxPromise -----------------------------
(***************************************************************************)
(* What the outbox promises whoever writes a row, by the rows and by what  *)
(* BullMQ was handed for them.  Outbox keeps this promise.                 *)
(***************************************************************************)
EXTENDS Integers

CONSTANT NumRows   \* bound on the rows ever written, named by creation order

Rows == 1..NumRows

VARIABLES
  attempts,     \* saturates at MaxAttempts for a settlement row
  processed,    \* processed_at IS NOT NULL
  payload,      \* "full", or "redacted"
  waiting,      \* next_attempt_at lies in the future
  handed        \* the payloads BullMQ accepted for the row

(***************************************************************************)
(* A row is marked processed only when BullMQ has its message, whichever   *)
(* drainer marks it and wherever the others crash: nothing is lost between *)
(* the writer's commit and the queue.                                      *)
(***************************************************************************)
ProcessedWasHandedOver ==
  \A r \in Rows : processed[r] => handed[r] # {}

(***************************************************************************)
(* What BullMQ is handed is the message as written, never what the         *)
(* redaction of a secret left of it.                                       *)
(***************************************************************************)
HandedOverIntact == \A r \in Rows : "redacted" \notin handed[r]

(***************************************************************************)
(* A processed row is final: a failure that another drainer reports late   *)
(* does not count, pace or change it.                                      *)
(***************************************************************************)
ProcessedIsFinal ==
  [][\A r \in Rows : processed[r] =>
       /\ processed'[r] /\ attempts'[r] = attempts[r]
       /\ payload'[r] = payload[r]
       /\ (waiting'[r] => waiting[r])]_<<attempts, processed, payload, waiting>>

=============================================================================
