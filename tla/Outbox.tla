-------------------------------- MODULE Outbox --------------------------------
(***************************************************************************)
(* The transactional outbox: packages/credits/src/outbox.ts over the table *)
(* outbox_jobs.  A writer inserts a row in its own transaction; any number *)
(* of drainers (worker processes, and the flush at shutdown beside the     *)
(* polling loop) select pending rows in batches, hand each one to BullMQ   *)
(* and mark it.  A drainer works on the rows of its batch in parallel, and *)
(* every database statement and queue call is a step of its own.           *)
(***************************************************************************)
EXTENDS Integers, FiniteSets, Tally, OutboxPromise

CONSTANTS
  Drainers,
  BatchSize,
  MaxAttempts,
  MaxCrashes,    \* bound on crashes of drainers
  OldRelease,    \* the queues that an old process registers
  RevivedKinds   \* the kinds whose dead rows a human retries

ASSUME BoundsAssumption == /\ NumRows \in Nat
                           /\ BatchSize \in Nat \ {0}
                           /\ MaxAttempts \in Nat \ {0}
                           /\ MaxCrashes \in Nat
                           /\ IsFiniteSet(Drainers)
                           /\ OldRelease \subseteq {"settlement", "email", "other"}

\* SETTLEMENT_QUEUES; AUTH_EMAIL_QUEUE; the run and render queues.
Kinds == {"settlement", "email", "other"}

VARIABLES
  written,      \* rows 1..written exist
  kind,         \* the queue a row is for (drawn at Init, read once written)
  pc,           \* what a drainer is doing with a row
  copy,         \* the payload a drainer read when it selected the row
  registered,   \* the queues a drainer's process knows
  inQueue,      \* BullMQ retains a job under the row's jobId
  crashes

table == <<written, kind, attempts, processed, payload, waiting>>
queue == <<inQueue, handed>>
vars == <<table, pc, copy, registered, queue, crashes>>

Payloads == {"full", "redacted"}
Steps == {"idle", "picked", "added", "failed", "spent"}

-----------------------------------------------------------------------------
Written == 1..written

Init ==
  /\ written = 0
  /\ kind \in [Rows -> Kinds]
  /\ attempts = [r \in Rows |-> 0]
  /\ processed = [r \in Rows |-> FALSE]
  /\ payload = [r \in Rows |-> "full"]
  /\ waiting = [r \in Rows |-> FALSE]
  /\ pc = [d \in Drainers |-> [r \in Rows |-> "idle"]]
  /\ copy = [d \in Drainers |-> [r \in Rows |-> "full"]]
  /\ registered \in [Drainers -> {OldRelease, Kinds}]
  /\ inQueue = [r \in Rows |-> FALSE]
  /\ handed = [r \in Rows |-> {}]
  /\ crashes = 0

\* enqueueViaOutbox, in the transaction of whoever owes the message.
Write ==
  /\ written < NumRows
  /\ written' = written + 1
  /\ UNCHANGED <<kind, attempts, processed, payload, waiting, pc, copy,
                 registered, queue, crashes>>

\* A mutant: the dead-letter ceiling applies to money as well.
EligibleUpToCeiling(r) ==
  /\ r \in Written /\ ~processed[r]
  /\ attempts[r] < MaxAttempts
  /\ ~waiting[r]

\* A mutant: rows at the ceiling are selected once more.
EligibleAtCeiling(r) ==
  /\ r \in Written /\ ~processed[r]
  /\ attempts[r] <= MaxAttempts \/ kind[r] = "settlement"
  /\ ~waiting[r]

Eligible(r) ==
  /\ r \in Written /\ ~processed[r]
  /\ attempts[r] < MaxAttempts \/ kind[r] = "settlement"
  /\ ~waiting[r]

\* The oldest eligible rows, at most BatchSize of them.
Batch == {r \in Rows : /\ Eligible(r)
                       /\ Cardinality({s \in 1..(r - 1) : Eligible(s)}) < BatchSize}

Idle(d) == \A r \in Rows : pc[d][r] = "idle"

At(d, r, step) == pc[d][r] = step
Goto(d, r, step) == pc' = [pc EXCEPT ![d][r] = step]

Select(d) ==
  /\ Idle(d)
  /\ Batch # {}
  /\ pc' = [pc EXCEPT ![d] = [r \in Rows |-> IF r \in Batch THEN "picked" ELSE "idle"]]
  /\ copy' = [copy EXCEPT ![d] = payload]
  /\ UNCHANGED <<table, registered, queue, crashes>>

\* BullMQ ignores an add under a jobId it still retains.
Accept(d, r) ==
  /\ inQueue' = [inQueue EXCEPT ![r] = TRUE]
  /\ handed' = [handed EXCEPT ![r] = IF inQueue[r] THEN @ ELSE @ \cup {copy[d][r]}]

Add(d, r) ==
  /\ At(d, r, "picked")
  /\ kind[r] \in registered[d]
  /\ Accept(d, r)
  /\ Goto(d, r, "added")
  /\ UNCHANGED <<table, copy, registered, crashes>>

\* The call fails, and may have taken effect all the same.
AddFails(d, r) ==
  /\ At(d, r, "picked")
  /\ kind[r] \in registered[d]
  /\ Accept(d, r) \/ UNCHANGED queue
  /\ Goto(d, r, "failed")
  /\ UNCHANGED <<table, copy, registered, crashes>>

NoQueue(d, r) ==
  /\ At(d, r, "picked")
  /\ kind[r] \notin registered[d]
  /\ Goto(d, r, "failed")
  /\ UNCHANGED <<table, copy, registered, queue, crashes>>

Scrubbed(r) == IF kind[r] = "email" THEN "redacted" ELSE payload[r]

\* A mutant: the row is marked before it is handed over.
MarkFirst(d, r) ==
  /\ At(d, r, "picked") \/ At(d, r, "added")
  /\ IF processed[r] THEN UNCHANGED <<processed, payload>>
     ELSE /\ processed' = [processed EXCEPT ![r] = TRUE]
          /\ payload' = [payload EXCEPT ![r] = Scrubbed(r)]
  /\ Goto(d, r, "idle")
  /\ UNCHANGED <<written, kind, attempts, waiting, copy, registered, queue, crashes>>

Mark(d, r) ==
  /\ At(d, r, "added")
  /\ IF processed[r] THEN UNCHANGED <<processed, payload>>
     ELSE /\ processed' = [processed EXCEPT ![r] = TRUE]
          /\ payload' = [payload EXCEPT ![r] = Scrubbed(r)]
  /\ Goto(d, r, "idle")
  /\ UNCHANGED <<written, kind, attempts, waiting, copy, registered, queue, crashes>>

\* The statement that marks the row fails: the catch block counts it.
MarkFails(d, r) ==
  /\ At(d, r, "added")
  /\ Goto(d, r, "failed")
  /\ UNCHANGED <<table, copy, registered, queue, crashes>>

\* A mutant: the counter counts down.
CountedDown(r) == attempts[r] - 1

Bumped(r) == IF kind[r] = "settlement" THEN Lesser(attempts[r] + 1, MaxAttempts)
             ELSE attempts[r] + 1

\* A mutant: the update is not guarded by processed_at IS NULL.
RecordFailureUnguarded(d, r) ==
  /\ At(d, r, "failed")
  /\ attempts' = [attempts EXCEPT ![r] = Bumped(r)]
  /\ waiting' = [waiting EXCEPT ![r] = kind[r] = "settlement"]
  /\ Goto(d, r, IF attempts'[r] >= MaxAttempts /\ kind[r] = "email"
                THEN "spent" ELSE "idle")
  /\ UNCHANGED <<written, kind, processed, payload, copy, registered, queue, crashes>>

\* A mutant: a failed settlement row is due again at once.
RecordFailureUnpaced(d, r) ==
  /\ At(d, r, "failed")
  /\ IF processed[r] THEN UNCHANGED attempts /\ Goto(d, r, "idle")
     ELSE /\ attempts' = [attempts EXCEPT ![r] = Bumped(r)]
          /\ Goto(d, r, IF attempts'[r] >= MaxAttempts /\ kind[r] = "email"
                        THEN "spent" ELSE "idle")
  /\ UNCHANGED <<written, kind, processed, payload, waiting, copy, registered,
                 queue, crashes>>

\* A mutant: a mail that failed is scrubbed while it still has tries left.
RecordFailureScrubsEarly(d, r) ==
  /\ At(d, r, "failed")
  /\ IF processed[r]
     THEN UNCHANGED <<attempts, waiting>> /\ Goto(d, r, "idle")
     ELSE /\ attempts' = [attempts EXCEPT ![r] = Bumped(r)]
          /\ waiting' = [waiting EXCEPT ![r] = kind[r] = "settlement"]
          /\ Goto(d, r, IF kind[r] = "email" THEN "spent" ELSE "idle")
  /\ UNCHANGED <<written, kind, processed, payload, copy, registered, queue, crashes>>

\* recordFailure: counts nothing once another drainer has processed the row.
RecordFailure(d, r) ==
  /\ At(d, r, "failed")
  /\ IF processed[r]
     THEN UNCHANGED <<attempts, waiting>> /\ Goto(d, r, "idle")
     ELSE /\ attempts' = [attempts EXCEPT ![r] = Bumped(r)]
          /\ waiting' = [waiting EXCEPT ![r] = kind[r] = "settlement"]
          /\ Goto(d, r, IF attempts'[r] >= MaxAttempts /\ kind[r] = "email"
                        THEN "spent" ELSE "idle")
  /\ UNCHANGED <<written, kind, processed, payload, copy, registered, queue, crashes>>

\* A dead-lettered mail loses its text, in a statement of its own.
Scrub(d, r) ==
  /\ At(d, r, "spent")
  /\ payload' = IF processed[r] THEN payload ELSE [payload EXCEPT ![r] = Scrubbed(r)]
  /\ Goto(d, r, "idle")
  /\ UNCHANGED <<written, kind, attempts, processed, waiting, copy, registered,
                 queue, crashes>>

\* The statement of the failure path fails in its turn: allSettled drops it.
GiveUp(d, r) ==
  /\ At(d, r, "failed") \/ At(d, r, "spent")
  /\ Goto(d, r, "idle")
  /\ UNCHANGED <<table, copy, registered, queue, crashes>>

BackoffElapses(r) ==
  /\ waiting[r]
  /\ waiting' = [waiting EXCEPT ![r] = FALSE]
  /\ UNCHANGED <<written, kind, attempts, processed, payload, pc, copy, registered,
                 queue, crashes>>

Crash(d) ==
  /\ crashes < MaxCrashes
  /\ crashes' = crashes + 1
  /\ pc' = [pc EXCEPT ![d] = [r \in Rows |-> "idle"]]
  /\ UNCHANGED <<table, copy, registered, queue>>

\* A release that knows every queue replaces the process.
Deploy(d) ==
  /\ registered[d] # Kinds
  /\ registered' = [registered EXCEPT ![d] = Kinds]
  /\ pc' = [pc EXCEPT ![d] = [r \in Rows |-> "idle"]]
  /\ UNCHANGED <<table, copy, queue, crashes>>

\* removeOnComplete and removeOnFail: BullMQ forgets a job that has ended.
Evict(r) ==
  /\ inQueue[r]
  /\ inQueue' = [inQueue EXCEPT ![r] = FALSE]
  /\ UNCHANGED <<table, pc, copy, registered, handed, crashes>>

Dead(r) == /\ r \in Written /\ ~processed[r]
           /\ kind[r] # "settlement" /\ attempts[r] >= MaxAttempts

\* A human clears `attempts` of a dead-lettered row.
Revive(r) ==
  /\ Dead(r) /\ kind[r] \in RevivedKinds
  /\ attempts' = [attempts EXCEPT ![r] = 0]
  /\ UNCHANGED <<written, kind, processed, payload, waiting, pc, copy, registered,
                 queue, crashes>>

Process(d, r) ==
  \/ Add(d, r) \/ AddFails(d, r) \/ NoQueue(d, r) \/ Mark(d, r) \/ MarkFails(d, r)
  \/ RecordFailure(d, r) \/ Scrub(d, r) \/ GiveUp(d, r)

Next ==
  \/ Write
  \/ \E d \in Drainers : Select(d) \/ Crash(d) \/ Deploy(d)
  \/ \E d \in Drainers, r \in Rows : Process(d, r)
  \/ \E r \in Rows : BackoffElapses(r) \/ Evict(r) \/ Revive(r)

Spec == Init /\ [][Next]_vars

(***************************************************************************)
(* The polling loop never ends, a started statement or call ends, a failure*)
(* is counted in the end, a missing queue is deployed and a backoff        *)
(* elapses.  A backoff (ten seconds and more) outlasts the poll (two       *)
(* seconds), so the loop does not miss every moment at which an older row  *)
(* is waiting and a row is in its batch.                                   *)
(***************************************************************************)
Polling ==
  /\ \A d \in Drainers : WF_vars(Deploy(d))
  /\ \A d \in Drainers, r \in Rows :
       /\ WF_vars(Process(d, r))
       /\ SF_vars(r \in Batch /\ Select(d))
       /\ SF_vars(RecordFailure(d, r))
  /\ \A r \in Rows : WF_vars(BackoffElapses(r))

PollingSpec == Spec /\ Polling

\* The queue and the database are not out of reach for ever.
Recovering ==
  \A d \in Drainers, r \in Rows : SF_vars(Add(d, r)) /\ SF_vars(Mark(d, r))

-----------------------------------------------------------------------------
\* The rows and the drainers' local state have their types.
TypeOK ==
  /\ written \in 0..NumRows
  /\ kind \in [Rows -> Kinds]
  /\ attempts \in [Rows -> Nat]
  /\ processed \in [Rows -> BOOLEAN]
  /\ payload \in [Rows -> Payloads]
  /\ waiting \in [Rows -> BOOLEAN]
  /\ pc \in [Drainers -> [Rows -> Steps]]
  /\ copy \in [Drainers -> [Rows -> Payloads]]
  /\ registered \in [Drainers -> SUBSET Kinds]
  /\ inQueue \in [Rows -> BOOLEAN]
  /\ handed \in [Rows -> SUBSET Payloads]
  /\ crashes \in 0..MaxCrashes

(***************************************************************************)
(* A dead-lettered row has failed MaxAttempts times, and racing drainers   *)
(* push its counter past the ceiling by less than one try each.            *)
(***************************************************************************)
AttemptsBounded ==
  \A r \in Rows : attempts[r] < MaxAttempts + Cardinality(Drainers)

(***************************************************************************)
(* Money is never abandoned: a settlement row is handed over and marked    *)
(* however often that failed before, once the queue recovers.              *)
(***************************************************************************)
SettlementsHandedOver ==
  Recovering =>
    \A r \in Rows : (r \in Written /\ kind[r] = "settlement") ~> processed[r]

(***************************************************************************)
(* No row starves: whatever fails before it in the batch, and even while   *)
(* settlement rows fail for ever, every row that is not left dead-lettered *)
(* is handed over and marked - one whose tries are not used up, and one    *)
(* that a human has revived.                                               *)
(***************************************************************************)
OrdinaryRowsDelivered ==
  \A r \in Rows : <>[]~Dead(r) => (r \in Written /\ kind[r] # "settlement") ~> processed[r]

(***************************************************************************)
(* As the drainer's comment says, a row whose queue no process knows yet   *)
(* is left pending, for the deploy that brings the queue.                  *)
(***************************************************************************)
UnknownQueuesWait ==
  \A r \in Rows : (\A d \in Drainers : kind[r] \notin registered[d]) => ~Dead(r)

=============================================================================
