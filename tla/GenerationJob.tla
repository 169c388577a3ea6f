---------------------------- MODULE GenerationJob ----------------------------
(***************************************************************************)
(* One generation job from its creation to its settlement: the API's       *)
(* create transaction, the worker's runJob, the retries and redeliveries   *)
(* of BullMQ, the journal of provider submits that keeps a paid submit     *)
(* from being repeated, the reaper and the erasure of the account.         *)
(*                                                                         *)
(* Each database statement or transaction and each provider call of runJob *)
(* is one step of the worker that runs it; a worker may crash between any  *)
(* two.  The vendor and BullMQ are external and modelled by how the code   *)
(* uses them.  Timeouts are abstracted: what they delay may come any time. *)
(***************************************************************************)
EXTENDS Integers, Sequences, FiniteSets, JobPromise

CONSTANTS
  Workers,       \* runs of runJob that may overlap
  MaxAttempts,   \* BullMQ attempts of the run job
  MaxStalls,     \* maxStalledCount
  MaxReplays,    \* bound on deliveries of a run message BullMQ had forgotten
  MaxSubmits,    \* bound on the attempts the journal records
  Legs,          \* provider legs that one submit may try in turn
  Faults         \* which of AllFaults may happen

\* A worker's BullMQ lock expires though the worker lives; a transaction
\* commits but its acknowledgement is lost; a gateway's keys are removed.
AllFaults == {"lock lost", "ack lost", "gateway gone"}

ASSUME BoundsAssumption == /\ MaxAttempts \in Nat \ {0}
                           /\ MaxStalls \in Nat
                           /\ MaxReplays \in Nat
                           /\ MaxSubmits \in Nat
                           /\ Legs \in Nat \ {0}
ASSUME FaultsAssumption == Faults \subseteq AllFaults

VARIABLES
  requeued,      \* requeued_at IS NOT NULL
  token,         \* the attempt whose handle provider_job_id holds, or NoAttempt
  journal,       \* route_attempt_journal: the outcome of each attempt
  delivery,      \* the run message: its state and its counters in BullMQ
  run,           \* what each worker is doing, with its local variables
  erasing        \* the account's erasure: "no", "open job read", "done"

vars == <<status, requeued, token, owed, journal, live, delivery, run, erasing>>

NoAttempt == 0
NoWorker == "nobody"
ASSUME WorkersAssumption == NoWorker \notin Workers
Attempts == 1..MaxSubmits

Settlements == {"commit", "refund-partial", "refund", "erased"}
Outcomes == {"intent", "accepted", "ambiguous", "rejected", "failed", "succeeded"}
\* The outcomes that readRouteAttemptRecovery looks for.
PreTerminal == {"intent", "accepted", "ambiguous"}

Steps == {"idle", "taken", "read", "claimed", "submit", "sent", "accepted",
          "rejected", "unclear", "persist", "poll", "inline", "upload", "settled",
          "suppressed", "failing", "closing"}

\* at: the step; seen: provider_job_id as first read; attempt: the attempt in
\* hand; leg: the leg tried; last: no BullMQ attempt is left; again: the error
\* is retryable.
Idle == [at |-> "idle", seen |-> NoAttempt, attempt |-> NoAttempt, leg |-> 1,
         last |-> FALSE, again |-> FALSE]

At(w, step) == run[w].at = step
Goto(w, step) == run' = [run EXCEPT ![w] = [@ EXCEPT !.at = step]]
Stop(w) == run' = [run EXCEPT ![w] = Idle]
Fail(w, retryable) ==
  run' = [run EXCEPT ![w] = [@ EXCEPT !.at = "failing", !.again = retryable]]

job == <<status, requeued, token, owed>>
provider == <<journal, live>>

\* providers whose keys are configured: getResumeAdapter binds the handle.
Bindable == IF "gateway gone" \in Faults THEN BOOLEAN ELSE {TRUE}

-----------------------------------------------------------------------------
Init ==
  /\ status = "none" /\ requeued = FALSE /\ token = NoAttempt
  /\ owed = {} /\ journal = <<>> /\ live = {}
  /\ delivery = [state |-> "none", holder |-> NoWorker, made |-> 0, stalls |-> 0,
                 replays |-> 0]
  /\ run = [w \in Workers |-> Idle]
  /\ erasing = "no"

\* POST /v1/jobs: job, hold and run message in one transaction.  A replay of
\* the request under the same idempotency key changes nothing.
Create ==
  /\ status = "none"
  /\ erasing = "no"
  /\ status' = "queued"
  /\ delivery' = [delivery EXCEPT !.state = "owed"]
  /\ UNCHANGED <<requeued, token, owed, provider, run, erasing>>

\* The outbox hands the run message over, again if BullMQ has forgotten it.
Deliver ==
  /\ \/ delivery.state = "owed" /\ delivery' = [delivery EXCEPT !.state = "waiting"]
     \/ /\ delivery.state = "ended" /\ delivery.replays < MaxReplays
        /\ delivery' = [delivery EXCEPT !.state = "waiting", !.made = 0, !.stalls = 0,
                                        !.replays = @ + 1]
  /\ UNCHANGED <<job, provider, run, erasing>>

\* Completed or thrown: counts only while the worker holds BullMQ's lock.
Complete(w) ==
  delivery' = IF delivery.holder = w
              THEN [delivery EXCEPT !.state = "ended", !.holder = NoWorker]
              ELSE delivery
Throw(w) ==
  delivery' = IF delivery.holder # w THEN delivery
              ELSE [delivery EXCEPT !.state = IF delivery.made + 1 < MaxAttempts
                                              THEN "waiting" ELSE "ended",
                                    !.holder = NoWorker, !.made = @ + 1]

Take(w) ==
  /\ At(w, "idle")
  /\ delivery.state = "waiting"
  /\ delivery' = [delivery EXCEPT !.state = "active", !.holder = w]
  /\ run' = [run EXCEPT ![w] = [@ EXCEPT !.at = "taken",
                                         !.last = delivery.made + 1 >= MaxAttempts]]
  /\ UNCHANGED <<job, provider, erasing>>

\* A mutant: BullMQ redelivers a stalled message without end.
StallForEver ==
  /\ delivery.state = "active"
  /\ At(delivery.holder, "idle") \/ "lock lost" \in Faults
  /\ delivery' = [delivery EXCEPT !.state = "waiting", !.holder = NoWorker,
                                  !.stalls = @ + 1]
  /\ UNCHANGED <<job, provider, run, erasing>>

\* The lock expires: of a dead worker, or of one that lost touch with Redis.
Stall ==
  /\ delivery.state = "active"
  /\ At(delivery.holder, "idle") \/ "lock lost" \in Faults
  /\ delivery' = [delivery EXCEPT !.state = IF delivery.stalls < MaxStalls
                                            THEN "waiting" ELSE "ended",
                                  !.holder = NoWorker, !.stalls = @ + 1]
  /\ UNCHANGED <<job, provider, run, erasing>>

Crash(w) ==
  /\ ~At(w, "idle")
  /\ Stop(w)
  /\ UNCHANGED <<job, provider, delivery, erasing>>

-----------------------------------------------------------------------------
\* runJob: read the row, skip what is not queued, claim it.
Read(w) ==
  /\ At(w, "taken")
  /\ IF status = "queued"
     THEN /\ run' = [run EXCEPT ![w] = [@ EXCEPT !.at = "read", !.seen = token]]
          /\ UNCHANGED delivery
     ELSE Stop(w) /\ Complete(w)
  /\ UNCHANGED <<job, provider, erasing>>

\* A mutant: the claim trusts the status that was read.
ClaimAnyway(w) ==
  /\ At(w, "read")
  /\ status' = "running" /\ Goto(w, "claimed")
  /\ UNCHANGED <<requeued, token, owed, provider, delivery, erasing>>

Claim(w) ==
  /\ At(w, "read")
  /\ IF status = "queued"
     THEN status' = "running" /\ Goto(w, "claimed") /\ UNCHANGED delivery
     ELSE Stop(w) /\ Complete(w) /\ UNCHANGED status
  /\ UNCHANGED <<requeued, token, owed, provider, erasing>>

\* A mutant: the refund is left to the reaper.
RefuseUnpaid(w) ==
  /\ At(w, "claimed")
  /\ status' = IF status = "running" THEN "failed" ELSE status
  /\ Stop(w) /\ Complete(w)
  /\ UNCHANGED <<requeued, token, owed, provider, erasing>>

\* failClaimedJobWithRefund: the stored snapshot does not validate.
Refuse(w) ==
  /\ At(w, "claimed")
  /\ IF status = "running"
     THEN status' = "failed" /\ owed' = owed \cup {"refund"}
     ELSE UNCHANGED <<status, owed>>
  /\ Stop(w) /\ Complete(w)
  /\ UNCHANGED <<requeued, token, provider, erasing>>

\* An error outside the try block, as for a model with no gateway.
Escape(w) ==
  /\ At(w, "claimed")
  /\ Stop(w) /\ Throw(w)
  /\ UNCHANGED <<job, provider, erasing>>

Recovery == {a \in DOMAIN journal : journal[a] \in PreTerminal}
Latest == CHOOSE a \in Recovery : \A b \in Recovery : b <= a

HandleFrom(w, a, step) ==
  run' = [run EXCEPT ![w] = [@ EXCEPT !.at = step, !.attempt = a]]

\* Poll the handle that was persisted, or accepted, or else submit anew; and
\* never submit while an earlier submit's outcome is unknown.
Recover(w) ==
  /\ At(w, "claimed")
  /\ \E bound \in Bindable :
       \/ run[w].seen # NoAttempt /\ bound /\ HandleFrom(w, run[w].seen, "poll")
       \/ run[w].seen # NoAttempt /\ ~bound /\ Goto(w, "submit")
       \/ /\ run[w].seen = NoAttempt /\ Recovery # {}
          /\ IF journal[Latest] = "accepted" /\ bound
             THEN HandleFrom(w, Latest, "persist") ELSE Fail(w, FALSE)
       \/ run[w].seen = NoAttempt /\ Recovery = {} /\ Goto(w, "submit")
  /\ UNCHANGED <<job, provider, delivery, erasing>>

-----------------------------------------------------------------------------
(***************************************************************************)
(* generate of a chain of journaled legs.  An attempt's row is written     *)
(* before the submit it stands for and closed after it.                    *)
(***************************************************************************)
SubmitFails(w, retryable) ==
  run' = [run EXCEPT ![w] = [@ EXCEPT !.at = "failing", !.again = retryable,
                                      !.attempt = NoAttempt]]

Begin(w) ==
  /\ At(w, "submit")
  /\ Len(journal) < MaxSubmits
  /\ journal' = Append(journal, "intent")
  /\ HandleFrom(w, Len(journal) + 1, "sent")
  /\ UNCHANGED <<job, live, delivery, erasing>>

\* The vendor takes the generation on, certainly refuses it, or is not heard of.
Vendor(w) ==
  /\ At(w, "sent")
  /\ \/ Goto(w, "accepted") /\ live' = live \cup {run[w].attempt}
     \/ Goto(w, "rejected") /\ UNCHANGED live
     \/ Goto(w, "unclear") /\ live' \in {live, live \cup {run[w].attempt}}
  /\ UNCHANGED <<job, journal, delivery, erasing>>

Record(w, outcome) == journal' = [journal EXCEPT ![run[w].attempt] = outcome]

\* A refusal moves on to the next leg, if there is one; only the error of a
\* single leg keeps its retryable mark.
NextLeg(w, retryable) ==
  IF run[w].leg < Legs
  THEN run' = [run EXCEPT ![w] = [@ EXCEPT !.at = "submit", !.leg = run[w].leg + 1,
                                           !.attempt = NoAttempt]]
  ELSE SubmitFails(w, retryable /\ Legs = 1)

RecordRejected(w) ==
  /\ At(w, "rejected")
  /\ \/ Record(w, "rejected") /\ \E retryable \in BOOLEAN : NextLeg(w, retryable)
     \/ UNCHANGED journal /\ SubmitFails(w, FALSE)
  /\ UNCHANGED <<job, live, delivery, erasing>>

RecordUnclear(w) ==
  /\ At(w, "unclear")
  /\ Record(w, "ambiguous") \/ UNCHANGED journal
  /\ SubmitFails(w, FALSE)
  /\ UNCHANGED <<job, live, delivery, erasing>>

\* The first leg's handle is polled by runJob, or holds its result already;
\* a fallback's is polled inside generate.
RecordAccepted(w) ==
  /\ At(w, "accepted")
  /\ \/ /\ Record(w, "accepted")
        /\ IF run[w].leg = 1 THEN Goto(w, "persist") \/ Goto(w, "upload")
                             ELSE Goto(w, "inline")
     \/ /\ \E outcome \in {"accepted", "ambiguous", "intent"} : Record(w, outcome)
        /\ SubmitFails(w, FALSE)
  /\ UNCHANGED <<job, live, delivery, erasing>>

\* A fallback's poll fails: the vendor's generation may go on all the same.
InlinePoll(w) ==
  /\ At(w, "inline")
  /\ \/ Goto(w, "upload") /\ UNCHANGED live
     \/ NextLeg(w, FALSE) /\ live' \in {live, live \ {run[w].attempt}}
  /\ UNCHANGED <<job, journal, delivery, erasing>>

\* A mutant: the handle is not persisted before polling.
PersistNothing(w) ==
  /\ At(w, "persist")
  /\ Goto(w, "poll")
  /\ UNCHANGED <<job, provider, delivery, erasing>>

Persist(w) ==
  /\ At(w, "persist")
  /\ token' = IF status = "running" THEN run[w].attempt ELSE token
  /\ Goto(w, "poll")
  /\ UNCHANGED <<status, requeued, owed, provider, delivery, erasing>>

\* awaitResult: a result, a retryable error, or the end of the generation.
Poll(w) ==
  /\ At(w, "poll")
  /\ \/ Goto(w, "upload") /\ UNCHANGED live
     \/ Fail(w, TRUE) /\ UNCHANGED live
     \/ Fail(w, FALSE) /\ live' = live \ {run[w].attempt}
  /\ UNCHANGED <<job, journal, delivery, erasing>>

\* A write, an upload or the settling transaction fails.
Break(w) ==
  /\ At(w, "submit") \/ At(w, "persist") \/ At(w, "upload")
  /\ Fail(w, FALSE)
  /\ UNCHANGED <<job, provider, delivery, erasing>>

-----------------------------------------------------------------------------
\* A mutant: the settling update is not guarded by status = 'running'.
SettleAnyway(w) ==
  /\ At(w, "upload")
  /\ erasing # "open job read"
  /\ live' = live \ {run[w].attempt}
  /\ status' = "succeeded"
  /\ owed' \in {owed \cup {"commit"}, owed \cup {"commit", "refund-partial"}}
  /\ \/ Goto(w, "settled")
     \/ "ack lost" \in Faults /\ Fail(w, FALSE)
  /\ UNCHANGED <<requeued, token, journal, delivery, erasing>>

\* The transaction that makes the job succeed, under the user's advisory lock.
Settle(w) ==
  /\ At(w, "upload")
  /\ erasing # "open job read"
  /\ live' = live \ {run[w].attempt}
  /\ IF status = "running"
     THEN /\ status' = "succeeded"
          /\ owed' \in {owed \cup {"commit"}, owed \cup {"commit", "refund-partial"}}
          /\ \/ Goto(w, "settled")
             \/ "ack lost" \in Faults /\ Fail(w, FALSE)
     ELSE Goto(w, "suppressed") /\ UNCHANGED <<status, owed>>
  /\ UNCHANGED <<requeued, token, journal, delivery, erasing>>

\* recordOutcome never touches an ambiguous row, and may itself fail.
Outcome(w, outcome) ==
  \/ UNCHANGED journal
  \/ /\ run[w].attempt # NoAttempt
     /\ journal[run[w].attempt] # "ambiguous"
     /\ Record(w, outcome)

Finish(w) ==
  /\ \/ At(w, "settled") /\ Outcome(w, "succeeded")
     \/ At(w, "suppressed") /\ Outcome(w, "failed")
  /\ Stop(w) /\ Complete(w)
  /\ UNCHANGED <<job, live, erasing>>

\* The catch block first closes the attempt that was accepted ...
CloseAttempt(w) ==
  /\ At(w, "failing")
  /\ Outcome(w, "failed")
  /\ Goto(w, "closing")
  /\ UNCHANGED <<job, live, delivery, erasing>>

Retries(w) == run[w].again /\ ~run[w].last

\* A mutant: the requeue is not guarded by status = 'running'.
RequeueAnyway(w) ==
  /\ At(w, "closing") /\ Retries(w)
  /\ status' = "queued" /\ requeued' = TRUE
  /\ Stop(w) /\ Throw(w)
  /\ UNCHANGED <<token, owed, provider, erasing>>

\* ... then hands a retryable failure back to BullMQ ...
Requeue(w) ==
  /\ At(w, "closing") /\ Retries(w)
  /\ IF status = "running" THEN status' = "queued" /\ requeued' = TRUE
                           ELSE UNCHANGED <<status, requeued>>
  /\ Stop(w) /\ Throw(w)
  /\ UNCHANGED <<token, owed, provider, erasing>>

\* ... or fails the job, whatever its status, and owes the refund.
FailJob(w) ==
  /\ At(w, "closing") /\ ~Retries(w)
  /\ status' = "failed"
  /\ owed' = owed \cup {"refund"}
  /\ Stop(w)
  /\ Complete(w) \/ ("ack lost" \in Faults /\ Throw(w))
  /\ UNCHANGED <<requeued, token, provider, erasing>>

\* The statement of the catch block fails: the job stays as it is.
CloseFails(w) ==
  /\ At(w, "closing")
  /\ Stop(w) /\ Throw(w)
  /\ UNCHANGED <<job, provider, erasing>>

-----------------------------------------------------------------------------
\* A mutant: the sweep looks only for jobs marooned in running.
SweepRunning ==
  /\ status = "running"
  /\ \E bound \in Bindable :
       IF ~requeued /\ token # NoAttempt /\ bound
       THEN status' = "queued" /\ requeued' = TRUE /\ UNCHANGED owed
       ELSE /\ status' = "failed"
            /\ owed' = owed \cup {"refund"}
            /\ UNCHANGED requeued
  /\ UNCHANGED <<token, provider, delivery, run, erasing>>

(***************************************************************************)
(* sweepStuckJobs: a job too long in running goes back to the queue, once, *)
(* if its provider handle can be polled; any other, and one too long in    *)
(* the queue, fails and is refunded.                                       *)
(***************************************************************************)
Sweep ==
  /\ status \in {"queued", "running"}
  /\ \E bound \in Bindable :
       IF status = "running" /\ ~requeued /\ token # NoAttempt /\ bound
       THEN status' = "queued" /\ requeued' = TRUE /\ UNCHANGED owed
       ELSE /\ status' = "failed"
            /\ owed' = owed \cup {"refund"}
            /\ UNCHANGED requeued
  /\ UNCHANGED <<token, provider, delivery, run, erasing>>

(***************************************************************************)
(* DELETE /v1/me: one transaction under the user's advisory lock, which    *)
(* the settling transaction also takes but the reaper does not: it reads   *)
(* the open jobs, then refunds their holds and fails them.  It rolls back  *)
(* if the hold is gone by then.                                            *)
(***************************************************************************)
EraseReads ==
  /\ erasing = "no"
  /\ erasing' = IF status \in {"queued", "running"} THEN "open job read" ELSE "done"
  /\ UNCHANGED <<job, provider, delivery, run>>

EraseWrites ==
  /\ erasing = "open job read"
  /\ \/ /\ erasing' = "done"
        /\ status' = "failed"
        /\ owed' = owed \cup {"erased"}
     \/ erasing' = "no" /\ UNCHANGED <<status, owed>>
  /\ UNCHANGED <<requeued, token, provider, delivery, run>>

-----------------------------------------------------------------------------
RunJob(w) ==
  \/ Read(w) \/ Claim(w) \/ Refuse(w) \/ Escape(w) \/ Recover(w)
  \/ Begin(w) \/ Vendor(w) \/ RecordRejected(w) \/ RecordUnclear(w)
  \/ RecordAccepted(w) \/ InlinePoll(w) \/ Persist(w) \/ Poll(w) \/ Break(w)
  \/ Settle(w) \/ Finish(w) \/ CloseAttempt(w) \/ Requeue(w) \/ FailJob(w)
  \/ CloseFails(w)

Next ==
  \/ Create \/ Deliver \/ Stall \/ Sweep \/ EraseReads \/ EraseWrites
  \/ \E w \in Workers : Take(w) \/ Crash(w) \/ RunJob(w)

Spec == Init /\ [][Next]_vars

-----------------------------------------------------------------------------
\* The rows, the message and the workers' local variables have their types.
TypeOK ==
  /\ status \in {"none", "queued", "running", "succeeded", "failed"}
  /\ requeued \in BOOLEAN
  /\ token \in Attempts \cup {NoAttempt}
  /\ owed \subseteq Settlements
  /\ journal \in Seq(Outcomes) /\ Len(journal) <= MaxSubmits
  /\ live \subseteq Attempts
  /\ delivery \in [state : {"none", "owed", "waiting", "active", "ended"},
                   holder : Workers \cup {NoWorker}, made : 0..MaxAttempts,
                   stalls : 0..(MaxStalls + 1), replays : 0..MaxReplays]
  /\ run \in [Workers -> [at : Steps, seen : Attempts \cup {NoAttempt},
                          attempt : Attempts \cup {NoAttempt}, leg : 1..Legs,
                          last : BOOLEAN, again : BOOLEAN]]
  /\ erasing \in {"no", "open job read", "done"}

\* At least: no end without its settlement, whatever fault occurs.
FinishedIsOwed ==
  (status = "succeeded" => Charged) /\ (status = "failed" => Returned)

(***************************************************************************)
(* A job whose hold was given back is never brought back to life, neither  *)
(* by a retry nor by a late result nor by the reaper's own requeue.        *)
(***************************************************************************)
FailedIsFinal == [][status = "failed" => status' = "failed"]_vars

(***************************************************************************)
(* Every job ends, even when no worker ever gets to run it or every worker *)
(* stops halfway: the reaper's sweep is all it takes.                      *)
(***************************************************************************)
JobsEnd == status = "queued" ~> status \in {"succeeded", "failed"}

=============================================================================
