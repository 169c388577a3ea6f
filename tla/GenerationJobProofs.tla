------------------------- MODULE GenerationJobProofs -------------------------
(***************************************************************************)
(* The safety of a generation job, alone and with the hold of its credits, *)
(* for every number of workers, attempts, stalls, redeliveries and submits.*)
(***************************************************************************)
EXTENDS JobSettlement, TLAPS, FiniteSetTheorems, TallyProofs

RunRecord == [at : Steps, seen : Attempts \cup {NoAttempt},
              attempt : Attempts \cup {NoAttempt}, leg : 1..Legs,
              last : BOOLEAN, again : BOOLEAN]

\* The message's counters stay below their limits while it may be delivered,
\* a worker that holds its lock holds it while it is active, and there is no
\* message without a job.
DeliveryCounts ==
  /\ status = "none" => delivery.state = "none"
  /\ delivery.holder \in Workers <=> delivery.state = "active"
  /\ delivery.state # "ended" => /\ delivery.made < MaxAttempts
                                 /\ delivery.stalls <= MaxStalls

\* The attempt that a worker submits, or whose handle it is about to persist.
InHand ==
  \A w \in Workers :
    run[w].at \in {"sent", "accepted", "persist"} => run[w].attempt # NoAttempt

Typed == TypeOK /\ DeliveryCounts /\ InHand

-----------------------------------------------------------------------------
\* A nonempty set of attempts has a latest one, so Latest is what it says.
LEMMA LatestExists ==
  ASSUME TypeOK, Recovery # {}
  PROVE  Latest \in Recovery /\ Latest \in Attempts
<1> DEFINE n == Len(journal)
<1>0. journal \in Seq(Outcomes) /\ Len(journal) <= MaxSubmits
  BY DEF TypeOK
<1>1. n \in Nat /\ Recovery \subseteq 1..n /\ n <= MaxSubmits
  BY <1>0 DEF Recovery
<1> DEFINE T == {n - a : a \in Recovery}
<1>2. T \in SUBSET Nat /\ T # {}
  <2>1. \A a \in Recovery : n - a \in Nat
    <3> HIDE DEF n
    <3> QED BY <1>1
  <2>2. QED BY <2>1
<1>3. PICK m \in T : \A k \in T : m <= k
  <2> HIDE DEF T
  <2> QED BY <1>2, LeastNat
<1>4. PICK a \in Recovery : m = n - a
  BY <1>3
<1>5. \A b \in Recovery : b <= a
  <2> SUFFICES ASSUME NEW b \in Recovery PROVE b <= a
    OBVIOUS
  <2>1. n - a <= n - b
    BY <1>3, <1>4
  <2>2. QED BY <2>1, <1>1
<1>6. Latest \in Recovery
  BY <1>5 DEF Latest
<1>7. QED BY <1>1, <1>6, BoundsAssumption DEF Attempts

LEMMA RecordedType ==
  ASSUME TypeOK, NEW a, NEW outcome \in Outcomes
  PROVE  /\ [journal EXCEPT ![a] = outcome] \in Seq(Outcomes)
         /\ Len([journal EXCEPT ![a] = outcome]) <= MaxSubmits
<1> DEFINE j == [journal EXCEPT ![a] = outcome]
<1>1. journal \in Seq(Outcomes) /\ Len(journal) <= MaxSubmits
  BY DEF TypeOK
<1>2. j \in [1..Len(journal) -> Outcomes] /\ Len(journal) \in Nat
  <2>1. journal \in [1..Len(journal) -> Outcomes] /\ Len(journal) \in Nat
    BY <1>1
  <2>2. QED BY <2>1
<1>3. j \in Seq(Outcomes) /\ Len(j) = Len(journal)
  <2> HIDE DEF j
  <2> QED BY <1>2
<1>4. QED BY <1>1, <1>3

LEMMA InitTyped == Init => Typed
<1> SUFFICES ASSUME Init PROVE Typed
  OBVIOUS
<1>1. Idle \in RunRecord
  BY BoundsAssumption DEF Idle, RunRecord, Steps
<1>2. run \in [Workers -> RunRecord]
  BY <1>1 DEF Init
<1>3. journal \in Seq(Outcomes) /\ Len(journal) <= MaxSubmits
  BY BoundsAssumption DEF Init
<1>4. delivery \in [state : {"none", "owed", "waiting", "active", "ended"},
                    holder : Workers \cup {NoWorker}, made : 0..MaxAttempts,
                    stalls : 0..(MaxStalls + 1), replays : 0..MaxReplays]
  BY BoundsAssumption DEF Init
<1>5. DeliveryCounts
  BY BoundsAssumption, WorkersAssumption DEF Init, DeliveryCounts
<1>6. InHand
  BY DEF Init, InHand, Idle
<1>7. QED
  BY <1>2, <1>3, <1>4, <1>5, <1>6 DEF Init, Typed, TypeOK, RunRecord

\* What Goto, Stop, Fail and their like leave of the workers' records.
LEMMA RunTyped ==
  ASSUME NEW w \in Workers, run \in [Workers -> RunRecord]
  PROVE  /\ run[w] \in RunRecord
         /\ \A rec \in RunRecord : [run EXCEPT ![w] = rec] \in [Workers -> RunRecord]
         /\ Idle \in RunRecord
         /\ \A step \in Steps : [run[w] EXCEPT !.at = step] \in RunRecord
         /\ \A again \in BOOLEAN :
              [run[w] EXCEPT !.at = "failing", !.again = again] \in RunRecord
<1>1. run[w] \in RunRecord /\ Idle \in RunRecord
  BY BoundsAssumption DEF Idle, RunRecord, Steps
<1>2. QED BY <1>1 DEF RunRecord, Steps


\* What a step may do to the message.
LEMMA DeliverySteps ==
  ASSUME [Next]_vars
  PROVE  \/ delivery' = delivery
         \/ Create \/ Deliver \/ Stall
         \/ \E w \in Workers : Take(w) \/ Complete(w) \/ Throw(w)
<1>1. CASE Sweep \/ EraseReads \/ EraseWrites \/ UNCHANGED vars
  BY <1>1 DEF Sweep, EraseReads, EraseWrites, vars
<1>2. ASSUME NEW w \in Workers, Crash(w) \/ RunJob(w)
      PROVE  delivery' = delivery \/ Complete(w) \/ Throw(w)
  <2>1. CASE Crash(w) \/ Recover(w) \/ Begin(w) \/ Vendor(w) \/ RecordRejected(w)
             \/ RecordUnclear(w) \/ RecordAccepted(w) \/ InlinePoll(w)
    BY <2>1 DEF Crash, Recover, Begin, Vendor, RecordRejected, RecordUnclear,
                RecordAccepted, InlinePoll
  <2>2. CASE Persist(w) \/ Poll(w) \/ Break(w) \/ Settle(w) \/ CloseAttempt(w)
    BY <2>2 DEF Persist, Poll, Break, Settle, CloseAttempt
  <2>3. CASE Read(w) \/ Claim(w) \/ Refuse(w) \/ Finish(w)
    BY <2>3 DEF Read, Claim, Refuse, Finish
  <2>4. CASE Escape(w) \/ Requeue(w) \/ FailJob(w) \/ CloseFails(w)
    BY <2>4 DEF Escape, Requeue, FailJob, CloseFails
  <2>5. QED BY <1>2, <2>1, <2>2, <2>3, <2>4 DEF RunJob
<1>3. QED BY <1>1, <1>2 DEF Next

DeliveryRecord == [state : {"none", "owed", "waiting", "active", "ended"},
                   holder : Workers \cup {NoWorker}, made : 0..MaxAttempts,
                   stalls : 0..(MaxStalls + 1), replays : 0..MaxReplays]

LEMMA JobStays ==
  ASSUME Typed, [Next]_vars, status # "none"
  PROVE  status' # "none"
<1>1. CASE Create \/ Deliver \/ Stall \/ Sweep \/ EraseReads \/ EraseWrites
           \/ UNCHANGED vars
  BY <1>1 DEF Create, Deliver, Stall, Sweep, EraseReads, EraseWrites, vars, job
<1>2. ASSUME NEW w \in Workers, Take(w) \/ Crash(w) \/ RunJob(w)
      PROVE  status' # "none"
  <2>1. CASE Take(w) \/ Crash(w) \/ Read(w) \/ Escape(w) \/ Recover(w) \/ Begin(w)
             \/ Vendor(w) \/ RecordRejected(w)
    BY <2>1 DEF Take, Crash, Read, Escape, Recover, Begin, Vendor, RecordRejected, job
  <2>2. CASE RecordUnclear(w) \/ RecordAccepted(w) \/ InlinePoll(w) \/ Persist(w)
             \/ Poll(w) \/ Break(w) \/ Finish(w) \/ CloseAttempt(w) \/ CloseFails(w)
    BY <2>2 DEF RecordUnclear, RecordAccepted, InlinePoll, Persist, Poll, Break,
                Finish, CloseAttempt, CloseFails, job
  <2>3. CASE Claim(w) \/ Refuse(w) \/ Settle(w) \/ Requeue(w) \/ FailJob(w)
    BY <2>3 DEF Claim, Refuse, Settle, Requeue, FailJob
  <2>4. QED BY <1>2, <2>1, <2>2, <2>3 DEF RunJob
<1>3. QED BY <1>1, <1>2 DEF Next

LEMMA NextDelivery ==
  ASSUME Typed, [Next]_vars
  PROVE  delivery' \in DeliveryRecord /\ DeliveryCounts'
<1>0. delivery \in DeliveryRecord /\ DeliveryCounts
  BY DEF Typed, TypeOK, DeliveryRecord
<1>1. /\ delivery.state \in {"none", "owed", "waiting", "active", "ended"}
      /\ delivery.holder \in Workers \cup {NoWorker}
      /\ delivery.made \in 0..MaxAttempts
      /\ delivery.stalls \in 0..(MaxStalls + 1)
      /\ delivery.replays \in 0..MaxReplays
  BY <1>0 DEF DeliveryRecord
<1>2. /\ MaxAttempts \in Nat \ {0} /\ MaxStalls \in Nat /\ MaxReplays \in Nat
      /\ NoWorker \notin Workers
  BY BoundsAssumption, WorkersAssumption
<1>3. status' = "none" => status = "none"
  BY JobStays
\* A changed message with fields in range is in order, of a job that exists.
<1>4. ASSUME NEW state \in {"none", "owed", "waiting", "active", "ended"},
             NEW holder \in Workers \cup {NoWorker}, NEW made \in 0..MaxAttempts,
             NEW stalls \in 0..(MaxStalls + 1), NEW replays \in 0..MaxReplays,
             delivery' = [state |-> state, holder |-> holder, made |-> made,
                          stalls |-> stalls, replays |-> replays],
             status' # "none", holder \in Workers <=> state = "active",
             state # "ended" => made < MaxAttempts /\ stalls <= MaxStalls
      PROVE  delivery' \in DeliveryRecord /\ DeliveryCounts'
  BY <1>4 DEF DeliveryRecord, DeliveryCounts
<1>5. CASE delivery' = delivery
  BY <1>0, <1>3, <1>5 DEF DeliveryCounts
<1>6. CASE Create
  <2>1. delivery' = [state |-> "owed", holder |-> delivery.holder,
                     made |-> delivery.made, stalls |-> delivery.stalls,
                     replays |-> delivery.replays]
    BY <1>0, <1>6 DEF Create, DeliveryRecord
  <2>2. status' # "none" /\ delivery.state = "none"
    BY <1>0, <1>6 DEF Create, DeliveryCounts
  <2>3. QED BY <1>0, <1>1, <1>2, <1>4, <2>1, <2>2 DEF DeliveryCounts
<1>7. CASE Deliver
  <2>0. status' # "none"
    BY <1>0, <1>3, <1>7 DEF Deliver, DeliveryCounts
  <2>1. CASE delivery.state = "owed"
    <3>1. delivery' = [state |-> "waiting", holder |-> delivery.holder,
                       made |-> delivery.made, stalls |-> delivery.stalls,
                       replays |-> delivery.replays]
      BY <1>0, <1>7, <2>1 DEF Deliver, DeliveryRecord
    <3>2. QED BY <1>0, <1>1, <1>2, <1>4, <2>0, <2>1, <3>1 DEF DeliveryCounts
  <2>2. CASE delivery.state = "ended"
    <3>1. /\ delivery' = [state |-> "waiting", holder |-> delivery.holder,
                          made |-> 0, stalls |-> 0, replays |-> delivery.replays + 1]
          /\ delivery.replays < MaxReplays
      BY <1>0, <1>7, <2>2 DEF Deliver, DeliveryRecord
    <3>2. 0 \in 0..MaxAttempts /\ 0 \in 0..(MaxStalls + 1)
          /\ delivery.replays + 1 \in 0..MaxReplays
      BY <1>1, <1>2, <3>1
    <3>3. QED BY <1>0, <1>1, <1>2, <1>4, <2>0, <2>2, <3>1, <3>2 DEF DeliveryCounts
  <2>3. QED BY <1>7, <2>1, <2>2 DEF Deliver
<1>8. CASE Stall
  <2>0. status' # "none" /\ delivery.state = "active"
    BY <1>0, <1>3, <1>8 DEF Stall, DeliveryCounts
  <2>1. PICK state \in {"waiting", "ended"} :
          /\ delivery' = [state |-> state, holder |-> NoWorker,
                          made |-> delivery.made, stalls |-> delivery.stalls + 1,
                          replays |-> delivery.replays]
          /\ state = "waiting" => delivery.stalls < MaxStalls
    BY <1>0, <1>8 DEF Stall, DeliveryRecord
  <2>2. /\ delivery.stalls + 1 \in 0..(MaxStalls + 1)
        /\ state = "waiting" => delivery.stalls + 1 <= MaxStalls
        /\ delivery.made < MaxAttempts
    BY <1>0, <1>1, <1>2, <2>0, <2>1 DEF DeliveryCounts
  <2>3. QED BY <1>1, <1>2, <1>4, <2>0, <2>1, <2>2
<1>9. ASSUME NEW w \in Workers, Take(w)
      PROVE  delivery' \in DeliveryRecord /\ DeliveryCounts'
  <2>0. status' # "none" /\ delivery.state = "waiting"
    BY <1>0, <1>3, <1>9 DEF Take, DeliveryCounts
  <2>1. delivery' = [state |-> "active", holder |-> w, made |-> delivery.made,
                     stalls |-> delivery.stalls, replays |-> delivery.replays]
    BY <1>0, <1>9 DEF Take, DeliveryRecord
  <2>2. QED BY <1>0, <1>1, <1>2, <1>4, <2>0, <2>1 DEF DeliveryCounts
<1>10. ASSUME NEW w \in Workers, Complete(w) \/ Throw(w), delivery.holder = w
       PROVE  delivery' \in DeliveryRecord /\ DeliveryCounts'
  <2>0. status' # "none" /\ delivery.state = "active" /\ delivery.made < MaxAttempts
        /\ delivery.stalls <= MaxStalls
    BY <1>0, <1>3, <1>10 DEF DeliveryCounts
  <2>1. CASE Complete(w)
    <3>1. delivery' = [state |-> "ended", holder |-> NoWorker, made |-> delivery.made,
                       stalls |-> delivery.stalls, replays |-> delivery.replays]
      BY <1>0, <1>10, <2>1 DEF Complete, DeliveryRecord
    <3>2. QED BY <1>1, <1>2, <1>4, <2>0, <3>1
  <2>2. CASE Throw(w)
    <3>1. PICK state \in {"waiting", "ended"} :
            /\ delivery' = [state |-> state, holder |-> NoWorker,
                            made |-> delivery.made + 1, stalls |-> delivery.stalls,
                            replays |-> delivery.replays]
            /\ state = "waiting" => delivery.made + 1 < MaxAttempts
      BY <1>0, <1>10, <2>2 DEF Throw, DeliveryRecord
    <3>2. delivery.made + 1 \in 0..MaxAttempts
      BY <1>1, <1>2, <2>0
    <3>3. QED BY <1>1, <1>2, <1>4, <2>0, <3>1, <3>2
  <2>3. QED BY <1>10, <2>1, <2>2
<1>11. ASSUME NEW w \in Workers, Complete(w) \/ Throw(w)
       PROVE  delivery' \in DeliveryRecord /\ DeliveryCounts'
  <2>1. CASE delivery.holder # w
    BY <1>5, <1>11, <2>1 DEF Complete, Throw
  <2>2. QED BY <1>10, <1>11, <2>1
<1>12. QED BY <1>5, <1>6, <1>7, <1>8, <1>9, <1>11, DeliverySteps

-----------------------------------------------------------------------------
LEMMA NextRun ==
  ASSUME Typed, [Next]_vars
  PROVE  run' \in [Workers -> RunRecord]
<1>0. run \in [Workers -> RunRecord]
  BY DEF Typed, TypeOK, RunRecord
<1>1. CASE Create \/ Deliver \/ Stall \/ Sweep \/ EraseReads \/ EraseWrites
           \/ UNCHANGED vars
  BY <1>0, <1>1 DEF Create, Deliver, Stall, Sweep, EraseReads, EraseWrites, vars
<1>2. ASSUME NEW w \in Workers, Take(w) \/ Crash(w) \/ RunJob(w)
      PROVE  run' \in [Workers -> RunRecord]
  <2>1. ASSUME NEW rec \in RunRecord, run' = [run EXCEPT ![w] = rec]
        PROVE  run' \in [Workers -> RunRecord]
    BY <1>0, <2>1
  <2>2. run[w] \in RunRecord /\ Idle \in RunRecord
    BY <1>0, RunTyped
  <2>3. ASSUME NEW step \in Steps, Goto(w, step)
        PROVE  run' \in [Workers -> RunRecord]
    BY <2>1, <2>2, <2>3, RunTyped, <1>0 DEF Goto
  <2>4. ASSUME Stop(w) PROVE run' \in [Workers -> RunRecord]
    BY <2>1, <2>2, <2>4 DEF Stop
  <2>5. ASSUME NEW again \in BOOLEAN, Fail(w, again)
        PROVE  run' \in [Workers -> RunRecord]
    BY <2>1, <2>5, RunTyped, <1>0 DEF Fail
  <2>6. ASSUME NEW step \in Steps, NEW a \in Attempts \cup {NoAttempt},
               HandleFrom(w, a, step)
        PROVE  run' \in [Workers -> RunRecord]
    <3>1. [run[w] EXCEPT !.at = step, !.attempt = a] \in RunRecord
      BY <2>2 DEF RunRecord
    <3>2. QED BY <2>1, <2>6, <3>1 DEF HandleFrom
  <2>7. ASSUME NEW again \in BOOLEAN, SubmitFails(w, again)
        PROVE  run' \in [Workers -> RunRecord]
    <3>1. [run[w] EXCEPT !.at = "failing", !.again = again, !.attempt = NoAttempt]
            \in RunRecord
      BY <2>2 DEF RunRecord, Steps
    <3>2. QED BY <2>1, <2>7, <3>1 DEF SubmitFails
  <2>8. ASSUME NEW again \in BOOLEAN, NextLeg(w, again)
        PROVE  run' \in [Workers -> RunRecord]
    <3>1. CASE run[w].leg < Legs
      <4>0. run[w].leg + 1 \in 1..Legs
        BY <2>2, <3>1, BoundsAssumption DEF RunRecord
      <4>1. [run[w] EXCEPT !.at = "submit", !.leg = run[w].leg + 1,
                           !.attempt = NoAttempt]
              \in RunRecord
        BY <2>2, <4>0 DEF RunRecord, Steps
      <4>2. QED BY <2>1, <2>8, <3>1, <4>1 DEF NextLeg
    <3>2. CASE ~(run[w].leg < Legs)
      <4>1. SubmitFails(w, again /\ Legs = 1)
        BY <2>8, <3>2 DEF NextLeg
      <4>2. CASE again /\ Legs = 1
        <5>1. SubmitFails(w, TRUE)
          BY <4>1, <4>2 DEF SubmitFails
        <5>2. QED BY <2>7, <5>1
      <4>3. CASE ~(again /\ Legs = 1)
        <5>1. SubmitFails(w, FALSE)
          BY <4>1, <4>3 DEF SubmitFails
        <5>2. QED BY <2>7, <5>1
      <4>4. QED BY <4>2, <4>3
    <3>3. QED BY <3>1, <3>2
  <2>10. CASE Take(w)
    <3>1. ASSUME NEW last \in BOOLEAN
          PROVE  [run[w] EXCEPT !.at = "taken", !.last = last] \in RunRecord
      BY <2>2 DEF RunRecord, Steps
    <3>2. run' = [run EXCEPT ![w] =
                   [run[w] EXCEPT !.at = "taken",
                                  !.last = delivery.made + 1 >= MaxAttempts]]
      BY <2>10 DEF Take
    <3>3. CASE delivery.made + 1 >= MaxAttempts
      <4>1. (delivery.made + 1 >= MaxAttempts) = TRUE
        BY <3>3
      <4>2. run' = [run EXCEPT ![w] = [run[w] EXCEPT !.at = "taken", !.last = TRUE]]
        BY <3>2, <3>3
      <4>3. QED BY <2>1, <3>1, <4>2
    <3>4. CASE ~(delivery.made + 1 >= MaxAttempts)
      <4>1. (delivery.made + 1 >= MaxAttempts) = FALSE
        <5>1. delivery \in DeliveryRecord
          BY DEF Typed, TypeOK, DeliveryRecord
        <5>2. delivery.made \in 0..MaxAttempts
          BY <5>1 DEF DeliveryRecord
        <5>3. QED BY <3>4, <5>2, BoundsAssumption
      <4>2. run' = [run EXCEPT ![w] = [run[w] EXCEPT !.at = "taken", !.last = FALSE]]
        BY <3>2, <4>1, Zenon
      <4>3. QED BY <2>1, <3>1, <4>2
    <3>5. QED BY <3>3, <3>4
  <2>11. CASE Crash(w) \/ Refuse(w) \/ Escape(w) \/ Finish(w) \/ Requeue(w)
              \/ FailJob(w) \/ CloseFails(w)
    BY <2>4, <2>11 DEF Crash, Refuse, Escape, Finish, Requeue, FailJob, CloseFails
  <2>12. CASE Read(w)
    <3>1. [run[w] EXCEPT !.at = "read", !.seen = token] \in RunRecord
      BY <2>2 DEF RunRecord, Steps, Typed, TypeOK
    <3>2. QED BY <2>1, <2>4, <2>12, <3>1 DEF Read
  <2>13. CASE Claim(w)
    BY <2>3, <2>4, <2>13 DEF Claim, Steps
  <2>14. CASE Recover(w)
    <3>1. Recovery # {} => Latest \in Attempts
      BY LatestExists DEF Typed
    <3>2. run[w].seen \in Attempts \cup {NoAttempt}
      BY <2>2 DEF RunRecord
    <3>3. QED BY <2>3, <2>5, <2>6, <2>14, <3>1, <3>2 DEF Recover, Steps
  <2>15. CASE Begin(w)
    <3>1. Len(journal) + 1 \in Attempts
      <4>1. Len(journal) \in Nat
        <5>1. journal \in Seq(Outcomes)
          BY DEF Typed, TypeOK
        <5>2. QED BY <5>1
      <4>2. QED BY <2>15, <4>1, BoundsAssumption DEF Begin, Attempts
    <3>2. QED BY <2>6, <2>15, <3>1 DEF Begin, Steps
  <2>16. CASE Vendor(w)
    BY <2>3, <2>16 DEF Vendor, Steps
  <2>17. CASE RecordRejected(w)
    BY <2>7, <2>8, <2>17 DEF RecordRejected
  <2>18. CASE RecordUnclear(w) \/ RecordAccepted(w)
    BY <2>3, <2>7, <2>18 DEF RecordUnclear, RecordAccepted, Steps
  <2>19. CASE InlinePoll(w)
    BY <2>3, <2>8, <2>19 DEF InlinePoll, Steps
  <2>20. CASE Persist(w) \/ Poll(w) \/ Break(w) \/ Settle(w) \/ CloseAttempt(w)
    BY <2>3, <2>5, <2>20 DEF Persist, Poll, Break, Settle, CloseAttempt, Steps
  <2>21. QED
    BY <1>2, <2>10, <2>11, <2>12, <2>13, <2>14, <2>15, <2>16, <2>17, <2>18,
       <2>19, <2>20 DEF RunJob
<1>3. QED BY <1>1, <1>2 DEF Next

\* A step of one worker leaves what the others are doing alone.
LEMMA OthersStay ==
  ASSUME Typed, NEW w \in Workers, Take(w) \/ Crash(w) \/ RunJob(w),
         NEW v \in Workers, v # w
  PROVE  run'[v] = run[v]
<1> SUFFICES ASSUME ~\E rec : run' = [run EXCEPT ![w] = rec] PROVE FALSE
  BY DEF Typed, TypeOK
<1> USE DEF Goto, Stop, Fail, HandleFrom
<1>1. CASE Take(w) \/ Crash(w) \/ Read(w) \/ Claim(w) \/ Refuse(w) \/ Escape(w)
  BY <1>1 DEF Take, Crash, Read, Claim, Refuse, Escape
<1>2. CASE Recover(w) \/ Begin(w) \/ Vendor(w)
  BY <1>2 DEF Recover, Begin, Vendor
<1>3. CASE RecordRejected(w) \/ RecordUnclear(w) \/ RecordAccepted(w) \/ InlinePoll(w)
  BY <1>3 DEF RecordRejected, RecordUnclear, RecordAccepted, InlinePoll, NextLeg,
              SubmitFails
<1>4. CASE Persist(w) \/ Poll(w) \/ Break(w) \/ Settle(w) \/ Finish(w)
  BY <1>4 DEF Persist, Poll, Break, Settle, Finish
<1>5. CASE CloseAttempt(w) \/ Requeue(w) \/ FailJob(w) \/ CloseFails(w)
  BY <1>5 DEF CloseAttempt, Requeue, FailJob, CloseFails
<1>6. QED BY <1>1, <1>2, <1>3, <1>4, <1>5 DEF RunJob

LEMMA RunStays ==
  ASSUME Create \/ Deliver \/ Stall \/ Sweep \/ EraseReads \/ EraseWrites
           \/ UNCHANGED vars
  PROVE  run' = run
BY DEF Create, Deliver, Stall, Sweep, EraseReads, EraseWrites, vars

\* Where each way to move on leaves a worker's record.
LEMMA GotoMoves ==
  ASSUME Typed, NEW w \in Workers, NEW step, Goto(w, step)
  PROVE  /\ run'[w].at = step /\ run'[w].attempt = run[w].attempt
         /\ run'[w].seen = run[w].seen /\ run'[w].leg = run[w].leg
         /\ run'[w].again = run[w].again
<1>1. run \in [Workers -> RunRecord] /\ run[w] \in RunRecord
  BY DEF Typed, TypeOK, RunRecord
<1>2. DOMAIN run[w] = {"at", "seen", "attempt", "leg", "last", "again"}
  BY <1>1 DEF RunRecord
<1>3. run'[w] = [run[w] EXCEPT !.at = step]
  BY <1>1 DEF Goto
<1>4. QED BY <1>2, <1>3

LEMMA StopMoves ==
  ASSUME Typed, NEW w \in Workers, Stop(w)
  PROVE  run'[w].at = "idle"
<1>1. run \in [Workers -> RunRecord]
  BY DEF Typed, TypeOK, RunRecord
<1>2. run'[w] = Idle
  BY <1>1 DEF Stop
<1>3. QED BY <1>2 DEF Idle

LEMMA FailMoves ==
  ASSUME Typed, NEW w \in Workers, NEW again \in BOOLEAN, Fail(w, again)
  PROVE  run'[w].at = "failing" /\ run'[w].again = again
<1>1. run \in [Workers -> RunRecord] /\ run[w] \in RunRecord
  BY DEF Typed, TypeOK, RunRecord
<1>2. DOMAIN run[w] = {"at", "seen", "attempt", "leg", "last", "again"}
  BY <1>1 DEF RunRecord
<1>3. run'[w] = [run[w] EXCEPT !.at = "failing", !.again = again]
  BY <1>1 DEF Fail
<1>4. QED BY <1>2, <1>3

LEMMA HandleMoves ==
  ASSUME Typed, NEW w \in Workers, NEW a, NEW step, HandleFrom(w, a, step)
  PROVE  /\ run'[w].at = step /\ run'[w].attempt = a
         /\ run'[w].seen = run[w].seen /\ run'[w].leg = run[w].leg
<1>1. run \in [Workers -> RunRecord] /\ run[w] \in RunRecord
  BY DEF Typed, TypeOK, RunRecord
<1>2. DOMAIN run[w] = {"at", "seen", "attempt", "leg", "last", "again"}
  BY <1>1 DEF RunRecord
<1>3. run'[w] = [run[w] EXCEPT !.at = step, !.attempt = a]
  BY <1>1 DEF HandleFrom
<1>4. QED BY <1>2, <1>3

LEMMA SubmitFailsMoves ==
  ASSUME Typed, NEW w \in Workers, NEW again \in BOOLEAN, SubmitFails(w, again)
  PROVE  run'[w].at = "failing" /\ run'[w].again = again
<1>1. run \in [Workers -> RunRecord] /\ run[w] \in RunRecord
  BY DEF Typed, TypeOK, RunRecord
<1>2. DOMAIN run[w] = {"at", "seen", "attempt", "leg", "last", "again"}
  BY <1>1 DEF RunRecord
<1>3. run'[w] = [run[w] EXCEPT !.at = "failing", !.again = again,
                                 !.attempt = NoAttempt]
  BY <1>1 DEF SubmitFails
<1>4. QED BY <1>2, <1>3

LEMMA MovesToNextLeg ==
  ASSUME Typed, NEW w \in Workers, NEW again \in BOOLEAN, NextLeg(w, again)
  PROVE  IF run[w].leg < Legs
         THEN run'[w].at = "submit"
         ELSE run'[w].at = "failing" /\ (run'[w].again => again /\ Legs = 1)
<1>1. run \in [Workers -> RunRecord] /\ run[w] \in RunRecord
  BY DEF Typed, TypeOK, RunRecord
<1>2. CASE run[w].leg < Legs
  <2>1. run'[w] = [run[w] EXCEPT !.at = "submit", !.leg = run[w].leg + 1,
                                 !.attempt = NoAttempt]
    BY <1>1, <1>2 DEF NextLeg
  <2>2. DOMAIN run[w] = {"at", "seen", "attempt", "leg", "last", "again"}
    BY <1>1 DEF RunRecord
  <2>3. QED BY <1>2, <2>1, <2>2
<1>3. CASE ~(run[w].leg < Legs)
  <2>1. SubmitFails(w, again /\ Legs = 1)
    BY <1>3 DEF NextLeg
  <2>2. CASE again /\ Legs = 1
    <3>1. SubmitFails(w, TRUE)
      BY <2>1, <2>2 DEF SubmitFails
    <3>2. QED BY <1>3, <2>2, <3>1, SubmitFailsMoves
  <2>3. CASE ~(again /\ Legs = 1)
    <3>1. SubmitFails(w, FALSE)
      BY <2>1, <2>3 DEF SubmitFails
    <3>2. QED BY <1>3, <3>1, SubmitFailsMoves
  <2>4. QED BY <2>2, <2>3
<1>4. QED BY <1>2, <1>3

LEMMA TakeMoves ==
  ASSUME Typed, NEW w \in Workers
  PROVE  /\ Take(w) => run'[w].at = "taken"
         /\ Read(w) => \/ run'[w].at = "idle"
                       \/ run'[w].at = "read" /\ run'[w].seen = token
<1>1. run \in [Workers -> RunRecord] /\ run[w] \in RunRecord
  BY DEF Typed, TypeOK, RunRecord
<1>2. DOMAIN run[w] = {"at", "seen", "attempt", "leg", "last", "again"}
  BY <1>1 DEF RunRecord
<1>3. ASSUME Take(w) PROVE run'[w].at = "taken"
  <2>1. run'[w] = [run[w] EXCEPT !.at = "taken",
                                 !.last = delivery.made + 1 >= MaxAttempts]
    BY <1>1, <1>3 DEF Take
  <2>2. QED BY <1>2, <2>1
<1>4. ASSUME Read(w), status = "queued"
      PROVE  run'[w].at = "read" /\ run'[w].seen = token
  <2>1. run'[w] = [run[w] EXCEPT !.at = "read", !.seen = token]
    BY <1>1, <1>4 DEF Read
  <2>2. QED BY <1>2, <2>1
<1>5. ASSUME Read(w), status # "queued" PROVE run'[w].at = "idle"
  BY <1>5, StopMoves DEF Read
<1>6. QED BY <1>3, <1>4, <1>5

LEMMA NextInHand ==
  ASSUME Typed, [Next]_vars
  PROVE  InHand'
<1> SUFFICES ASSUME NEW w \in Workers, Take(w) \/ Crash(w) \/ RunJob(w),
                    run'[w].at \in {"sent", "accepted", "persist"}
             PROVE  run'[w].attempt # NoAttempt
  BY OthersStay, RunStays DEF Next, InHand, Typed
<1>a. ASSUME Fail(w, TRUE) \/ Fail(w, FALSE) PROVE run'[w].at = "failing"
  BY <1>a, FailMoves
<1>b. ASSUME Goto(w, "submit") PROVE run'[w].at = "submit"
  BY <1>b, GotoMoves
<1>c. ASSUME Goto(w, "upload") PROVE run'[w].at = "upload"
  BY <1>c, GotoMoves
<1>1. CASE Take(w) \/ Read(w)
  BY <1>1, TakeMoves
<1>2. CASE Crash(w) \/ Claim(w) \/ Refuse(w) \/ Escape(w)
  BY <1>2, GotoMoves, StopMoves DEF Crash, Claim, Refuse, Escape
<1>3. CASE Recover(w)
  <2>1. Recovery # {} => Latest # NoAttempt
    BY LatestExists DEF Typed, Attempts, NoAttempt
  <2>2. ASSUME NEW a, HandleFrom(w, a, "poll") PROVE run'[w].at = "poll"
    BY <2>2, HandleMoves
  <2>3. ASSUME HandleFrom(w, Latest, "persist") PROVE run'[w].attempt = Latest
    BY <2>3, HandleMoves
  <2>4. QED BY <1>3, <2>1, <2>2, <2>3, <1>a, <1>b DEF Recover
<1>4. CASE Begin(w)
  <2>1. journal \in Seq(Outcomes)
    BY DEF Typed, TypeOK
  <2>2. Len(journal) + 1 # NoAttempt
    BY <2>1 DEF NoAttempt
  <2>3. QED BY <1>4, <2>2, HandleMoves DEF Begin
<1>5. CASE Vendor(w)
  <2>1. run'[w].attempt = run[w].attempt
    BY <1>5, GotoMoves DEF Vendor
  <2>2. QED BY <1>5, <2>1 DEF Vendor, At, InHand, Typed
<1>6. CASE RecordRejected(w)
  <2>1. ASSUME NEW retryable \in BOOLEAN, NextLeg(w, retryable)
        PROVE  run'[w].at \in {"submit", "failing"}
    BY <2>1, MovesToNextLeg
  <2>2. QED BY <1>6, <2>1, SubmitFailsMoves DEF RecordRejected
<1>7. CASE InlinePoll(w)
  <2>1. ASSUME NextLeg(w, FALSE) PROVE run'[w].at \in {"submit", "failing"}
    BY <2>1, MovesToNextLeg
  <2>2. QED BY <1>7, <2>1, <1>c DEF InlinePoll
<1>8. CASE RecordUnclear(w)
  BY <1>8, SubmitFailsMoves DEF RecordUnclear
<1>9. CASE RecordAccepted(w)
  <2>1. run'[w].at = "failing" \/ run'[w].attempt = run[w].attempt
    BY <1>9, GotoMoves, SubmitFailsMoves DEF RecordAccepted
  <2>2. QED BY <1>9, <2>1 DEF RecordAccepted, At, InHand, Typed
<1>10. CASE Persist(w) \/ Poll(w) \/ Break(w) \/ Settle(w) \/ Finish(w)
  <2>1. CASE Persist(w)
    BY <2>1, GotoMoves DEF Persist
  <2>2. CASE Poll(w)
    BY <2>2, <1>a, <1>c DEF Poll
  <2>3. CASE Break(w)
    BY <2>3, FailMoves DEF Break
  <2>4. CASE Settle(w)
    <3>1. Goto(w, "settled") \/ Goto(w, "suppressed") \/ Fail(w, FALSE)
      BY <2>4 DEF Settle
    <3>2. CASE Goto(w, "settled")
      BY <3>2, GotoMoves
    <3>3. CASE Goto(w, "suppressed")
      BY <3>3, GotoMoves
    <3>4. QED BY <3>1, <3>2, <3>3, <1>a
  <2>5. CASE Finish(w)
    BY <2>5, StopMoves DEF Finish
  <2>6. QED BY <1>10, <2>1, <2>2, <2>3, <2>4, <2>5
<1>11. CASE CloseAttempt(w) \/ Requeue(w) \/ FailJob(w) \/ CloseFails(w)
  <2>1. CASE CloseAttempt(w)
    BY <2>1, GotoMoves DEF CloseAttempt
  <2>2. CASE Requeue(w)
    BY <2>2, StopMoves DEF Requeue
  <2>3. CASE FailJob(w)
    BY <2>3, StopMoves DEF FailJob
  <2>4. CASE CloseFails(w)
    BY <2>4, StopMoves DEF CloseFails
  <2>5. QED BY <1>11, <2>1, <2>2, <2>3, <2>4
<1>12. QED
  BY <1>1, <1>2, <1>3, <1>4, <1>5, <1>6, <1>7, <1>8, <1>9, <1>10, <1>11 DEF RunJob

-----------------------------------------------------------------------------
\* What a step may do to the journal and to the vendor's generations.
LEMMA NextProvider ==
  ASSUME Typed, [Next]_vars
  PROVE  /\ journal' \in Seq(Outcomes) /\ Len(journal') <= MaxSubmits
         /\ live' \subseteq Attempts
<1>0. /\ journal \in Seq(Outcomes) /\ Len(journal) <= MaxSubmits
      /\ live \subseteq Attempts /\ run \in [Workers -> RunRecord] /\ TypeOK
  BY DEF Typed, TypeOK, RunRecord
<1>1. CASE Create \/ Deliver \/ Stall \/ Sweep \/ EraseReads \/ EraseWrites
           \/ UNCHANGED vars
  BY <1>0, <1>1
     DEF Create, Deliver, Stall, Sweep, EraseReads, EraseWrites, vars, provider
<1>2. ASSUME NEW w \in Workers, Take(w) \/ Crash(w) \/ RunJob(w)
      PROVE  /\ journal' \in Seq(Outcomes) /\ Len(journal') <= MaxSubmits
             /\ live' \subseteq Attempts
  <2>1. ASSUME NEW outcome \in Outcomes, Record(w, outcome)
        PROVE  journal' \in Seq(Outcomes) /\ Len(journal') <= MaxSubmits
    BY <1>0, <2>1, RecordedType DEF Record
  <2>2. ASSUME NEW outcome \in Outcomes, Outcome(w, outcome)
        PROVE  journal' \in Seq(Outcomes) /\ Len(journal') <= MaxSubmits
    BY <1>0, <2>1, <2>2 DEF Outcome
  <2>3. CASE Take(w) \/ Crash(w) \/ Read(w) \/ Claim(w) \/ Refuse(w) \/ Escape(w)
             \/ Recover(w) \/ Persist(w) \/ Break(w) \/ Requeue(w) \/ FailJob(w)
             \/ CloseFails(w)
    BY <1>0, <2>3 DEF Take, Crash, Read, Claim, Refuse, Escape, Recover, Persist, Break,
                      Requeue, FailJob, CloseFails, provider
  <2>4. CASE Begin(w)
    BY <1>0, <2>4, BoundsAssumption DEF Begin, Outcomes
  <2>5. CASE Vendor(w)
    <3>1. /\ journal' = journal
          /\ live' \subseteq live \cup {run[w].attempt}
          /\ At(w, "sent")
      BY <2>5 DEF Vendor
    <3>2. run[w].attempt \in Attempts
      BY <1>0, <3>1 DEF Typed, InHand, At, RunRecord
    <3>3. QED BY <1>0, <3>1, <3>2
  <2>6. CASE RecordRejected(w) \/ RecordUnclear(w) \/ RecordAccepted(w)
    BY <1>0, <2>1, <2>6 DEF RecordRejected, RecordUnclear, RecordAccepted, Outcomes
  <2>7. CASE InlinePoll(w) \/ Poll(w) \/ Settle(w)
    BY <1>0, <2>7 DEF InlinePoll, Poll, Settle
  <2>8. CASE Finish(w) \/ CloseAttempt(w)
    BY <1>0, <2>2, <2>8 DEF Finish, CloseAttempt, Outcomes
  <2>9. QED BY <1>2, <2>3, <2>4, <2>5, <2>6, <2>7, <2>8 DEF RunJob
<1>3. QED BY <1>1, <1>2 DEF Next

-----------------------------------------------------------------------------
\* What a step may do to the job's row.
LEMMA NextJob ==
  ASSUME Typed, [Next]_vars
  PROVE  /\ status' \in {"none", "queued", "running", "succeeded", "failed"}
         /\ requeued' \in BOOLEAN /\ token' \in Attempts \cup {NoAttempt}
         /\ owed' \subseteq Settlements
         /\ erasing' \in {"no", "open job read", "done"}
<1>0. /\ status \in {"none", "queued", "running", "succeeded", "failed"}
      /\ requeued \in BOOLEAN /\ token \in Attempts \cup {NoAttempt}
      /\ owed \subseteq Settlements /\ run \in [Workers -> RunRecord]
      /\ erasing \in {"no", "open job read", "done"}
  BY DEF Typed, TypeOK, RunRecord
<1> USE <1>0 DEF job, Settlements
<1>1. CASE Create \/ Deliver \/ Stall \/ Sweep \/ EraseReads \/ EraseWrites
           \/ UNCHANGED vars
  BY <1>1 DEF Create, Deliver, Stall, Sweep, EraseReads, EraseWrites, vars
<1>2. ASSUME NEW w \in Workers, Take(w) \/ Crash(w) \/ RunJob(w)
      PROVE  /\ status' \in {"none", "queued", "running", "succeeded", "failed"}
             /\ requeued' \in BOOLEAN /\ token' \in Attempts \cup {NoAttempt}
             /\ owed' \subseteq Settlements
             /\ erasing' \in {"no", "open job read", "done"}
  <2>1. CASE Take(w) \/ Crash(w) \/ Read(w) \/ Escape(w) \/ Recover(w) \/ Begin(w)
             \/ Vendor(w) \/ RecordRejected(w)
    BY <2>1 DEF Take, Crash, Read, Escape, Recover, Begin, Vendor, RecordRejected
  <2>2. CASE RecordUnclear(w) \/ RecordAccepted(w) \/ InlinePoll(w) \/ Poll(w)
             \/ Break(w) \/ Finish(w) \/ CloseAttempt(w) \/ CloseFails(w)
    BY <2>2 DEF RecordUnclear, RecordAccepted, InlinePoll, Poll, Break, Finish,
                CloseAttempt, CloseFails
  <2>3. CASE Persist(w)
    BY <2>3 DEF Persist, RunRecord
  <2>4. CASE Claim(w) \/ Refuse(w) \/ Settle(w) \/ Requeue(w) \/ FailJob(w)
    BY <2>4 DEF Claim, Refuse, Settle, Requeue, FailJob
  <2>5. QED BY <1>2, <2>1, <2>2, <2>3, <2>4 DEF RunJob
<1>3. QED BY <1>1, <1>2 DEF Next

LEMMA NextTyped == Typed /\ [Next]_vars => Typed'
BY NextDelivery, NextRun, NextInHand, NextProvider, NextJob
   DEF Typed, TypeOK, RunRecord, DeliveryRecord

(***************************************************************************)
(* However many workers, attempts, stalls and submits: the rows, the       *)
(* message and the workers' locals keep their types.                       *)
(***************************************************************************)
THEOREM TypeCorrect == Spec => []TypeOK
<1>1. Typed => TypeOK
  BY DEF Typed
<1>2. QED BY <1>1, InitTyped, NextTyped, PTL DEF Spec

-----------------------------------------------------------------------------
LEMMA NextOwed ==
  ASSUME TypeOK, FinishedIsOwed, [Next]_vars
  PROVE  FinishedIsOwed' /\ (status = "failed" => status' = "failed")
<1> USE DEF FinishedIsOwed, Charged, Returned, job
<1>1. CASE Create \/ Deliver \/ Stall \/ EraseReads \/ UNCHANGED vars
  BY <1>1 DEF Create, Deliver, Stall, EraseReads, vars
<1>2. CASE Sweep
  BY <1>2 DEF Sweep
<1>3. CASE EraseWrites
  BY <1>3 DEF EraseWrites
<1>4. ASSUME NEW w \in Workers, Take(w) \/ Crash(w) \/ RunJob(w)
      PROVE  FinishedIsOwed' /\ (status = "failed" => status' = "failed")
  <2>1. CASE Take(w) \/ Crash(w) \/ Read(w) \/ Escape(w) \/ Recover(w) \/ Begin(w)
             \/ Vendor(w) \/ RecordRejected(w)
    BY <2>1 DEF Take, Crash, Read, Escape, Recover, Begin, Vendor, RecordRejected
  <2>2. CASE RecordUnclear(w) \/ RecordAccepted(w) \/ InlinePoll(w) \/ Persist(w)
             \/ Poll(w) \/ Break(w) \/ Finish(w) \/ CloseAttempt(w) \/ CloseFails(w)
    BY <2>2 DEF RecordUnclear, RecordAccepted, InlinePoll, Persist, Poll, Break,
                Finish, CloseAttempt, CloseFails
  <2>3. CASE Claim(w) \/ Requeue(w)
    BY <2>3 DEF Claim, Requeue
  <2>4. CASE Refuse(w)
    BY <2>4 DEF Refuse
  <2>5. CASE Settle(w)
    BY <2>5 DEF Settle
  <2>6. CASE FailJob(w)
    BY <2>6 DEF FailJob
  <2>7. QED BY <1>4, <2>1, <2>2, <2>3, <2>4, <2>5, <2>6 DEF RunJob
<1>5. QED BY <1>1, <1>2, <1>3, <1>4 DEF Next

LEMMA InitOwed == Init => FinishedIsOwed
BY DEF Init, FinishedIsOwed

(***************************************************************************)
(* Under every fault and with any number of workers, a job that ended owes *)
(* the settlement of its end: none succeeds uncharged, none fails without  *)
(* its refund.                                                             *)
(***************************************************************************)
THEOREM FinishedJobsAreOwed == Spec => []FinishedIsOwed
<1>1. QED BY InitTyped, NextTyped, InitOwed, NextOwed, PTL DEF Spec, Typed

(***************************************************************************)
(* A failed job stays failed, whatever retry, late result or requeue still *)
(* comes: its hold has been given back.                                    *)
(***************************************************************************)
THEOREM FailedJobsStayFailed == Spec => FailedIsFinal
<1>1. TypeOK /\ FinishedIsOwed /\ [Next]_vars =>
        [status = "failed" => status' = "failed"]_vars
  BY NextOwed
<1>2. QED
  BY <1>1, TypeCorrect, FinishedJobsAreOwed, PTL DEF Spec, FailedIsFinal

-----------------------------------------------------------------------------
(***************************************************************************)
(* With sound locks and acknowledgements the worker that holds BullMQ's    *)
(* lock is the only one at work, ...                                       *)
(***************************************************************************)
Exclusive == \A w \in Workers : run[w].at # "idle" => delivery.holder = w

\* ... it never works on a job that succeeded, but to report it, ...
NotYet ==
  \A w \in Workers :
    run[w].at \notin {"idle", "taken", "settled"} => status # "succeeded"

\* ... and the advisory lock keeps a job that the erasure read from succeeding.
ErasureLocks ==
  erasing = "open job read" => status \notin {"none", "succeeded"}

SettledInv == /\ Typed /\ Exclusive /\ NotYet /\ ErasureLocks
              /\ SettledAsFinished

LEMMA InitSettled == Init => SettledInv
<1>1. Init => Exclusive /\ NotYet /\ ErasureLocks
  BY DEF Init, Idle, Exclusive, NotYet, ErasureLocks
<1>2. Init => SettledAsFinished
  BY DEF Init, SettledAsFinished, Charged, Returned
<1>3. QED BY <1>1, <1>2, InitTyped DEF SettledInv

\* A step of runJob is taken by a worker at work, and it gives up the message
\* only when it stops.
LEMMA RunJobSteps ==
  ASSUME Typed, NEW w \in Workers, Crash(w) \/ RunJob(w)
  PROVE  /\ run[w].at # "idle"
         /\ delivery' = delivery \/ run'[w].at = "idle"
<1> USE StopMoves DEF At
<1>1. CASE Crash(w) \/ Recover(w) \/ Begin(w) \/ Vendor(w)
  BY <1>1 DEF Crash, Recover, Begin, Vendor
<1>2. CASE RecordRejected(w) \/ RecordUnclear(w) \/ RecordAccepted(w) \/ InlinePoll(w)
  BY <1>2 DEF RecordRejected, RecordUnclear, RecordAccepted, InlinePoll
<1>3. CASE Persist(w) \/ Poll(w) \/ Break(w) \/ Settle(w) \/ CloseAttempt(w)
  BY <1>3 DEF Persist, Poll, Break, Settle, CloseAttempt
<1>4. CASE Read(w) \/ Claim(w) \/ Refuse(w) \/ Finish(w)
  BY <1>4 DEF Read, Claim, Refuse, Finish
<1>5. CASE Escape(w) \/ Requeue(w) \/ FailJob(w) \/ CloseFails(w)
  BY <1>5 DEF Escape, Requeue, FailJob, CloseFails
<1>6. QED BY <1>1, <1>2, <1>3, <1>4, <1>5 DEF RunJob

LEMMA NextExclusive ==
  ASSUME "lock lost" \notin Faults, Typed, Exclusive, [Next]_vars
  PROVE  Exclusive'
<1> SUFFICES ASSUME NEW v \in Workers, run'[v].at # "idle"
             PROVE  delivery'.holder = v
  BY DEF Exclusive
<1>0. /\ delivery \in DeliveryRecord
      /\ delivery.holder \in Workers <=> delivery.state = "active"
  BY DEF Typed, TypeOK, DeliveryRecord, DeliveryCounts
\* While the message is not active, nobody works.
<1>1. delivery.state # "active" => run[v].at = "idle"
  BY <1>0 DEF Exclusive
<1>2. CASE Create \/ Deliver \/ Stall
  <2>1. run'[v] = run[v]
    BY <1>2, RunStays
  <2>2. CASE Create
    BY <1>0, <2>1, <2>2 DEF Create, Exclusive, DeliveryRecord
  <2>3. CASE Deliver
    <3>1. delivery.state # "active"
      BY <2>3 DEF Deliver
    <3>2. QED BY <1>1, <2>1, <3>1
  <2>4. CASE Stall
    <3>1. run[delivery.holder].at = "idle"
      BY <2>4 DEF Stall, At
    <3>2. QED BY <2>1, <3>1 DEF Exclusive
  <2>5. QED BY <1>2, <2>2, <2>3, <2>4
<1>3. CASE Sweep \/ EraseReads \/ EraseWrites \/ UNCHANGED vars
  <2>1. delivery' = delivery /\ run' = run
    BY <1>3, RunStays DEF Sweep, EraseReads, EraseWrites, vars
  <2>2. QED BY <2>1 DEF Exclusive
<1>4. ASSUME NEW w \in Workers, Take(w) PROVE delivery'.holder = v
  <2>1. delivery.state = "waiting" /\ delivery'.holder = w
    BY <1>0, <1>4 DEF Take, DeliveryRecord
  <2>2. v # w => run'[v] = run[v]
    BY <1>4, OthersStay
  <2>3. QED BY <1>1, <2>1, <2>2
<1>5. ASSUME NEW w \in Workers, Crash(w) \/ RunJob(w) PROVE delivery'.holder = v
  <2>1. delivery.holder = w
    BY <1>5, RunJobSteps DEF Exclusive
  <2>2. v # w => run'[v] = run[v]
    BY <1>5, OthersStay
  <2>3. v = w
    BY <2>1, <2>2 DEF Exclusive
  <2>4. delivery' = delivery
    BY <1>5, <2>3, RunJobSteps
  <2>5. QED BY <2>1, <2>3, <2>4
<1>6. QED BY <1>2, <1>3, <1>4, <1>5 DEF Next

\* The one step that makes a job succeed.
LEMMA Succeeds ==
  ASSUME "ack lost" \notin Faults, [Next]_vars,
         status # "succeeded", status' = "succeeded"
  PROVE  /\ erasing # "open job read" /\ erasing' = erasing
         /\ \E w \in Workers : Settle(w) /\ At(w, "upload") /\ Goto(w, "settled")
<1> USE DEF job
<1>1. CASE Create \/ Deliver \/ Stall \/ Sweep \/ EraseReads \/ EraseWrites
           \/ UNCHANGED vars
  BY <1>1 DEF Create, Deliver, Stall, Sweep, EraseReads, EraseWrites, vars
<1>2. ASSUME NEW w \in Workers, Take(w) \/ Crash(w) \/ RunJob(w), ~Settle(w)
      PROVE  FALSE
  <2>1. CASE Take(w) \/ Crash(w) \/ Read(w) \/ Escape(w) \/ Recover(w) \/ Begin(w)
             \/ Vendor(w) \/ RecordRejected(w)
    BY <2>1 DEF Take, Crash, Read, Escape, Recover, Begin, Vendor, RecordRejected
  <2>2. CASE RecordUnclear(w) \/ RecordAccepted(w) \/ InlinePoll(w) \/ Persist(w)
             \/ Poll(w) \/ Break(w) \/ Finish(w) \/ CloseAttempt(w) \/ CloseFails(w)
    BY <2>2 DEF RecordUnclear, RecordAccepted, InlinePoll, Persist, Poll, Break,
                Finish, CloseAttempt, CloseFails
  <2>3. CASE Claim(w) \/ Requeue(w) \/ Refuse(w) \/ FailJob(w)
    BY <2>3 DEF Claim, Requeue, Refuse, FailJob
  <2>4. QED BY <1>2, <2>1, <2>2, <2>3 DEF RunJob
<1>3. ASSUME NEW w \in Workers, Settle(w)
      PROVE  /\ erasing # "open job read" /\ erasing' = erasing
             /\ At(w, "upload") /\ Goto(w, "settled")
  BY <1>3 DEF Settle
<1>4. QED BY <1>1, <1>2, <1>3 DEF Next

\* Where a worker is that has claimed the job and not stopped or settled it.
AtWork(w) == run[w].at \notin {"idle", "taken", "settled"}

\* A worker gets to work by reading a queued job, and stays at work until it
\* stops or settles.
LEMMA StaysAtWork ==
  ASSUME Typed, NEW w \in Workers, Take(w) \/ Crash(w) \/ RunJob(w), AtWork(w)'
  PROVE  \/ AtWork(w)
         \/ Read(w) /\ status = "queued" /\ status' = status
<1> USE DEF At, AtWork
<1>1. CASE Take(w)
  BY <1>1, TakeMoves
<1>2. CASE Crash(w)
  BY <1>2, StopMoves DEF Crash
<1>3. CASE Read(w)
  BY <1>3, StopMoves DEF Read, job
<1>4. CASE Finish(w)
  BY <1>4, StopMoves DEF Finish
<1>5. CASE Claim(w) \/ Refuse(w) \/ Escape(w) \/ Recover(w) \/ Begin(w) \/ Vendor(w)
  BY <1>5 DEF Claim, Refuse, Escape, Recover, Begin, Vendor
<1>6. CASE RecordRejected(w) \/ RecordUnclear(w) \/ RecordAccepted(w) \/ InlinePoll(w)
  BY <1>6 DEF RecordRejected, RecordUnclear, RecordAccepted, InlinePoll
<1>7. CASE Persist(w) \/ Poll(w) \/ Break(w) \/ Settle(w) \/ CloseAttempt(w)
  BY <1>7 DEF Persist, Poll, Break, Settle, CloseAttempt
<1>8. CASE Requeue(w) \/ FailJob(w) \/ CloseFails(w)
  BY <1>8 DEF Requeue, FailJob, CloseFails
<1>9. QED
  BY <1>1, <1>2, <1>3, <1>4, <1>5, <1>6, <1>7, <1>8 DEF RunJob

LEMMA NextNotYet ==
  ASSUME "ack lost" \notin Faults, Typed, Exclusive, NotYet, [Next]_vars
  PROVE  NotYet'
<1> SUFFICES ASSUME NEW v \in Workers, AtWork(v)' PROVE status' # "succeeded"
  BY DEF NotYet, AtWork
<1>1. CASE status # "succeeded" /\ status' = "succeeded"
  <2>1. PICK w \in Workers : Settle(w) /\ At(w, "upload") /\ Goto(w, "settled")
    BY <1>1, Succeeds
  <2>2. run'[w].at = "settled" /\ RunJob(w)
    BY <2>1, GotoMoves DEF RunJob
  <2>3. v # w
    BY <2>2 DEF AtWork
  <2>4. run'[v] = run[v]
    BY <2>2, <2>3, OthersStay
  <2>5. run[v].at # "idle" /\ run[w].at # "idle"
    BY <2>1, <2>4 DEF AtWork, At
  <2>6. QED BY <2>3, <2>5 DEF Exclusive
<1>2. CASE status = "succeeded"
  <2>1. run[v].at \in {"idle", "taken", "settled"}
    BY <1>2 DEF NotYet
  <2>2. run'[v] # run[v]
    BY <2>1 DEF AtWork
  <2>3. PICK w \in Workers : Take(w) \/ Crash(w) \/ RunJob(w)
    BY <2>2, RunStays DEF Next
  <2>4. v = w
    BY <2>2, <2>3, OthersStay
  <2>5. QED BY <1>2, <2>1, <2>3, <2>4, StaysAtWork DEF AtWork
<1>3. QED BY <1>1, <1>2

LEMMA NextErasure ==
  ASSUME "ack lost" \notin Faults, Typed, ErasureLocks, [Next]_vars
  PROVE  ErasureLocks'
<1> SUFFICES ASSUME erasing' = "open job read"
             PROVE  status' \notin {"none", "succeeded"}
  BY DEF ErasureLocks
<1>1. erasing = "open job read" \/ (status \in {"queued", "running"} /\ status' = status)
  <2>1. CASE Create \/ Deliver \/ Stall \/ Sweep \/ EraseReads \/ EraseWrites
             \/ UNCHANGED vars
    BY <2>1 DEF Create, Deliver, Stall, Sweep, EraseReads, EraseWrites, vars, job
  <2>2. ASSUME NEW w \in Workers, Take(w) \/ Crash(w) \/ RunJob(w)
        PROVE  erasing' = erasing
    <3>1. CASE Take(w) \/ Crash(w) \/ Read(w) \/ Claim(w) \/ Refuse(w) \/ Escape(w)
               \/ Recover(w) \/ Begin(w) \/ Vendor(w)
      BY <3>1 DEF Take, Crash, Read, Claim, Refuse, Escape, Recover, Begin, Vendor
    <3>2. CASE RecordRejected(w) \/ RecordUnclear(w) \/ RecordAccepted(w)
               \/ InlinePoll(w) \/ Persist(w) \/ Poll(w) \/ Break(w) \/ Settle(w)
      BY <3>2 DEF RecordRejected, RecordUnclear, RecordAccepted, InlinePoll, Persist,
                  Poll, Break, Settle
    <3>3. CASE Finish(w) \/ CloseAttempt(w) \/ Requeue(w) \/ FailJob(w) \/ CloseFails(w)
      BY <3>3 DEF Finish, CloseAttempt, Requeue, FailJob, CloseFails
    <3>4. QED BY <2>2, <3>1, <3>2, <3>3 DEF RunJob
  <2>3. QED BY <2>1, <2>2 DEF Next
<1>2. CASE erasing = "open job read"
  BY <1>2, Succeeds, JobStays DEF ErasureLocks
<1>3. QED BY <1>1, <1>2

LEMMA NextSettled ==
  ASSUME "ack lost" \notin Faults, Typed, NotYet, ErasureLocks, SettledAsFinished,
         [Next]_vars
  PROVE  SettledAsFinished' /\ owed \subseteq owed'
<1> USE DEF SettledAsFinished, Charged, Returned, job
<1>0. ASSUME status' = status, owed' = owed
      PROVE  SettledAsFinished' /\ owed \subseteq owed'
  BY <1>0
<1>f. ASSUME status # "succeeded", status' = "failed",
             NEW r \in {"refund", "erased"}, owed' = owed \cup {r}
      PROVE  SettledAsFinished' /\ owed \subseteq owed'
  <2>1. "commit" \notin owed
    BY <1>f
  <2>2. r # "commit" /\ (r = "refund" \/ r = "erased")
    BY <1>f
  <2>3. "commit" \notin owed' /\ ("refund" \in owed' \/ "erased" \in owed')
    BY <1>f, <2>1, <2>2
  <2>4. owed \subseteq owed'
    BY <1>f
  <2>5. QED BY <1>f, <2>3, <2>4
<1>1. CASE Create \/ Deliver \/ Stall \/ EraseReads \/ UNCHANGED vars
  BY <1>1 DEF Create, Deliver, Stall, EraseReads, vars
<1>2. CASE Sweep
  <2>1. \/ status \in {"queued", "running"} /\ status' = "queued" /\ owed' = owed
        \/ /\ status \in {"queued", "running"} /\ status' = "failed"
           /\ owed' = owed \cup {"refund"}
    BY <1>2 DEF Sweep
  <2>2. CASE status \in {"queued", "running"} /\ status' = "queued" /\ owed' = owed
    BY <2>2
  <2>3. CASE /\ status \in {"queued", "running"} /\ status' = "failed"
             /\ owed' = owed \cup {"refund"}
    <3>1. status # "succeeded" /\ status' = "failed" /\ owed' = owed \cup {"refund"}
      BY <2>3
    <3>2. QED BY <3>1, <1>f
  <2>4. QED BY <2>1, <2>2, <2>3
<1>3. CASE EraseWrites
  <2>1. \/ status' = status /\ owed' = owed
        \/ status # "succeeded" /\ status' = "failed" /\ owed' = owed \cup {"erased"}
    BY <1>3 DEF EraseWrites, ErasureLocks
  <2>2. QED BY <2>1, <1>0, <1>f
<1>4. ASSUME NEW w \in Workers, Take(w) \/ Crash(w) \/ RunJob(w)
      PROVE  SettledAsFinished' /\ owed \subseteq owed'
  <2>1. CASE Take(w) \/ Crash(w) \/ Read(w) \/ Escape(w) \/ Recover(w) \/ Begin(w)
             \/ Vendor(w) \/ RecordRejected(w)
    BY <2>1 DEF Take, Crash, Read, Escape, Recover, Begin, Vendor, RecordRejected
  <2>2. CASE RecordUnclear(w) \/ RecordAccepted(w) \/ InlinePoll(w) \/ Persist(w)
             \/ Poll(w) \/ Break(w) \/ Finish(w) \/ CloseAttempt(w) \/ CloseFails(w)
    BY <2>2 DEF RecordUnclear, RecordAccepted, InlinePoll, Persist, Poll, Break,
                Finish, CloseAttempt, CloseFails
  <2>3. CASE Claim(w) \/ Requeue(w)
    BY <2>3 DEF Claim, Requeue
  <2>4. CASE Refuse(w)
    <3>1. \/ status' = status /\ owed' = owed
          \/ status # "succeeded" /\ status' = "failed" /\ owed' = owed \cup {"refund"}
      BY <2>4 DEF Refuse
    <3>2. QED BY <3>1, <1>0, <1>f
  <2>5. CASE Settle(w)
    <3>1. \/ status' = status /\ owed' = owed
          \/ /\ status = "running" /\ status' = "succeeded"
             /\ owed' \in {owed \cup {"commit"}, owed \cup {"commit", "refund-partial"}}
      BY <2>5 DEF Settle
    <3>2. CASE status = "running" /\ status' = "succeeded"
      <4>1. "commit" \in owed' /\ owed \subseteq owed'
        BY <3>1, <3>2
      <4>2. "refund" \notin owed' /\ "erased" \notin owed'
        BY <3>1, <3>2
      <4>3. QED BY <3>2, <4>1, <4>2
    <3>3. QED BY <3>1, <3>2, <1>0
  <2>6. CASE FailJob(w)
    <3>1. status # "succeeded"
      BY <2>6 DEF FailJob, NotYet, At
    <3>2. QED BY <2>6, <3>1 DEF FailJob
  <2>7. QED BY <1>4, <2>1, <2>2, <2>3, <2>4, <2>5, <2>6 DEF RunJob
<1>5. QED BY <1>1, <1>2, <1>3, <1>4 DEF Next

(***************************************************************************)
(* With sound locks and acknowledgements, and any number of workers,       *)
(* crashes, retries, sweeps and erasures, the money goes the way the job   *)
(* went: charged exactly when it succeeded, returned exactly when it       *)
(* failed.                                                                 *)
(***************************************************************************)
THEOREM JobsAreSettledAsFinished ==
  ASSUME Faults \cap {"lock lost", "ack lost"} = {}
  PROVE  Spec => []SettledAsFinished
<1>1. SettledInv /\ [Next]_vars => SettledInv'
  BY NextTyped, NextExclusive, NextNotYet, NextErasure, NextSettled DEF SettledInv
<1>2. SettledInv => SettledAsFinished
  BY DEF SettledInv
<1>3. QED BY <1>1, <1>2, InitSettled, PTL DEF Spec

(***************************************************************************)
(* So the job implements what a paid operation promises: its hold is       *)
(* charged or returned, one of the two, for good.                          *)
(***************************************************************************)
THEOREM JobsKeepThePromise ==
  ASSUME Faults \cap {"lock lost", "ack lost"} = {}
  PROVE  Spec => PromiseKept
<1>1. SettledInv /\ [Next]_vars => SettledInv'
  BY NextTyped, NextExclusive, NextNotYet, NextErasure, NextSettled DEF SettledInv
<1>2. Init => Promise!Init
  BY DEF Init, Promise!Init, Charged, Returned
<1> DEFINE fate == CASE Charged /\ Returned -> "both"
                     [] Charged -> "charged"
                     [] Returned -> "returned"
                     [] OTHER -> "held"
<1>3. SettledInv /\ SettledInv' /\ [Next]_vars => [Promise!Next]_fate
  <2> SUFFICES ASSUME SettledInv, SettledInv', [Next]_vars
               PROVE  Promise!Next \/ fate' = fate
    OBVIOUS
  <2>1. /\ ~(Charged /\ Returned) /\ ~(Charged' /\ Returned')
        /\ (Charged => Charged') /\ (Returned => Returned')
    BY NextSettled DEF SettledInv, SettledAsFinished, Charged, Returned
  <2>2. QED
    BY <2>1 DEF Promise!Next, Promise!Charge, Promise!Return
<1>4. QED
  BY <1>1, <1>2, <1>3, InitSettled, PTL DEF Spec, PromiseKept, Promise!Spec

-----------------------------------------------------------------------------
(***************************************************************************)
(* No second purchase.  The row's handle and the worker at work account    *)
(* between them for the one generation that may still deliver:             *)
(*   - a job that may be claimed, or whose handle is on the row, has no    *)
(*     live generation but the handle's;                                   *)
(*   - a worker that is about to submit knows of none, and whoever took    *)
(*     the job from it meanwhile cannot put it back in the queue;          *)
(*   - a worker past its submit holds the one that lives.                  *)
(***************************************************************************)
OneLive == \A a, b \in live : a = b

LiveIsHandled ==
  status \in {"none", "queued"} \/ token # NoAttempt => live \subseteq {token}

Unsubmitted == token = NoAttempt /\ status \notin {"none", "queued"}

BuysOnce(w) ==
  /\ run[w].at \in {"read", "claimed"} => run[w].seen = token
  /\ run[w].at = "claimed" => /\ live \subseteq {token}
                              /\ token = NoAttempt => Unsubmitted
  /\ run[w].at \in {"submit", "sent", "rejected"} => live = {} /\ Unsubmitted
  /\ run[w].at \in {"accepted", "unclear", "inline", "persist"} =>
       live \subseteq {run[w].attempt} /\ Unsubmitted
  /\ run[w].at = "inline" => run[w].leg # 1
  /\ run[w].at = "poll" => /\ live \subseteq {run[w].attempt}
                           /\ status = "running" => token = run[w].attempt
  /\ run[w].at = "upload" => live \subseteq {run[w].attempt}
  /\ run[w].at \in {"failing", "closing"} /\ run[w].again /\ status = "running" =>
       live \subseteq {token}

Bought == OneLive /\ LiveIsHandled

LEMMA LiveAreAttempts == Typed => NoAttempt \notin live
<1> SUFFICES ASSUME Typed PROVE NoAttempt \notin live
  OBVIOUS
<1>1. live \subseteq Attempts
  BY DEF Typed, TypeOK
<1>2. QED BY <1>1, BoundsAssumption DEF Attempts, NoAttempt

\* Steps of the API, BullMQ, the reaper and the erasure.
LEMMA OthersBuyNothing ==
  ASSUME Typed, Bought, NEW w \in Workers, BuysOnce(w),
         Create \/ Deliver \/ Stall \/ Sweep \/ EraseReads \/ EraseWrites
           \/ UNCHANGED vars
  PROVE  Bought' /\ BuysOnce(w)'
<1>0. run' = run /\ live' = live /\ token' = token
  BY RunStays DEF Create, Deliver, Stall, Sweep, EraseReads, EraseWrites, vars, job,
                  provider
<1>1. CASE status' = status
  BY <1>0, <1>1 DEF Bought, OneLive, LiveIsHandled, Unsubmitted, BuysOnce
<1>2. CASE status = "none" /\ status' = "queued"
  BY <1>0, <1>2 DEF Bought, OneLive, LiveIsHandled, Unsubmitted, BuysOnce
<1>3. CASE status' = "failed"
  BY <1>0, <1>3 DEF Bought, OneLive, LiveIsHandled, Unsubmitted, BuysOnce
<1>4. CASE token # NoAttempt /\ status' = "queued"
  BY <1>0, <1>4 DEF Bought, OneLive, LiveIsHandled, Unsubmitted, BuysOnce
<1>5. QED
  BY <1>1, <1>2, <1>3, <1>4
     DEF Create, Deliver, Stall, Sweep, EraseReads, EraseWrites, vars, job

\* A worker up to the recovery of an earlier attempt.
LEMMA ClaimBuysNothing ==
  ASSUME Typed, "gateway gone" \notin Faults, Bought, NEW w \in Workers, BuysOnce(w),
         \/ Take(w) \/ Crash(w) \/ Read(w) \/ Claim(w) \/ Refuse(w) \/ Escape(w)
         \/ Recover(w)
  PROVE  Bought' /\ BuysOnce(w)'
<1>0. live' = live /\ token' = token
  BY DEF Take, Crash, Read, Claim, Refuse, Escape, Recover, job, provider
<1>1. CASE Take(w) \/ Crash(w) \/ Read(w)
  <2>1. status' = status
    BY <1>1 DEF Take, Crash, Read, job
  <2>2. run'[w].at \in {"taken", "idle"} \/ (run'[w].at = "read" /\ run'[w].seen = token)
    BY <1>1, TakeMoves, StopMoves DEF Crash
  <2>3. QED BY <1>0, <2>1, <2>2 DEF Bought, OneLive, LiveIsHandled, BuysOnce
<1>2. CASE Claim(w)
  <2>1. CASE status = "queued"
    <3>1. At(w, "read") /\ status' = "running" /\ Goto(w, "claimed")
      BY <1>2, <2>1 DEF Claim
    <3>2. run'[w].at = "claimed" /\ run'[w].seen = run[w].seen
      BY <3>1, GotoMoves
    <3>3. QED
      BY <1>0, <2>1, <3>1, <3>2
         DEF At, Bought, OneLive, LiveIsHandled, BuysOnce, Unsubmitted
  <2>2. CASE status # "queued"
    <3>1. status' = status /\ run'[w].at = "idle"
      BY <1>2, <2>2, StopMoves DEF Claim
    <3>2. QED BY <1>0, <3>1 DEF Bought, OneLive, LiveIsHandled, BuysOnce
  <2>3. QED BY <2>1, <2>2
<1>3. CASE Refuse(w) \/ Escape(w)
  <2>1. run'[w].at = "idle" /\ (status' = status \/ status' = "failed")
    BY <1>3, StopMoves DEF Refuse, Escape, job
  <2>2. QED BY <1>0, <2>1 DEF Bought, OneLive, LiveIsHandled, BuysOnce
<1>4. CASE Recover(w)
  <2>1. status' = status /\ run[w].at = "claimed"
    BY <1>4 DEF Recover, job, At
  <2>2. Bought' /\ run[w].seen = token /\ live \subseteq {token}
        /\ (token = NoAttempt => Unsubmitted)
    BY <1>0, <2>1 DEF Bought, OneLive, LiveIsHandled, BuysOnce
  <2>3. token = NoAttempt => live = {}
    BY <2>2, LiveAreAttempts
  <2>4. \/ token # NoAttempt /\ HandleFrom(w, token, "poll")
        \/ token = NoAttempt /\ HandleFrom(w, Latest, "persist")
        \/ Fail(w, FALSE)
        \/ token = NoAttempt /\ Goto(w, "submit")
    BY <1>4, <2>2 DEF Recover, Bindable
  <2>5. CASE token # NoAttempt /\ HandleFrom(w, token, "poll")
    <3>1. run'[w].at = "poll" /\ run'[w].attempt = token
      BY <2>5, HandleMoves
    <3>2. QED BY <1>0, <2>1, <2>2, <3>1 DEF BuysOnce
  <2>6. CASE token = NoAttempt /\ HandleFrom(w, Latest, "persist")
    <3>1. run'[w].at = "persist"
      BY <2>6, HandleMoves
    <3>2. QED BY <1>0, <2>1, <2>2, <2>3, <2>6, <3>1 DEF BuysOnce, Unsubmitted
  <2>7. CASE Fail(w, FALSE)
    <3>1. run'[w].at = "failing" /\ ~run'[w].again
      BY <2>7, FailMoves
    <3>2. QED BY <2>2, <3>1 DEF BuysOnce
  <2>8. CASE token = NoAttempt /\ Goto(w, "submit")
    <3>1. run'[w].at = "submit"
      BY <2>8, GotoMoves
    <3>2. QED BY <1>0, <2>1, <2>2, <2>3, <2>8, <3>1 DEF BuysOnce, Unsubmitted
  <2>9. QED BY <2>4, <2>5, <2>6, <2>7, <2>8
<1>5. QED BY <1>1, <1>2, <1>3, <1>4

\* A worker in generate: from the journal's row to the vendor's answer.
LEMMA SubmitBuysOnce ==
  ASSUME Typed, Legs <= 2, Bought, NEW w \in Workers, BuysOnce(w),
         \/ Begin(w) \/ Vendor(w) \/ RecordRejected(w) \/ RecordUnclear(w)
         \/ RecordAccepted(w) \/ InlinePoll(w)
  PROVE  Bought' /\ BuysOnce(w)'
<1>0. status' = status /\ token' = token
  BY DEF Begin, Vendor, RecordRejected, RecordUnclear, RecordAccepted, InlinePoll, job
<1>1. CASE Begin(w)
  <2>1. live' = live /\ run[w].at = "submit"
    BY <1>1 DEF Begin, At
  <2>2. run'[w].at = "sent"
    BY <1>1, HandleMoves DEF Begin
  <2>3. QED
    BY <1>0, <2>1, <2>2 DEF Bought, OneLive, LiveIsHandled, BuysOnce, Unsubmitted
<1>2. CASE Vendor(w)
  <2>1. live = {} /\ Unsubmitted
    BY <1>2 DEF Vendor, At, BuysOnce
  <2>a. /\ live' \subseteq {run[w].attempt}
        /\ \/ Goto(w, "accepted") \/ Goto(w, "unclear")
           \/ Goto(w, "rejected") /\ live' = {}
    BY <1>2, <2>1 DEF Vendor
  <2>2. /\ run'[w].at \in {"accepted", "rejected", "unclear"}
        /\ run'[w].attempt = run[w].attempt
        /\ run'[w].at = "rejected" => live' = {}
    BY <2>a, GotoMoves
  <2>3. QED
    BY <1>0, <2>1, <2>a, <2>2 DEF Bought, OneLive, LiveIsHandled, BuysOnce, Unsubmitted
<1>3. CASE RecordRejected(w)
  <2>1. live = {} /\ Unsubmitted /\ live' = live
    BY <1>3 DEF RecordRejected, At, BuysOnce
  <2>2. run'[w].at \in {"submit", "failing"}
    BY <1>3, MovesToNextLeg, SubmitFailsMoves DEF RecordRejected
  <2>3. QED
    BY <1>0, <2>1, <2>2 DEF Bought, OneLive, LiveIsHandled, BuysOnce, Unsubmitted
<1>4. CASE RecordUnclear(w) \/ (RecordAccepted(w) /\ SubmitFails(w, FALSE))
  <2>1. live' = live /\ SubmitFails(w, FALSE)
    BY <1>4 DEF RecordUnclear, RecordAccepted
  <2>2. run'[w].at = "failing" /\ ~run'[w].again
    BY <2>1, SubmitFailsMoves
  <2>3. QED BY <1>0, <2>1, <2>2 DEF Bought, OneLive, LiveIsHandled, BuysOnce
<1>5. CASE RecordAccepted(w) /\ ~SubmitFails(w, FALSE)
  <2>1. live' = live /\ live \subseteq {run[w].attempt} /\ Unsubmitted
    BY <1>5 DEF RecordAccepted, At, BuysOnce
  <2>2. \/ Goto(w, "persist") \/ Goto(w, "upload")
        \/ run[w].leg # 1 /\ Goto(w, "inline")
    BY <1>5 DEF RecordAccepted
  <2>3. /\ run'[w].at \in {"persist", "upload", "inline"}
        /\ run'[w].attempt = run[w].attempt
        /\ run'[w].at = "inline" => run'[w].leg # 1
    BY <2>2, GotoMoves
  <2>4. QED
    BY <1>0, <2>1, <2>3 DEF Bought, OneLive, LiveIsHandled, BuysOnce, Unsubmitted
<1>6. CASE InlinePoll(w)
  <2>1. live' \subseteq live /\ live \subseteq {run[w].attempt} /\ Unsubmitted
        /\ run[w].leg # 1
    BY <1>6 DEF InlinePoll, At, BuysOnce
  \* With two legs at most, the fallback that is polled here is the last.
  <2>2. ~(run[w].leg < Legs)
    <3>1. run[w] \in RunRecord
      BY DEF Typed, TypeOK, RunRecord
    <3>2. run[w].leg \in 1..Legs
      BY <3>1 DEF RunRecord
    <3>3. QED BY <2>1, <3>2, BoundsAssumption
  <2>3. \/ run'[w].at = "upload" /\ run'[w].attempt = run[w].attempt
        \/ run'[w].at = "failing" /\ ~run'[w].again
    BY <1>6, <2>2, GotoMoves, MovesToNextLeg DEF InlinePoll
  <2>4. QED
    BY <1>0, <2>1, <2>3 DEF Bought, OneLive, LiveIsHandled, BuysOnce, Unsubmitted
<1>7. QED BY <1>1, <1>2, <1>3, <1>4, <1>5, <1>6

\* A worker that persists, polls, settles or gives up.
LEMMA PollBuysNothing ==
  ASSUME Typed, Bought, NEW w \in Workers, BuysOnce(w),
         \/ Persist(w) \/ Poll(w) \/ Break(w) \/ Settle(w) \/ Finish(w)
         \/ CloseAttempt(w) \/ Requeue(w) \/ FailJob(w) \/ CloseFails(w)
  PROVE  Bought' /\ BuysOnce(w)'
<1>1. CASE Persist(w)
  <2>1. /\ live' = live /\ status' = status /\ Unsubmitted
        /\ live \subseteq {run[w].attempt}
        /\ token' = IF status = "running" THEN run[w].attempt ELSE token
    BY <1>1 DEF Persist, At, BuysOnce, provider
  <2>2. run'[w].at = "poll" /\ run'[w].attempt = run[w].attempt
    BY <1>1, GotoMoves DEF Persist
  <2>3. QED
    BY <2>1, <2>2 DEF Bought, OneLive, LiveIsHandled, BuysOnce, Unsubmitted
<1>2. CASE Poll(w)
  <2>1. /\ live' \subseteq live /\ status' = status /\ token' = token
        /\ live \subseteq {run[w].attempt}
        /\ status = "running" => token = run[w].attempt
    BY <1>2 DEF Poll, At, BuysOnce, job
  <2>2. \/ run'[w].at = "upload" /\ run'[w].attempt = run[w].attempt
        \/ run'[w].at = "failing"
    BY <1>2, GotoMoves, FailMoves DEF Poll
  <2>3. QED BY <2>1, <2>2 DEF Bought, OneLive, LiveIsHandled, BuysOnce
<1>3. CASE Break(w)
  <2>1. live' = live /\ status' = status /\ token' = token
    BY <1>3 DEF Break, job, provider
  <2>2. run'[w].at = "failing" /\ ~run'[w].again
    BY <1>3, FailMoves DEF Break
  <2>3. QED BY <2>1, <2>2 DEF Bought, OneLive, LiveIsHandled, BuysOnce
<1>4. CASE Settle(w)
  <2>1. live' \subseteq live /\ token' = token
        /\ (status' = status \/ status' = "succeeded")
    BY <1>4 DEF Settle
  <2>2. \/ run'[w].at \in {"settled", "suppressed"}
        \/ run'[w].at = "failing" /\ ~run'[w].again
    BY <1>4, GotoMoves, FailMoves DEF Settle
  <2>3. QED BY <2>1, <2>2 DEF Bought, OneLive, LiveIsHandled, BuysOnce
<1>5. CASE CloseAttempt(w)
  <2>1. live' = live /\ status' = status /\ token' = token /\ run[w].at = "failing"
    BY <1>5 DEF CloseAttempt, job, At
  <2>2. run'[w].at = "closing" /\ run'[w].again = run[w].again
    BY <1>5, GotoMoves DEF CloseAttempt
  <2>3. QED BY <2>1, <2>2 DEF Bought, OneLive, LiveIsHandled, BuysOnce
<1>6. CASE Finish(w) \/ FailJob(w) \/ CloseFails(w)
  <2>1. live' = live /\ token' = token /\ (status' = status \/ status' = "failed")
    BY <1>6 DEF Finish, FailJob, CloseFails, job, provider
  <2>2. run'[w].at = "idle"
    BY <1>6, StopMoves DEF Finish, FailJob, CloseFails
  <2>3. QED BY <2>1, <2>2 DEF Bought, OneLive, LiveIsHandled, BuysOnce
<1>7. CASE Requeue(w)
  <2>1. live' = live /\ token' = token
        /\ (status' = status \/ (status = "running" /\ live \subseteq {token}))
    BY <1>7 DEF Requeue, Retries, At, BuysOnce, provider
  <2>2. run'[w].at = "idle"
    BY <1>7, StopMoves DEF Requeue
  <2>3. QED BY <2>1, <2>2 DEF Bought, OneLive, LiveIsHandled, BuysOnce
<1>8. QED BY <1>1, <1>2, <1>3, <1>4, <1>5, <1>6, <1>7

PurchaseInv ==
  /\ Typed /\ Exclusive /\ Bought
  /\ \A w \in Workers : BuysOnce(w)

LEMMA InitPurchase == Init => PurchaseInv
<1>1. Init => Exclusive /\ Bought
  BY DEF Init, Idle, Exclusive, Bought, OneLive, LiveIsHandled
<1>2. Init => \A w \in Workers : BuysOnce(w)
  BY DEF Init, Idle, BuysOnce
<1>3. QED BY <1>1, <1>2, InitTyped DEF PurchaseInv

LEMMA NextPurchase ==
  ASSUME Faults \cap {"lock lost", "gateway gone"} = {}, Legs <= 2,
         PurchaseInv, [Next]_vars
  PROVE  PurchaseInv'
<1>0. Typed' /\ Exclusive'
  BY NextTyped, NextExclusive DEF PurchaseInv
<1>1. CASE Create \/ Deliver \/ Stall \/ Sweep \/ EraseReads \/ EraseWrites
           \/ UNCHANGED vars
  <2>1. \A w \in Workers : Bought' /\ BuysOnce(w)'
    BY <1>1, OthersBuyNothing DEF PurchaseInv
  <2>2. Bought'
    <3>1. live' = live /\ token' = token
      BY <1>1 DEF Create, Deliver, Stall, Sweep, EraseReads, EraseWrites, vars, job,
                  provider
    <3>2. token # NoAttempt \/ status \in {"none", "queued"}
            \/ status' \notin {"none", "queued"}
      BY <1>1 DEF Create, Deliver, Stall, Sweep, EraseReads, EraseWrites, vars, job
    <3>3. QED BY <3>1, <3>2 DEF PurchaseInv, Bought, OneLive, LiveIsHandled
  <2>3. QED BY <1>0, <2>1, <2>2 DEF PurchaseInv
<1>2. ASSUME NEW w \in Workers, Take(w) \/ Crash(w) \/ RunJob(w)
      PROVE  PurchaseInv'
  <2>1. Bought' /\ BuysOnce(w)'
    BY <1>2, ClaimBuysNothing, SubmitBuysOnce, PollBuysNothing DEF PurchaseInv, RunJob
  <2>2. ASSUME NEW v \in Workers PROVE BuysOnce(v)'
    <3>1. CASE v = w
      BY <2>1, <3>1
    <3>2. CASE v # w
      \* Whoever else is at work would hold BullMQ's lock as well.
      <4>1. run'[v] = run[v] /\ run[v].at = "idle"
        <5>1. run[w].at # "idle" \/ delivery.state = "waiting"
          <6>1. CASE Take(w)
            BY <6>1 DEF Take
          <6>2. CASE Crash(w) \/ RunJob(w)
            BY <6>2, RunJobSteps DEF PurchaseInv
          <6>3. QED BY <1>2, <6>1, <6>2
        <5>2. delivery.state = "waiting" => delivery.holder \notin Workers
          BY DEF PurchaseInv, Typed, DeliveryCounts
        <5>3. QED
          BY <1>2, <3>2, <5>1, <5>2, OthersStay DEF PurchaseInv, Exclusive
      <4>2. QED BY <4>1 DEF BuysOnce
    <3>3. QED BY <3>1, <3>2
  <2>3. QED BY <1>0, <2>1, <2>2 DEF PurchaseInv
<1>3. QED BY <1>1, <1>2 DEF Next

LEMMA OneAtMost == OneLive => NoSecondPurchase
<1> SUFFICES ASSUME OneLive PROVE Cardinality(live) <= 1
  BY DEF NoSecondPurchase
<1>1. CASE live = {}
  BY <1>1, FS_EmptySet
<1>2. CASE live # {}
  <2>1. PICK a \in live : live = {a}
    BY <1>2 DEF OneLive
  <2>2. Cardinality(live) = 1
    BY <2>1, FS_Singleton
  <2>3. QED BY <2>2
<1>3. QED BY <1>1, <1>2

(***************************************************************************)
(* However many workers run it, and through every crash, stall, retry,     *)
(* requeue and lost acknowledgement, a job never has two generations that  *)
(* were bought and may both still deliver: as long as BullMQ's lock is     *)
(* sound, the gateway of a persisted handle stays configured, and a chain  *)
(* has at most one fallback.  With a third leg it may (the run on chains). *)
(***************************************************************************)
THEOREM NothingIsBoughtTwice ==
  ASSUME Faults \cap {"lock lost", "gateway gone"} = {}, Legs <= 2
  PROVE  Spec => []NoSecondPurchase
<1>1. PurchaseInv /\ [Next]_vars => PurchaseInv'
  BY NextPurchase
<1>2. PurchaseInv => NoSecondPurchase
  BY OneAtMost DEF PurchaseInv, Bought
<1>3. QED BY <1>1, <1>2, InitPurchase, PTL DEF Spec

-----------------------------------------------------------------------------
(***************************************************************************)
(* The job with the hold of its credits (JobSettlement).  Every step of it *)
(* is a step of the job or hidden from it, so that all of the above holds  *)
(* of the job in it.                                                       *)
(***************************************************************************)
THEOREM SettlingJobIsAJob == SettlementSpec => Spec
<1>1. SettlementInit => Init
  BY DEF SettlementInit
<1>2. [SettlementNext]_settlementVars => [Next]_vars
  <2> SUFFICES ASSUME SettlementNext PROVE [Next]_vars
    BY DEF settlementVars, vars
  <2>1. CASE Place
    BY <2>1 DEF Place, Next
  <2>2. CASE Erase
    BY <2>2 DEF Erase, Next
  <2>3. ASSUME NEW w \in Workers, Deliverance(w) PROVE Next
    BY <2>3 DEF Deliverance, Next, RunJob
  <2>4. ASSUME NEW key \in Settlements, Land(key) PROVE UNCHANGED vars
    BY <2>4 DEF Land
  <2>5. CASE Elsewhere
    BY <2>5, Zenon DEF Elsewhere, Next, RunJob
  <2>6. QED BY <2>1, <2>2, <2>3, <2>4, <2>5 DEF SettlementNext
<1>3. QED BY <1>1, <1>2, PTL DEF SettlementSpec, Spec

(***************************************************************************)
(* The ledger's side of a hold: what the settlements took is covered by    *)
(* it, and a refund or an erasure takes the whole of it or nothing.        *)
(***************************************************************************)
Took == taken["commit"] + taken["refund-partial"] + taken["refund"] + taken["erased"]

HoldInv ==
  /\ reserved \in {0, Cost} /\ spent \in 0..Cost
  /\ taken \in [Settlements -> Nat]
  /\ taken["refund"] \in {0, Cost} /\ taken["erased"] \in {0, Cost}
  /\ Took <= reserved

LEMMA LeftIsUntaken ==
  ASSUME taken \in [Settlements -> Nat]
  PROVE  Ledger!Left = reserved - Took
<1>1. Ledger!Left = reserved - SumFunctionOnSet(taken, Settlements)
  BY Zenon DEF Ledger!Left, Ledger!SumFunctionOnSet, Ledger!FoldFunctionOnSet,
               Ledger!MapThenFoldSet, SumFunctionOnSet, FoldFunctionOnSet, MapThenFoldSet
<1> DEFINE A == {"commit"}  B == {"commit", "refund-partial"}
           C == {"commit", "refund-partial", "refund"}
<1>2. /\ A = {} \cup {"commit"} /\ B = A \cup {"refund-partial"}
      /\ C = B \cup {"refund"} /\ Settlements = C \cup {"erased"}
  BY DEF Settlements
<1>3. IsFiniteSet({}) /\ IsFiniteSet(A) /\ IsFiniteSet(B) /\ IsFiniteSet(C)
  <2>1. IsFiniteSet({})
    BY FS_EmptySet
  <2>2. IsFiniteSet(A)
    BY <1>2, <2>1, FS_AddElement
  <2>3. IsFiniteSet(B)
    BY <1>2, <2>2, FS_AddElement
  <2>4. QED BY <1>2, <2>1, <2>2, <2>3, FS_AddElement
<1>4. \A k \in Settlements : taken[k] \in Int
  OBVIOUS
<1>5. SumFunctionOnSet(taken, {} \cup {"commit"}) =
        SumFunctionOnSet(taken, {}) + taken["commit"]
  BY <1>3, <1>4, SumAdds DEF Settlements
<1>6. SumFunctionOnSet(taken, A \cup {"refund-partial"}) =
        SumFunctionOnSet(taken, A) + taken["refund-partial"]
  BY <1>3, <1>4, SumAdds DEF Settlements
<1>7. SumFunctionOnSet(taken, B \cup {"refund"}) =
        SumFunctionOnSet(taken, B) + taken["refund"]
  BY <1>3, <1>4, SumAdds DEF Settlements
<1>8. SumFunctionOnSet(taken, C \cup {"erased"}) =
        SumFunctionOnSet(taken, C) + taken["erased"]
  BY <1>3, <1>4, SumAdds DEF Settlements
<1>9. SumFunctionOnSet(taken, {}) = 0
  BY SumOfNone
<1>10. /\ taken["commit"] \in Int /\ taken["refund-partial"] \in Int
       /\ taken["refund"] \in Int /\ taken["erased"] \in Int
  BY DEF Settlements
<1> HIDE DEF A, B, C
<1>11. SumFunctionOnSet(taken, Settlements) = Took
  BY <1>2, <1>5, <1>6, <1>7, <1>8, <1>9, <1>10 DEF Took
<1>12. QED BY <1>1, <1>11

\* What an observer of the hold sees.
Fate == LET charged == taken["commit"] > 0
            returned == taken["refund"] + taken["erased"] > 0
        IN  CASE charged /\ returned -> "both"
              [] charged -> "charged"
              [] returned -> "returned"
              [] OTHER -> "held"

\* Taking a whole hold back leaves nothing to charge, and the reverse.
LEMMA TakeKeepsHold ==
  ASSUME HoldInv, NEW key \in Settlements, NEW amount \in 0..Cost,
         key \in {"refund", "erased"} => amount = Cost,
         Ledger!Take(key, amount), spent' = spent
  PROVE  HoldInv' /\ [LedgerPromise!Next]_Fate
<1>1. /\ taken[key] = 0 /\ taken' = [taken EXCEPT ![key] = amount]
      /\ reserved' = reserved /\ amount <= reserved - Took
  BY LeftIsUntaken DEF Ledger!Take, HoldInv
<1>2. Cost \in Nat /\ Cost > 0 /\ amount \in Nat /\ taken \in [Settlements -> Nat]
  BY CostAssumption DEF HoldInv
<1>3. \A k \in Settlements :
        /\ taken[k] \in Nat
        /\ taken'[k] = IF k = key THEN amount ELSE taken[k]
  BY <1>1, <1>2
<1> DEFINE c == taken["commit"]  p == taken["refund-partial"]
           r == taken["refund"]  e == taken["erased"]
           c2 == taken'["commit"]  p2 == taken'["refund-partial"]
           r2 == taken'["refund"]  e2 == taken'["erased"]
<1>4. /\ c \in Nat /\ p \in Nat /\ r \in Nat /\ e \in Nat
      /\ c2 \in Nat /\ p2 \in Nat /\ r2 \in Nat /\ e2 \in Nat
      /\ c2 = c \/ c = 0
      /\ c2 + p2 + r2 + e2 = c + p + r + e + amount
      /\ r2 = r \/ (r = 0 /\ r2 = Cost)
      /\ e2 = e \/ (e = 0 /\ e2 = Cost)
      /\ c2 >= c /\ r2 >= r /\ e2 >= e
  <2>1. CASE key = "commit"
    BY <1>1, <1>2, <1>3, <2>1 DEF Settlements
  <2>2. CASE key = "refund-partial"
    BY <1>1, <1>2, <1>3, <2>2 DEF Settlements
  <2>3. CASE key = "refund"
    BY <1>1, <1>2, <1>3, <2>3 DEF Settlements
  <2>4. CASE key = "erased"
    BY <1>1, <1>2, <1>3, <2>4 DEF Settlements
  <2>5. QED BY <2>1, <2>2, <2>3, <2>4 DEF Settlements
<1>5. /\ r \in {0, Cost} /\ e \in {0, Cost} /\ reserved \in {0, Cost}
      /\ Took = c + p + r + e /\ Took' = c2 + p2 + r2 + e2
  BY DEF HoldInv, Took
<1>6. taken' \in [Settlements -> Nat]
  BY <1>1, <1>2
<1> HIDE DEF c, p, r, e, c2, p2, r2, e2
<1>7. Took' <= reserved /\ r2 \in {0, Cost} /\ e2 \in {0, Cost}
  BY <1>1, <1>2, <1>4, <1>5
<1>8. HoldInv'
  BY <1>1, <1>6, <1>7 DEF HoldInv, r2, e2
<1>9. ~(c2 > 0 /\ r2 + e2 > 0)
  BY <1>2, <1>4, <1>5, <1>7, <1>1
<1>10. ~(c > 0 /\ r + e > 0) /\ (c > 0 => c2 > 0) /\ (r + e > 0 => r2 + e2 > 0)
  BY <1>4, <1>9
<1>11. /\ Fate = IF c > 0 THEN "charged" ELSE IF r + e > 0 THEN "returned" ELSE "held"
       /\ Fate' = IF c2 > 0 THEN "charged" ELSE IF r2 + e2 > 0 THEN "returned" ELSE "held"
  BY <1>9, <1>10 DEF Fate, c, r, e, c2, r2, e2
<1>12. \/ Fate' = Fate
       \/ Fate = "held" /\ Fate' = "charged"
       \/ Fate = "held" /\ Fate' = "returned"
  BY <1>9, <1>10, <1>11
<1>13. QED
  BY <1>8, <1>12 DEF LedgerPromise!Next, LedgerPromise!Charge, LedgerPromise!Return, Fate

LEMMA NextHold ==
  HoldInv /\ [SettlementNext]_settlementVars => HoldInv' /\ [LedgerPromise!Next]_Fate
<1> SUFFICES ASSUME HoldInv, [SettlementNext]_settlementVars
             PROVE  HoldInv' /\ [LedgerPromise!Next]_Fate
  OBVIOUS
<1>0. Cost \in Nat /\ Cost > 0 /\ spent \in 0..Cost
  BY CostAssumption DEF HoldInv
<1>1. ASSUME taken' = taken, reserved' = reserved, spent' \in 0..Cost
      PROVE  HoldInv' /\ [LedgerPromise!Next]_Fate
  BY <1>1 DEF HoldInv, Took, Fate
<1>2. CASE Place
  <2>1. reserved = 0 /\ reserved' = Cost /\ taken' = taken /\ spent' = spent
    BY <1>2 DEF Place, Ledger!Reserve
  <2>2. Took' = Took /\ Fate' = Fate
    BY <2>1 DEF Took, Fate
  <2>3. Took <= reserved'
    BY <1>0, <2>1 DEF HoldInv, Took, Settlements
  <2>4. HoldInv'
    BY <2>1, <2>2, <2>3 DEF HoldInv
  <2>5. QED BY <2>2, <2>4
<1>3. CASE Erase
  <2>1. spent' = spent
    BY <1>3 DEF Erase
  <2>2. \/ Ledger!Take("erased", Cost) \/ (taken' = taken /\ reserved' = reserved)
    BY <1>3 DEF Erase
  <2>3. "erased" \in Settlements /\ Cost \in 0..Cost
    BY <1>0 DEF Settlements
  <2>4. QED BY <1>0, <1>1, <2>1, <2>2, <2>3, TakeKeepsHold
<1>4. ASSUME NEW w \in Workers, Deliverance(w)
      PROVE  HoldInv' /\ [LedgerPromise!Next]_Fate
  <2>1. taken' = taken /\ reserved' = reserved
    BY <1>4 DEF Deliverance
  <2>2. spent' \in {spent} \/ spent' \in 1..(Cost - 1) \/ spent' \in {Cost}
    BY <1>4 DEF Deliverance
  <2>3. spent' \in 0..Cost
    BY <1>0, <2>2
  <2>4. QED BY <1>1, <2>1, <2>3
<1>5. ASSUME NEW key \in Settlements, Land(key)
      PROVE  HoldInv' /\ [LedgerPromise!Next]_Fate
  <2>1. Ledger!Take(key, Amount(key)) /\ spent' = spent
    BY <1>5 DEF Land
  <2>2. Amount(key) \in 0..Cost /\ (key \in {"refund", "erased"} => Amount(key) = Cost)
    BY <1>0 DEF Amount, Settlements
  <2>3. QED BY <2>1, <2>2, TakeKeepsHold
<1>6. CASE (Elsewhere /\ UNCHANGED <<reserved, taken, spent>>) \/ UNCHANGED settlementVars
  BY <1>0, <1>1, <1>6 DEF settlementVars
<1>7. QED BY <1>2, <1>3, <1>4, <1>5, <1>6 DEF SettlementNext

(***************************************************************************)
(* Whatever faults let the job owe both, with any number of workers and    *)
(* retries: what lands in the ledger charges the hold or returns it, one   *)
(* of the two, and for good.                                               *)
(***************************************************************************)
THEOREM HoldsEndOneWay == SettlementSpec => LedgerKeepsPromise
<1>1. SettlementInit => HoldInv /\ LedgerPromise!Init
  <2> SUFFICES ASSUME SettlementInit PROVE HoldInv /\ LedgerPromise!Init
    OBVIOUS
  <2>1. /\ reserved = 0 /\ spent = 0 /\ taken = [k \in Settlements |-> 0]
    BY DEF SettlementInit, Ledger!Init
  <2>2. /\ taken["commit"] = 0 /\ taken["refund-partial"] = 0
        /\ taken["refund"] = 0 /\ taken["erased"] = 0
    BY <2>1 DEF Settlements
  <2>3. HoldInv
    BY <2>1, <2>2, CostAssumption DEF HoldInv, Took
  <2>4. QED BY <2>2, <2>3 DEF LedgerPromise!Init
<1>2. HoldInv /\ [SettlementNext]_settlementVars => HoldInv' /\ [LedgerPromise!Next]_Fate
  BY NextHold
<1>3. QED
  BY <1>1, <1>2, PTL DEF SettlementSpec, LedgerKeepsPromise, LedgerPromise!Spec, Fate

=============================================================================
