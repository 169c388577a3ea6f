---------------------------- MODULE OutboxProofs ----------------------------
(***************************************************************************)
(* The outbox's safety for every number of rows and drainers, every batch  *)
(* size, ceiling and number of crashes.  Each invariant is a conjunct of   *)
(* its own, inductive together with the types.                             *)
(***************************************************************************)
EXTENDS Outbox, TLAPS, FiniteSetTheorems

\* Whatever leaves a trace that BullMQ has the message was handed over.
Traced ==
  \A r \in Rows :
    (inQueue[r] \/ processed[r] \/ \E d \in Drainers : At(d, r, "added"))
      => handed[r] # {}

\* The drainers that may still count a failure of row r.
InFlight(r) == {d \in Drainers : pc[d][r] \in {"picked", "added", "failed"}}

(***************************************************************************)
(* A row below the ceiling is selected by at most every drainer once, and  *)
(* each gives up its try when it counts: the counter plus the open tries   *)
(* does not grow but when the row is selected below the ceiling.           *)
(***************************************************************************)
TriesBounded ==
  \A r \in Rows :
    IF kind[r] = "settlement"
    THEN attempts[r] < MaxAttempts + Cardinality(Drainers)
    ELSE attempts[r] + Cardinality(InFlight(r)) < MaxAttempts + Cardinality(Drainers)

\* A text is removed only from a row that no drainer will ever select again.
RedactedIsOut ==
  \A r \in Rows :
    /\ payload[r] = "redacted" =>
         processed[r] \/ (kind[r] = "email" /\ attempts[r] >= MaxAttempts)
    /\ \A d \in Drainers :
         /\ At(d, r, "spent") => kind[r] = "email" /\ attempts[r] >= MaxAttempts
         /\ At(d, r, "picked") => copy[d][r] = "full"
    /\ "redacted" \notin handed[r]

-----------------------------------------------------------------------------
LEMMA InitTypes == Init => TypeOK
<1> SUFFICES ASSUME Init PROVE TypeOK
  OBVIOUS
<1>1. written \in 0..NumRows /\ crashes \in 0..MaxCrashes
  BY BoundsAssumption DEF Init
<1>2. /\ kind \in [Rows -> Kinds] /\ attempts \in [Rows -> Nat]
      /\ processed \in [Rows -> BOOLEAN] /\ payload \in [Rows -> Payloads]
      /\ waiting \in [Rows -> BOOLEAN]
  BY DEF Init, Payloads
<1>3. /\ pc \in [Drainers -> [Rows -> Steps]]
      /\ copy \in [Drainers -> [Rows -> Payloads]]
  BY DEF Init, Steps, Payloads
<1>4. registered \in [Drainers -> SUBSET Kinds]
  <2>1. OldRelease \in SUBSET Kinds /\ Kinds \in SUBSET Kinds
    BY BoundsAssumption DEF Kinds
  <2>2. QED BY <2>1 DEF Init
<1>5. inQueue \in [Rows -> BOOLEAN] /\ handed \in [Rows -> SUBSET Payloads]
  BY DEF Init
<1>6. QED BY <1>1, <1>2, <1>3, <1>4, <1>5 DEF TypeOK

LEMMA NextTypes == TypeOK /\ [Next]_vars => TypeOK'
<1> SUFFICES ASSUME TypeOK, [Next]_vars PROVE TypeOK'
  OBVIOUS
<1> USE BoundsAssumption DEF TypeOK, Payloads, Steps, table, queue, Goto
<1>1. CASE Write
  BY <1>1 DEF Write
<1>2. ASSUME NEW d \in Drainers, Select(d) PROVE TypeOK'
  BY <1>2 DEF Select
<1>3. ASSUME NEW d \in Drainers, Crash(d) PROVE TypeOK'
  BY <1>3 DEF Crash
<1>4. ASSUME NEW d \in Drainers, Deploy(d) PROVE TypeOK'
  BY <1>4 DEF Deploy
<1>5. ASSUME NEW d \in Drainers, NEW r \in Rows, Process(d, r) PROVE TypeOK'
  <2>1. CASE Add(d, r)
    BY <2>1 DEF Add, Accept
  <2>2. CASE AddFails(d, r)
    <3>1. CASE Accept(d, r)
      BY <2>2, <3>1 DEF AddFails, Accept
    <3>2. CASE UNCHANGED queue
      BY <2>2, <3>2 DEF AddFails
    <3>3. QED BY <2>2, <3>1, <3>2 DEF AddFails
  <2>3. CASE NoQueue(d, r)
    BY <2>3 DEF NoQueue
  <2>4. CASE Mark(d, r)
    BY <2>4 DEF Mark, Scrubbed
  <2>5. CASE MarkFails(d, r)
    BY <2>5 DEF MarkFails
  <2>6. CASE RecordFailure(d, r)
    <3>1. Bumped(r) \in Nat
      BY DEF Bumped, Lesser
    <3>2. CASE processed[r]
      <4>1. /\ pc' = [pc EXCEPT ![d][r] = "idle"]
            /\ UNCHANGED <<table, copy, registered, queue, crashes>>
        BY <2>6, <3>2 DEF RecordFailure
      <4>2. QED BY <4>1
    <3>3. CASE ~processed[r]
      <4>1. PICK next \in {"spent", "idle"} : pc' = [pc EXCEPT ![d][r] = next]
        BY <2>6, <3>3 DEF RecordFailure
      <4>2. /\ attempts' = [attempts EXCEPT ![r] = Bumped(r)]
            /\ waiting' = [waiting EXCEPT ![r] = kind[r] = "settlement"]
        BY <2>6, <3>3 DEF RecordFailure
      <4>3. attempts' \in [Rows -> Nat]
        BY <3>1, <4>2
      <4>4. waiting' \in [Rows -> BOOLEAN]
        BY <4>2, Zenon
      <4>5. QED BY <2>6, <4>1, <4>3, <4>4 DEF RecordFailure
    <3>4. QED BY <3>2, <3>3
  <2>7. CASE Scrub(d, r)
    BY <2>7 DEF Scrub, Scrubbed
  <2>8. CASE GiveUp(d, r)
    BY <2>8 DEF GiveUp
  <2>9. QED BY <1>5, <2>1, <2>2, <2>3, <2>4, <2>5, <2>6, <2>7, <2>8 DEF Process
<1>6. ASSUME NEW r \in Rows, BackoffElapses(r) PROVE TypeOK'
  BY <1>6 DEF BackoffElapses
<1>7. ASSUME NEW r \in Rows, Evict(r) PROVE TypeOK'
  BY <1>7 DEF Evict
<1>8. ASSUME NEW r \in Rows, Revive(r) PROVE TypeOK'
  BY <1>8 DEF Revive
<1>9. CASE UNCHANGED vars
  BY <1>9 DEF vars
<1>10. QED
  BY <1>1, <1>2, <1>3, <1>4, <1>5, <1>6, <1>7, <1>8, <1>9 DEF Next

(***************************************************************************)
(* However many rows, drainers and crashes, the rows and the drainers'     *)
(* copies of them keep their types.                                        *)
(***************************************************************************)
THEOREM TypeCorrect == Spec => []TypeOK
<1>1. QED BY InitTypes, NextTypes, PTL DEF Spec

-----------------------------------------------------------------------------
LEMMA InitTraced == Init => Traced
BY DEF Init, Traced, At

LEMMA NextTraced == TypeOK /\ Traced /\ [Next]_vars => Traced'
<1> SUFFICES ASSUME TypeOK, Traced, [Next]_vars PROVE Traced'
  OBVIOUS
<1> USE DEF TypeOK, Traced, Steps, table, queue, Goto, At
<1>1. CASE Write
  BY <1>1 DEF Write
<1>2. ASSUME NEW d \in Drainers, Select(d) PROVE Traced'
  BY <1>2 DEF Select
<1>3. ASSUME NEW d \in Drainers, Crash(d) PROVE Traced'
  BY <1>3 DEF Crash
<1>4. ASSUME NEW d \in Drainers, Deploy(d) PROVE Traced'
  BY <1>4 DEF Deploy
<1>5. ASSUME NEW d \in Drainers, NEW r \in Rows, Process(d, r) PROVE Traced'
  <2>1. CASE Add(d, r)
    BY <2>1 DEF Add, Accept
  <2>2. CASE AddFails(d, r)
    <3>1. CASE Accept(d, r)
      BY <2>2, <3>1 DEF AddFails, Accept
    <3>2. CASE UNCHANGED queue
      BY <2>2, <3>2 DEF AddFails
    <3>3. QED BY <2>2, <3>1, <3>2 DEF AddFails
  <2>3. CASE NoQueue(d, r)
    BY <2>3 DEF NoQueue
  <2>4. CASE Mark(d, r)
    BY <2>4 DEF Mark
  <2>5. CASE MarkFails(d, r)
    BY <2>5 DEF MarkFails
  <2>6. CASE RecordFailure(d, r)
    <3>1. PICK next \in {"spent", "idle"} : pc' = [pc EXCEPT ![d][r] = next]
      BY <2>6 DEF RecordFailure
    <3>2. QED BY <2>6, <3>1 DEF RecordFailure
  <2>7. CASE Scrub(d, r)
    BY <2>7 DEF Scrub
  <2>8. CASE GiveUp(d, r)
    BY <2>8 DEF GiveUp
  <2>9. QED BY <1>5, <2>1, <2>2, <2>3, <2>4, <2>5, <2>6, <2>7, <2>8 DEF Process
<1>6. ASSUME NEW r \in Rows, BackoffElapses(r) PROVE Traced'
  BY <1>6 DEF BackoffElapses
<1>7. ASSUME NEW r \in Rows, Evict(r) PROVE Traced'
  BY <1>7 DEF Evict
<1>8. ASSUME NEW r \in Rows, Revive(r) PROVE Traced'
  BY <1>8 DEF Revive
<1>9. CASE UNCHANGED vars
  BY <1>9 DEF vars
<1>10. QED
  BY <1>1, <1>2, <1>3, <1>4, <1>5, <1>6, <1>7, <1>8, <1>9 DEF Next

(***************************************************************************)
(* Nothing is lost between the writer's commit and the queue: with any     *)
(* number of racing drainers, a processed row was accepted by BullMQ.      *)
(***************************************************************************)
THEOREM ProcessedRowsAreHandedOver == Spec => []ProcessedWasHandedOver
<1>1. Traced => ProcessedWasHandedOver
  BY DEF Traced, ProcessedWasHandedOver
<1>2. QED
  BY <1>1, InitTypes, NextTypes, InitTraced, NextTraced, PTL DEF Spec

-----------------------------------------------------------------------------
RowIsFinal(r) ==
  processed[r] => /\ processed'[r] /\ attempts'[r] = attempts[r]
                  /\ payload'[r] = payload[r] /\ (waiting'[r] => waiting[r])

LEMMA NextIsFinal ==
  ASSUME TypeOK, [Next]_vars
  PROVE  \A r \in Rows : RowIsFinal(r)
<1> USE DEF TypeOK, RowIsFinal, table
<1>1. CASE Write
  BY <1>1 DEF Write
<1>2. ASSUME NEW d \in Drainers, Select(d) \/ Crash(d) \/ Deploy(d)
      PROVE  \A r \in Rows : RowIsFinal(r)
  BY <1>2 DEF Select, Crash, Deploy
<1>3. ASSUME NEW d \in Drainers, NEW q \in Rows, Process(d, q)
      PROVE  \A r \in Rows : RowIsFinal(r)
  <2>1. CASE Add(d, q) \/ AddFails(d, q) \/ NoQueue(d, q)
    BY <2>1 DEF Add, AddFails, NoQueue
  <2>2. CASE Mark(d, q)
    BY <2>2 DEF Mark
  <2>3. CASE MarkFails(d, q) \/ GiveUp(d, q)
    BY <2>3 DEF MarkFails, GiveUp
  <2>4. CASE RecordFailure(d, q)
    BY <2>4 DEF RecordFailure
  <2>5. CASE Scrub(d, q)
    BY <2>5 DEF Scrub
  <2>6. QED BY <1>3, <2>1, <2>2, <2>3, <2>4, <2>5 DEF Process
<1>4. ASSUME NEW q \in Rows, BackoffElapses(q) \/ Evict(q)
      PROVE  \A r \in Rows : RowIsFinal(r)
  BY <1>4 DEF BackoffElapses, Evict
<1>5. ASSUME NEW q \in Rows, Revive(q) PROVE \A r \in Rows : RowIsFinal(r)
  BY <1>5 DEF Revive, Dead
<1>6. CASE UNCHANGED vars
  BY <1>6 DEF vars
<1>7. QED
  BY <1>1, <1>2, <1>3, <1>4, <1>5, <1>6 DEF Next

(***************************************************************************)
(* Whatever the other drainers still report of it, a processed row is never*)
(* counted, paced, redacted or reopened.                                   *)
(***************************************************************************)
THEOREM ProcessedRowsAreFinal == Spec => ProcessedIsFinal
<1>1. TypeOK /\ [Next]_vars =>
        [\A r \in Rows : processed[r] =>
           /\ processed'[r] /\ attempts'[r] = attempts[r]
           /\ payload'[r] = payload[r]
           /\ (waiting'[r] => waiting[r])]_<<attempts, processed, payload, waiting>>
  BY NextIsFinal DEF RowIsFinal
<1>2. QED
  BY <1>1, InitTypes, NextTypes, PTL DEF Spec, ProcessedIsFinal

-----------------------------------------------------------------------------
\* A drainer's step at row r leaves the tries in flight at other rows alone.
LEMMA InFlightFinite ==
  ASSUME NEW r \in Rows
  PROVE  /\ IsFiniteSet(InFlight(r))
         /\ Cardinality(InFlight(r)) \in Nat
         /\ Cardinality(InFlight(r)) <= Cardinality(Drainers)
         /\ Cardinality(Drainers) \in Nat
<1>1. InFlight(r) \in SUBSET Drainers
  BY DEF InFlight
<1>2. IsFiniteSet(Drainers)
  BY BoundsAssumption
<1>3. QED BY <1>1, <1>2, FS_Subset, FS_CardinalityType

\* Where no drainer takes up a try, the number of open tries does not grow.
LEMMA InFlightShrinks ==
  ASSUME NEW r \in Rows, InFlight(r)' \subseteq InFlight(r)
  PROVE  /\ Cardinality(InFlight(r)') \in Nat
         /\ Cardinality(InFlight(r)') <= Cardinality(InFlight(r))
<1>1. InFlight(r)' \in SUBSET InFlight(r)
  OBVIOUS
<1>2. QED BY <1>1, InFlightFinite, FS_Subset, FS_CardinalityType

LEMMA InFlightDrops ==
  ASSUME NEW r \in Rows, NEW d \in InFlight(r),
         InFlight(r)' \subseteq InFlight(r) \ {d}
  PROVE  /\ Cardinality(InFlight(r)') \in Nat
         /\ Cardinality(InFlight(r)') < Cardinality(InFlight(r))
<1> DEFINE S == InFlight(r) \ {d}
<1>1. IsFiniteSet(S) /\ Cardinality(S) = Cardinality(InFlight(r)) - 1
  BY InFlightFinite, FS_RemoveElement
<1>2. InFlight(r)' \in SUBSET S
  OBVIOUS
<1>3. Cardinality(InFlight(r)') <= Cardinality(S) /\ Cardinality(InFlight(r)') \in Nat
  <2> HIDE DEF S
  <2> QED BY <1>1, <1>2, FS_Subset, FS_CardinalityType
<1>4. QED BY <1>1, <1>3, InFlightFinite

LEMMA InitTries == Init => TriesBounded
<1> SUFFICES ASSUME Init, NEW r \in Rows
             PROVE  /\ attempts[r] = 0
                    /\ InFlight(r) = {}
                    /\ 0 < MaxAttempts + Cardinality(Drainers)
  BY FS_EmptySet DEF TriesBounded
<1>1. attempts[r] = 0
  BY DEF Init
<1>2. InFlight(r) = {}
  BY DEF Init, InFlight
<1>3. 0 < MaxAttempts + Cardinality(Drainers)
  BY InFlightFinite, BoundsAssumption
<1>4. QED BY <1>1, <1>2, <1>3

\* Steps that count nothing and take up no try.
LEMMA TriesKept ==
  ASSUME TypeOK, TriesBounded, kind' = kind, attempts' = attempts,
         \A r \in Rows : InFlight(r)' \subseteq InFlight(r)
  PROVE  TriesBounded'
<1> SUFFICES ASSUME NEW r \in Rows, kind[r] # "settlement"
             PROVE  attempts[r] + Cardinality(InFlight(r)')
                      < MaxAttempts + Cardinality(Drainers)
  BY DEF TriesBounded
<1>1. attempts[r] \in Nat /\ MaxAttempts \in Nat
  BY BoundsAssumption DEF TypeOK
<1>2. QED BY <1>1, InFlightShrinks, InFlightFinite DEF TriesBounded

LEMMA NextTries == TypeOK /\ TriesBounded /\ [Next]_vars => TriesBounded'
<1> SUFFICES ASSUME TypeOK, TriesBounded, [Next]_vars PROVE TriesBounded'
  OBVIOUS
<1> USE DEF table, queue, Goto, At
<1>1. CASE Write
  BY <1>1, TriesKept DEF Write, InFlight
<1>2. ASSUME NEW d \in Drainers, Select(d) PROVE TriesBounded'
  <2> SUFFICES ASSUME NEW r \in Rows, kind[r] # "settlement"
               PROVE  attempts[r] + Cardinality(InFlight(r)')
                        < MaxAttempts + Cardinality(Drainers)
    BY <1>2 DEF Select, TriesBounded
  <2>1. attempts[r] \in Nat /\ MaxAttempts \in Nat
    BY BoundsAssumption DEF TypeOK
  <2>2. CASE r \in Batch
    <3>1. attempts[r] < MaxAttempts
      BY <2>2 DEF Batch, Eligible
    <3>2. InFlight(r)' \in SUBSET Drainers
      BY DEF InFlight
    <3>3. /\ Cardinality(InFlight(r)') \in Nat
          /\ Cardinality(InFlight(r)') <= Cardinality(Drainers)
      BY <3>2, BoundsAssumption, FS_Subset, FS_CardinalityType
    <3>4. QED BY <2>1, <3>1, <3>3, InFlightFinite
  <2>3. CASE r \notin Batch
    <3>1. InFlight(r)' \subseteq InFlight(r)
      BY <1>2, <2>3 DEF Select, InFlight, TypeOK
    <3>2. QED BY <2>1, <3>1, InFlightShrinks, InFlightFinite DEF TriesBounded
  <2>4. QED BY <2>2, <2>3
<1>3. ASSUME NEW d \in Drainers, Crash(d) \/ Deploy(d) PROVE TriesBounded'
  <2>1. \A r \in Rows : InFlight(r)' \subseteq InFlight(r)
    BY <1>3 DEF Crash, Deploy, InFlight, TypeOK
  <2>2. QED BY <1>3, <2>1, TriesKept DEF Crash, Deploy
<1>4. ASSUME NEW d \in Drainers, NEW q \in Rows, Process(d, q) PROVE TriesBounded'
  <2>1. CASE Add(d, q) \/ AddFails(d, q) \/ NoQueue(d, q) \/ Mark(d, q)
             \/ MarkFails(d, q) \/ Scrub(d, q) \/ GiveUp(d, q)
    <3>1. \A r \in Rows : InFlight(r)' \subseteq InFlight(r)
      BY <2>1 DEF Add, AddFails, NoQueue, Mark, MarkFails, Scrub, GiveUp,
                  InFlight, TypeOK
    <3>2. kind' = kind /\ attempts' = attempts
      BY <2>1 DEF Add, AddFails, NoQueue, Mark, MarkFails, Scrub, GiveUp
    <3>3. QED BY <3>1, <3>2, TriesKept
  <2>2. CASE RecordFailure(d, q)
    <3>1. /\ d \in InFlight(q)
          /\ InFlight(q)' \subseteq InFlight(q) \ {d}
          /\ \A r \in Rows : InFlight(r)' \subseteq InFlight(r)
      BY <2>2 DEF RecordFailure, InFlight, TypeOK
    <3>2. CASE processed[q]
      BY <2>2, <3>1, <3>2, TriesKept DEF RecordFailure
    <3>3. CASE ~processed[q]
      <4>1. /\ kind' = kind /\ attempts \in [Rows -> Nat]
            /\ attempts' = [attempts EXCEPT ![q] = Bumped(q)]
        BY <2>2, <3>3 DEF RecordFailure, TypeOK
      <4> SUFFICES ASSUME NEW r \in Rows
                   PROVE  IF kind[r] = "settlement"
                          THEN attempts'[r] < MaxAttempts + Cardinality(Drainers)
                          ELSE attempts'[r] + Cardinality(InFlight(r)')
                                 < MaxAttempts + Cardinality(Drainers)
        BY <4>1 DEF TriesBounded
      <4>2. attempts[r] \in Nat /\ MaxAttempts \in Nat
        BY BoundsAssumption DEF TypeOK
      <4>3. CASE r # q
        <5>1. attempts'[r] = attempts[r]
          BY <4>1, <4>3
        <5>2. QED
          BY <3>1, <4>2, <5>1, InFlightShrinks, InFlightFinite DEF TriesBounded
      <4>4. CASE r = q /\ kind[r] = "settlement"
        <5>1. attempts'[r] <= MaxAttempts
          BY <4>1, <4>2, <4>4 DEF Bumped, Lesser
        <5>2. Cardinality(Drainers) > 0
          BY BoundsAssumption, FS_EmptySet, InFlightFinite
        <5>3. attempts'[r] \in Nat
          BY <4>1, <4>2, <4>4 DEF Bumped, Lesser
        <5>4. QED BY <4>2, <4>4, <5>1, <5>2, <5>3, InFlightFinite
      <4>5. CASE r = q /\ kind[r] # "settlement"
        <5>1. attempts'[r] = attempts[r] + 1
          BY <4>1, <4>5 DEF Bumped
        <5>2. QED
          BY <3>1, <4>2, <4>5, <5>1, InFlightDrops, InFlightFinite DEF TriesBounded
      <4>6. QED BY <4>3, <4>4, <4>5
    <3>4. QED BY <3>2, <3>3
  <2>3. QED BY <1>4, <2>1, <2>2 DEF Process
<1>5. ASSUME NEW q \in Rows, BackoffElapses(q) \/ Evict(q) PROVE TriesBounded'
  BY <1>5, TriesKept DEF BackoffElapses, Evict, InFlight
<1>6. CASE UNCHANGED vars
  BY <1>6, TriesKept DEF vars, InFlight
<1>7. ASSUME NEW q \in Rows, Revive(q) PROVE TriesBounded'
  <2> SUFFICES ASSUME NEW r \in Rows
               PROVE  IF kind[r] = "settlement"
                      THEN attempts'[r] < MaxAttempts + Cardinality(Drainers)
                      ELSE attempts'[r] + Cardinality(InFlight(r))
                             < MaxAttempts + Cardinality(Drainers)
    BY <1>7 DEF Revive, TriesBounded, InFlight
  <2>1. /\ attempts[r] \in Nat /\ attempts'[r] \in Nat
        /\ attempts'[r] <= attempts[r] /\ MaxAttempts \in Nat
    BY <1>7, BoundsAssumption DEF Revive, TypeOK
  <2>2. QED BY <2>1, InFlightFinite DEF TriesBounded
<1>8. QED
  BY <1>1, <1>2, <1>3, <1>4, <1>5, <1>6, <1>7 DEF Next

(***************************************************************************)
(* A row's counter passes the dead-letter ceiling by less than the number  *)
(* of drainers that raced for it, whoever crashes and however often an     *)
(* operator clears it.                                                     *)
(***************************************************************************)
THEOREM AttemptsStayBounded == Spec => []AttemptsBounded
<1>1. TypeOK /\ TriesBounded => AttemptsBounded
  <2> SUFFICES ASSUME TypeOK, TriesBounded, NEW r \in Rows
               PROVE  attempts[r] < MaxAttempts + Cardinality(Drainers)
    BY DEF AttemptsBounded
  <2>1. attempts[r] \in Nat /\ MaxAttempts \in Nat
    BY BoundsAssumption DEF TypeOK
  <2>2. QED BY <2>1, InFlightFinite DEF TriesBounded
<1>2. QED
  BY <1>1, InitTypes, NextTypes, InitTries, NextTries, PTL DEF Spec

-----------------------------------------------------------------------------
LEMMA InitRedacted == Init => RedactedIsOut
BY DEF Init, RedactedIsOut, At

LEMMA NextRedacted ==
  ASSUME "email" \notin RevivedKinds, TypeOK, RedactedIsOut, [Next]_vars
  PROVE  RedactedIsOut'
<1> USE DEF TypeOK, RedactedIsOut, Steps, Payloads, table, queue, Goto, At
<1>1. CASE Write
  BY <1>1 DEF Write
<1>2. ASSUME NEW d \in Drainers, Select(d) PROVE RedactedIsOut'
  <2>1. \A r \in Batch : payload[r] = "full"
    BY BoundsAssumption DEF Batch, Eligible, Kinds
  <2>2. QED BY <1>2, <2>1 DEF Select
<1>3. ASSUME NEW d \in Drainers, Crash(d) PROVE RedactedIsOut'
  BY <1>3 DEF Crash
<1>4. ASSUME NEW d \in Drainers, Deploy(d) PROVE RedactedIsOut'
  BY <1>4 DEF Deploy
<1>5. ASSUME NEW d \in Drainers, NEW r \in Rows, Process(d, r)
      PROVE  RedactedIsOut'
  <2>1. CASE Add(d, r)
    BY <2>1 DEF Add, Accept
  <2>2. CASE AddFails(d, r)
    <3>1. CASE Accept(d, r)
      BY <2>2, <3>1 DEF AddFails, Accept
    <3>2. CASE UNCHANGED queue
      BY <2>2, <3>2 DEF AddFails
    <3>3. QED BY <2>2, <3>1, <3>2 DEF AddFails
  <2>3. CASE NoQueue(d, r)
    BY <2>3 DEF NoQueue
  <2>4. CASE Mark(d, r)
    BY <2>4 DEF Mark, Scrubbed
  <2>5. CASE MarkFails(d, r)
    BY <2>5 DEF MarkFails
  <2>6. CASE RecordFailure(d, r)
    <3>1. CASE processed[r]
      <4>1. /\ pc' = [pc EXCEPT ![d][r] = "idle"]
            /\ UNCHANGED <<table, copy, registered, queue, crashes>>
        BY <2>6, <3>1 DEF RecordFailure
      <4>2. QED BY <4>1
    <3>2. CASE ~processed[r]
      <4>1. /\ Bumped(r) \in Nat
            /\ kind[r] = "email" => Bumped(r) = attempts[r] + 1
        BY BoundsAssumption DEF Bumped, Lesser
      <4>2. /\ attempts' = [attempts EXCEPT ![r] = Bumped(r)]
            /\ UNCHANGED <<kind, processed, payload, copy, handed>>
        BY <2>6, <3>2 DEF RecordFailure
      <4>3. PICK next \in {"spent", "idle"} :
              /\ pc' = [pc EXCEPT ![d][r] = next]
              /\ next = "spent" => Bumped(r) >= MaxAttempts /\ kind[r] = "email"
        BY <2>6, <3>2, <4>2 DEF RecordFailure
      <4>4. QED BY <4>1, <4>2, <4>3, BoundsAssumption
    <3>3. QED BY <3>1, <3>2
  <2>7. CASE Scrub(d, r)
    BY <2>7 DEF Scrub, Scrubbed
  <2>8. CASE GiveUp(d, r)
    BY <2>8 DEF GiveUp
  <2>9. QED BY <1>5, <2>1, <2>2, <2>3, <2>4, <2>5, <2>6, <2>7, <2>8 DEF Process
<1>6. ASSUME NEW r \in Rows, BackoffElapses(r) PROVE RedactedIsOut'
  BY <1>6 DEF BackoffElapses
<1>7. ASSUME NEW r \in Rows, Evict(r) PROVE RedactedIsOut'
  BY <1>7 DEF Evict
<1>8. ASSUME NEW r \in Rows, Revive(r) PROVE RedactedIsOut'
  BY <1>8 DEF Revive, Dead
<1>9. CASE UNCHANGED vars
  BY <1>9 DEF vars
<1>10. QED
  BY <1>1, <1>2, <1>3, <1>4, <1>5, <1>6, <1>7, <1>8, <1>9 DEF Next

(***************************************************************************)
(* As long as nobody clears the attempts of a dead-lettered mail, BullMQ is*)
(* never handed a mail whose text was removed, whichever drainers race.    *)
(***************************************************************************)
THEOREM MailIsHandedOverIntact ==
  ASSUME "email" \notin RevivedKinds PROVE Spec => []HandedOverIntact
<1>1. RedactedIsOut => HandedOverIntact
  BY DEF RedactedIsOut, HandedOverIntact
<1>2. TypeOK /\ RedactedIsOut /\ [Next]_vars => RedactedIsOut'
  BY NextRedacted
<1>3. QED
  BY <1>1, <1>2, InitTypes, NextTypes, InitRedacted, PTL DEF Spec

=============================================================================
