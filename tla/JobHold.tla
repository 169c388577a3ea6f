------------------------------- MODULE JobHold -------------------------------
(***************************************************************************)
(* The credit ledger as one job sees it: its hold, and the settlements that*)
(* were taken from it.  A settlement has a key of its own, so that it lands*)
(* once, and never takes more than what is left of the hold.               *)
(***************************************************************************)
EXTENDS Integers, Functions

CONSTANT SettlementKeys

VARIABLES
  reserved,   \* the amount held, 0 before the hold
  taken       \* the amount each settlement took, 0 before it lands

hold == <<reserved, taken>>

Left == reserved - SumFunctionOnSet(taken, SettlementKeys)

Init ==
  /\ reserved = 0
  /\ taken = [k \in SettlementKeys |-> 0]

Reserve(amount) ==
  /\ reserved = 0
  /\ reserved' = amount
  /\ UNCHANGED taken

\* A mutant: the hold need not cover what is settled.
TakeUncovered(key, amount) ==
  /\ taken[key] = 0
  /\ taken' = [taken EXCEPT ![key] = amount]
  /\ UNCHANGED reserved

\* A mutant: a settlement is taken in full or not at all.
TakeAll(key, amount) ==
  /\ taken[key] = 0
  /\ amount = Left
  /\ taken' = [taken EXCEPT ![key] = amount]
  /\ UNCHANGED reserved

Take(key, amount) ==
  /\ taken[key] = 0
  /\ amount <= Left
  /\ taken' = [taken EXCEPT ![key] = amount]
  /\ UNCHANGED reserved

Next ==
  \/ reserved' > 0 /\ Reserve(reserved')
  \/ \E k \in SettlementKeys : taken'[k] > 0 /\ Take(k, taken'[k])

Spec == Init /\ [][Next]_hold

=============================================================================
