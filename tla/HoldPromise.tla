----------------------------- MODULE HoldPromise -----------------------------
(***************************************************************************)
(* What a paid operation promises the customer whose credits it holds: the *)
(* hold is either charged or returned, one of the two, for good.           *)
(***************************************************************************)
VARIABLE fate

Init == fate = "held"

Charge == fate = "held" /\ fate' = "charged"
Return == fate = "held" /\ fate' = "returned"

Next == Charge \/ Return

Spec == Init /\ [][Next]_fate

=============================================================================
