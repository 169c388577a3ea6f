-------------------------------- MODULE MCCore --------------------------------
(***************************************************************************)
(* A user with a pack, one cycle of a subscription and a welcome gift, two *)
(* jobs, and the refund of the pack order; two rows and two drainers of    *)
(* one row at a time; a job and two workers.                               *)
(***************************************************************************)
EXTENDS Core, TLC

CONSTANTS pack, plan, gift, undo, cycle1, d1, d2, w1, w2

MCKeys == {pack, plan, gift, undo}

MCGrantCalls == {
  [key |-> pack, amount |-> 2, origin |-> "pack", expiresAt |-> Never,
   order |-> pack, cycle |-> NoCycle],
  [key |-> plan, amount |-> 2, origin |-> "subscription", expiresAt |-> 1,
   order |-> plan, cycle |-> cycle1],
  [key |-> gift, amount |-> 1, origin |-> "welcome", expiresAt |-> Never,
   order |-> NoOrder, cycle |-> NoCycle]}

MCClawbackCalls == {[key |-> undo, amount |-> 2, order |-> pack]}

Symmetry == Permutations({d1, d2})

=============================================================================
