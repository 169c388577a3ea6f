------------------------------ MODULE MCBilling ------------------------------
(***************************************************************************)
(* Two requests for one tier and one for another; a partial refund, one of *)
(* the rest and one by hand, with two clerks; four cycles; two assets; two *)
(* accounts on one device, with two tabs.                                  *)
(***************************************************************************)
EXTENDS Billing, TLC

CONSTANTS
  r1, r2, r3, plus, pro,
  part, rest, other, c1, c2,
  u1, u2, device, phone, v1, v2

MCItemOf == r1 :> plus @@ r2 :> plus @@ r3 :> pro

\* 0: whatever is left.
MCAmountOf == part :> 1 @@ other :> 1 @@ rest :> 0

MCDevicesOf == u1 :> {device} @@ u2 :> {device}

MCAmount == [L0 |-> 2, L1 |-> 1, L2 |-> 1, L3 |-> 1, daily |-> 1]

=============================================================================
