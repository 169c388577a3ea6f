-------------------------------- MODULE Tally --------------------------------
(***************************************************************************)
(* The sum of the first n values of a function on 1..n.  The credit ledger *)
(* adds up bucket columns and allocation rows everywhere (SUM(...) in its  *)
(* SQL); this is the one definition of that sum.  It is a recursive        *)
(* function and not a RECURSIVE operator, so that TallyProofs can prove    *)
(* what it computes.                                                       *)
(***************************************************************************)
EXTENDS Integers

Total(f, n) ==
  LET p[i \in 0..n] == IF i = 0 THEN 0 ELSE p[i-1] + f[i] IN p[n]

AtLeastZero(x) == IF x < 0 THEN 0 ELSE x

Lesser(x, y) == IF x <= y THEN x ELSE y

=============================================================================
