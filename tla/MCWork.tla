------------------------------- MODULE MCWork --------------------------------
(***************************************************************************)
(* Two paid requests with one key and one with another; two jobs on the    *)
(* leg, of which one attempt is billed beyond its worst case; a render     *)
(* delivered twice; two tabs with an edit each; one work of a guest.       *)
(***************************************************************************)
EXTENDS Work, TLC

CONSTANTS r1, r2, r3, sameKey, otherKey, j1, j2, t1, t2, e1, e2

MCKeyOf == r1 :> sameKey @@ r2 :> sameKey @@ r3 :> otherKey

=============================================================================
