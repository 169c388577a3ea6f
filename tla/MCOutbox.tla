------------------------------- MODULE MCOutbox -------------------------------
(***************************************************************************)
(* Two rows and one drainer that takes one row at a time.                  *)
(***************************************************************************)
EXTENDS Outbox

CONSTANT d1

=============================================================================
