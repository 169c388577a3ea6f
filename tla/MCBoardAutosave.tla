--------------------------- MODULE MCBoardAutosave ---------------------------
(***************************************************************************)
(* One tab, and the edits of its user.                                     *)
(***************************************************************************)
EXTENDS BoardAutosave

CONSTANTS t1, e1, e2

=============================================================================
