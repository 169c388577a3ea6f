----------------------------- MODULE BoardPromise -----------------------------
(***************************************************************************)
(* What the server promises the tabs of one board.  A document is the set  *)
(* of the edits it contains.  BoardAutosave keeps this promise.            *)
(***************************************************************************)
VARIABLES
  doc,         \* the document on the server
  given        \* edits in copies of the board, or that the user gave up

(***************************************************************************)
(* What the server has is lost by the user's choice only: no tab that      *)
(* fell behind, no request sent again and no last request of a tab that is *)
(* gone replaces edits it has never seen.                                  *)
(***************************************************************************)
NothingSavedIsLost == [][doc \subseteq doc' \cup given']_doc

=============================================================================
