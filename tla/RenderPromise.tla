---------------------------- MODULE RenderPromise -----------------------------
(***************************************************************************)
(* What a studio render promises its owner, by what the owner can see:     *)
(* its status, its file and the item in the gallery.  StudioRender keeps   *)
(* this promise.                                                           *)
(***************************************************************************)
EXTENDS Naturals

VARIABLES
  status,      \* studio_renders.status
  file,        \* the uploaded object is in the bucket
  items        \* gallery items made of it

Terminal == {"succeeded", "failed", "canceled"}

(***************************************************************************)
(* A render has one outcome: what the owner or the reaper decided stands   *)
(* against a run that finishes late, and only a render that succeeded has  *)
(* an item in the gallery, one, with its file.                             *)
(***************************************************************************)
RenderOutcomeStands ==
  /\ [](items = (IF status = "succeeded" THEN 1 ELSE 0) /\ (status = "succeeded" => file))
  /\ [][(status \in Terminal) => status' = status]_status

=============================================================================
