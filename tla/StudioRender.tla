---------------------------- MODULE StudioRender ----------------------------
(***************************************************************************)
(* One render of a studio timeline: the runs that its message and the      *)
(* redeliveries of its message start, the owner who cancels it, and the    *)
(* reaper that fails it.  A run looks for a cancellation between its       *)
(* steps, uploads its file, and completes in one transaction that decides  *)
(* whether the file is published or removed.                               *)
(***************************************************************************)
EXTENDS RenderPromise

CONSTANTS
  Runs         \* deliveries of the render's message

VARIABLE at    \* each run's step; the render's own state is in RenderPromise

vars == <<status, file, items, at>>
Goto(r, step) == at' = [at EXCEPT ![r] = step]

Init ==
  /\ status = "queued" /\ file = FALSE /\ items = 0
  /\ at = [r \in Runs |-> "idle"]

\* Only a queued render is looked at; one without clips is refused at once.
Pick(r) ==
  /\ at[r] = "idle"
  /\ \/ status = "queued" /\ Goto(r, "picked") /\ UNCHANGED status
     \/ status = "queued" /\ status' = "failed" /\ Goto(r, "done")
     \/ status # "queued" /\ Goto(r, "done") /\ UNCHANGED status
  /\ UNCHANGED <<file, items>>

\* A mutant: the run starts whatever the render has become since.
ClaimAnyway(r) ==
  /\ at[r] = "picked"
  /\ status' = "running" /\ Goto(r, "rendering")
  /\ UNCHANGED <<file, items>>

Claim(r) ==
  /\ at[r] = "picked"
  /\ IF status = "queued"
     THEN status' = "running" /\ Goto(r, "rendering")
     ELSE Goto(r, "done") /\ UNCHANGED status
  /\ UNCHANGED <<file, items>>

\* isCanceled, between two passes of ffmpeg: a render that was reaped goes on.
Checkpoint(r) ==
  /\ at[r] = "rendering"
  /\ IF status = "canceled" THEN Goto(r, "done")
                            ELSE Goto(r, "rendering") \/ Goto(r, "rendered")
  /\ UNCHANGED <<status, file, items>>

Upload(r) ==
  /\ at[r] = "rendered"
  /\ file' = TRUE /\ Goto(r, "uploaded")
  /\ UNCHANGED <<status, items>>

\* A mutant: the item is made though the render is not running any more.
CompleteUnguarded(r) ==
  /\ at[r] = "uploaded"
  /\ status' = IF status = "running" THEN "succeeded" ELSE status
  /\ items' = items + 1
  /\ Goto(r, "done")
  /\ UNCHANGED file

(***************************************************************************)
(* The completing transaction, fenced on the render still running; without *)
(* it the file is removed, if that succeeds.  The commit may fail, or be   *)
(* made without its acknowledgement.                                       *)
(***************************************************************************)
Complete(r) ==
  /\ at[r] = "uploaded"
  /\ \/ /\ status = "running"
        /\ status' = "succeeded" /\ items' = items + 1
        /\ Goto(r, "done") \/ Goto(r, "caught")
        /\ UNCHANGED file
     \/ /\ status # "running"
        /\ file' \in {FALSE, file}
        /\ Goto(r, "done") \/ Goto(r, "caught")
        /\ UNCHANGED <<status, items>>
     \/ Goto(r, "caught") /\ UNCHANGED <<status, file, items>>

\* ffmpeg, the storage or the thumbnail fails.
Throw(r) ==
  /\ at[r] \in {"rendering", "rendered", "uploaded"}
  /\ Goto(r, "caught")
  /\ UNCHANGED <<status, file, items>>

\* The catch block fails a running render; that update may fail as well.
Catch(r) ==
  /\ at[r] = "caught"
  /\ status' \in IF status = "running" THEN {"failed", "running"} ELSE {status}
  /\ Goto(r, "done")
  /\ UNCHANGED <<file, items>>

Crash(r) ==
  /\ at[r] \notin {"idle", "done"}
  /\ Goto(r, "done")
  /\ UNCHANGED <<status, file, items>>

\* POST /v1/studio/renders/:id/cancel
Cancel ==
  /\ status \in {"queued", "running"}
  /\ status' = "canceled"
  /\ UNCHANGED <<file, items, at>>

\* sweepStaleRenders: one that ran, or waited, too long.
Sweep ==
  /\ status \in {"queued", "running"}
  /\ status' = "failed"
  /\ UNCHANGED <<file, items, at>>

Run(r) ==
  \/ Pick(r) \/ Claim(r) \/ Checkpoint(r) \/ Upload(r) \/ Complete(r)
  \/ Throw(r) \/ Catch(r) \/ Crash(r)

Next == Cancel \/ Sweep \/ \E r \in Runs : Run(r)

Spec == Init /\ [][Next]_vars

-----------------------------------------------------------------------------
\* The render and its runs have their types.
TypeOK ==
  /\ status \in Terminal \cup {"queued", "running"}
  /\ file \in BOOLEAN /\ items \in 0..1
  /\ at \in [Runs -> {"idle", "picked", "rendering", "rendered", "uploaded", "caught", "done"}]

=============================================================================
