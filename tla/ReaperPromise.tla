---------------------------- MODULE ReaperPromise -----------------------------
(***************************************************************************)
(* What the reaper of anonymous accounts promises, by the accounts' rows,  *)
(* their works and their objects.  GuestWork keeps this promise.           *)
(***************************************************************************)
CONSTANT Works   \* the boards, scenarios and studio projects there may be

Ids == {"guest", "person"}

VARIABLES
  app,       \* users_app: none, active or deleted, the tombstone of an erasure
  owner,     \* of each work: none yet, an account, or lost with one
  objects,   \* what the store holds
  listed,    \* all that a sweep of the reaper has ever listed
  claim,     \* no, linked (the hook is to run), moved or done
  stale      \* the guest's account is older than the reaper's TTL

(***************************************************************************)
(* The reaper takes work from nobody but a guest that is past its time or  *)
(* has been claimed: no sign-up between its two reads, no claim and no     *)
(* erasure behind its lists costs a person a board or a tombstone what     *)
(* it keeps.                                                               *)
(***************************************************************************)
OnlyGuestsAreReaped ==
  [][\A w \in Works : (owner[w] # "lost" /\ owner'[w] = "lost") =>
       owner[w] = "guest" /\ app["guest"] = "active" /\ (stale \/ claim = "done")]_owner

(***************************************************************************)
(* The reaper takes what it may, and in order.  The rows are the only      *)
(* pointer to an account's objects, so they go last: nothing that a sweep  *)
(* has ever listed outlives them, however often it is cut short and taken  *)
(* up.  What is stored after the list, by an upload that waits for nobody, *)
(* is on no list and may outlive them.                                     *)
(***************************************************************************)
ReapedInOrder ==
  /\ OnlyGuestsAreReaped
  /\ [](\A o \in listed \cap objects : app[o.under] # "none")

=============================================================================
