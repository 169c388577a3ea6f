------------------------------ MODULE GuestWork -------------------------------
(***************************************************************************)
(* A visitor works before signing up: an anonymous account owns boards,    *)
(* scenarios and studio projects, and uploads under its own prefix of the  *)
(* object store.  Signing in hands the work to the person                  *)
(* (claimAnonymousWork); a daily reaper removes the guests nobody claimed  *)
(* and the shells that claims leave behind (anon-account-reaper.ts).  The  *)
(* advisory lock that the claim and the reaper share keeps the claim out   *)
(* while the reaper's transaction is open, and its row locks keep out what *)
(* deletes the account otherwise; uploads take no lock.  The reaper's      *)
(* leader lock lets one of them run at a time.                             *)
(***************************************************************************)
EXTENDS Naturals, ReaperPromise

\* An object: the work it was uploaded for, the account under whose prefix.
Objects == [of : Works, under : Ids]

VARIABLES
  auth,      \* Better Auth's row of each account: unborn, live or gone
  uploads,   \* requests that have passed the session check, not stored yet
  shown,     \* the objects whose URL a work has saved
  reaper     \* its step, the ids left to look at, the two lists it reads, the
             \* account its transaction is open on, the keys listed there, and
             \* whether it has removed them all

vars == <<auth, app, owner, uploads, objects, shown, listed, claim, stale, reaper>>

accounts == <<auth, app, owner>>
storage == <<uploads, objects, shown, listed>>

Resting == [at |-> "idle", todo |-> {}, apps |-> {}, users |-> {},
            on |-> "nobody", keys |-> {}, swept |-> FALSE]

\* The person may have an account before this visit.
Init ==
  /\ \E known \in BOOLEAN :
       /\ auth = [i \in Ids |-> IF i = "person" /\ known THEN "live" ELSE "unborn"]
       /\ app = [i \in Ids |-> IF i = "person" /\ known THEN "active" ELSE "none"]
  /\ owner = [w \in Works |-> "none"]
  /\ uploads = {} /\ objects = {} /\ shown = {} /\ listed = {}
  /\ claim = "no" /\ stale = FALSE
  /\ reaper = Resting

-----------------------------------------------------------------------------
(* The visitor and the person. *)

\* An anonymous sign-in or a sign-up.
Arrive(i) ==
  /\ auth[i] = "unborn"
  /\ auth' = [auth EXCEPT ![i] = "live"]
  /\ UNCHANGED <<app, owner, storage, claim, stale, reaper>>

\* The first GET /v1/me; an erased account is turned away.
EnsureUserRows(i) ==
  /\ auth[i] = "live" /\ app[i] = "none"
  /\ app' = [app EXCEPT ![i] = "active"]
  /\ UNCHANGED <<auth, owner, storage, claim, stale, reaper>>

\* The foreign key asks for the account's row.
Make(i, w) ==
  /\ auth[i] = "live" /\ app[i] # "none" /\ owner[w] = "none"
  /\ owner' = [owner EXCEPT ![w] = i]
  /\ UNCHANGED <<auth, app, storage, claim, stale, reaper>>

\* An upload passes the session check now and stores its bytes later, under a
\* fresh key.
Upload(o) ==
  /\ auth[o.under] = "live" /\ owner[o.of] = o.under
  /\ o \notin uploads \cup objects \cup shown \cup listed
  /\ uploads' = uploads \cup {o}
  /\ UNCHANGED <<accounts, objects, shown, listed, claim, stale, reaper>>

Store(o) ==
  /\ o \in uploads
  /\ uploads' = uploads \ {o} /\ objects' = objects \cup {o}
  /\ UNCHANGED <<accounts, shown, listed, claim, stale, reaper>>

\* The document is saved with the URL, by its owner.
Save(o) ==
  /\ o \in objects \ shown
  /\ auth[o.under] = "live" /\ owner[o.of] = o.under
  /\ shown' = shown \cup {o}
  /\ UNCHANGED <<accounts, uploads, objects, listed, claim, stale, reaper>>

\* DELETE /v1/me keeps the account's row, and all it owns, as a tombstone.  The
\* profile that offers it has asked for GET /v1/me, so there is a row.
Erase(i) ==
  /\ reaper.on # i
  /\ auth[i] = "live" /\ app[i] = "active"
  /\ auth' = [auth EXCEPT ![i] = "gone"] /\ app' = [app EXCEPT ![i] = "deleted"]
  /\ UNCHANGED <<owner, storage, claim, stale, reaper>>

-----------------------------------------------------------------------------
(* The claim. *)

\* Somebody signs in with the guest's session at hand.
Link ==
  /\ claim = "no" /\ auth["guest"] = "live" /\ auth["person"] = "live"
  /\ claim' = "linked"
  /\ UNCHANGED <<accounts, storage, stale, reaper>>

\* claimAnonymousWork, one transaction under the advisory lock of the guest: rows
\* move, objects stay where they are.
Move ==
  /\ claim = "linked" /\ reaper.on # "guest"
  /\ app' = [app EXCEPT !["person"] = IF @ = "none" THEN "active" ELSE @]
  /\ owner' = [w \in Works |-> IF owner[w] = "guest" THEN "person" ELSE owner[w]]
  /\ claim' = "moved"
  /\ UNCHANGED <<auth, storage, stale, reaper>>

\* The transaction fails, and the sign-in with it.
MoveFails ==
  /\ claim = "linked"
  /\ claim' = "no"
  /\ UNCHANGED <<accounts, storage, stale, reaper>>

\* Better Auth deletes the guest it has linked.
DropGuest ==
  /\ claim = "moved" /\ reaper.on # "guest"
  /\ auth' = [auth EXCEPT !["guest"] = "gone"]
  /\ claim' = "done"
  /\ UNCHANGED <<app, owner, storage, stale, reaper>>

Age ==
  /\ auth["guest"] = "live" /\ ~stale
  /\ stale' = TRUE
  /\ UNCHANGED <<accounts, storage, claim, reaper>>

-----------------------------------------------------------------------------
(* The reaper: the guests past their time, then the shells. *)

Under(i) == {o \in objects : o.under = i}

LookedAt(i) ==
  reaper' = [reaper EXCEPT !.todo = @ \ {i}, !.on = "nobody", !.keys = {}, !.swept = FALSE]

\* The transaction of a confirmed candidate: sweepOwnedObjects lists its keys...
Open(i) ==
  /\ reaper' = [reaper EXCEPT !.on = i, !.keys = Under(i)]
  /\ listed' = listed \cup Under(i)
  /\ UNCHANGED <<accounts, uploads, objects, shown>>

\* ... and removes them; if it stops half way the rows stay for the next day.
Sweep ==
  /\ reaper.on # "nobody" /\ ~reaper.swept
  /\ \E gone \in SUBSET reaper.keys :
       /\ objects' = objects \ gone
       /\ \/ gone = reaper.keys /\ reaper' = [reaper EXCEPT !.swept = TRUE]
          \/ LookedAt(reaper.on)
  /\ UNCHANGED <<accounts, uploads, shown, listed, claim, stale>>

\* The rows of the account, and all they own.
DeleteRows(i) ==
  /\ app' = [app EXCEPT ![i] = "none"]
  /\ auth' = [auth EXCEPT ![i] = "gone"]
  /\ owner' = [w \in Works |-> IF owner[w] = i THEN "lost" ELSE owner[w]]
  /\ LookedAt(i)
  /\ UNCHANGED <<storage, claim, stale>>

\* Mutant: the rows go however much the sweep has left.
CommitUnswept == reaper.on # "nobody" /\ DeleteRows(reaper.on)

\* They go once all that was listed is gone, with whatever was stored since.
Commit == reaper.swept /\ DeleteRows(reaper.on)

Tick ==
  /\ reaper.at = "idle"
  /\ reaper' = [reaper EXCEPT !.at = "stale",
                  !.todo = IF auth["guest"] = "live" /\ stale THEN {"guest"} ELSE {}]
  /\ UNCHANGED <<accounts, storage, claim, stale>>

\* The candidate is read again, under the lock.
Abandoned(i) == i = "guest" /\ auth[i] = "live" /\ stale

ReapStale(i) ==
  /\ reaper.at = "stale" /\ i \in reaper.todo /\ reaper.on = "nobody"
  /\ IF Abandoned(i) THEN Open(i) ELSE LookedAt(i) /\ UNCHANGED <<accounts, storage>>
  /\ UNCHANGED <<claim, stale>>

\* The two lists are asked for at once and answered in any order.
ReadApps ==
  /\ reaper.at \in {"stale", "usersRead"} /\ reaper.todo = {}
  /\ reaper' = [reaper EXCEPT !.at = IF @ = "stale" THEN "appsRead" ELSE "bothRead",
                              !.apps = {i \in Ids : app[i] = "active"}]
  /\ UNCHANGED <<accounts, storage, claim, stale>>

ReadUsers ==
  /\ reaper.at \in {"stale", "appsRead"} /\ reaper.todo = {}
  /\ reaper' = [reaper EXCEPT !.at = IF @ = "stale" THEN "usersRead" ELSE "bothRead",
                              !.users = {i \in Ids : auth[i] = "live"}]
  /\ UNCHANGED <<accounts, storage, claim, stale>>

Compare ==
  /\ reaper.at = "bothRead"
  /\ reaper' = [Resting EXCEPT !.at = "orphans", !.todo = reaper.apps \ reaper.users]
  /\ UNCHANGED <<accounts, storage, claim, stale>>

\* Mutant: the lists are trusted, a sign-up between them is not seen.
OrphanedByTheLists(i) == app[i] = "active"

\* Mutant: the status is not read again under the lock.
OrphanedOrErased(i) == auth[i] # "live"

\* A row that is no tombstone, of an account that Better Auth does not know.
Orphaned(i) == app[i] = "active" /\ auth[i] # "live"

ReapOrphan(i) ==
  /\ reaper.at = "orphans" /\ i \in reaper.todo /\ reaper.on = "nobody"
  /\ IF Orphaned(i) THEN Open(i) ELSE LookedAt(i) /\ UNCHANGED <<accounts, storage>>
  /\ UNCHANGED <<claim, stale>>

\* The tick is over, or an error or a crash ends it and rolls back what is open.
Rest ==
  /\ reaper.at # "idle"
  /\ reaper' = Resting
  /\ UNCHANGED <<accounts, storage, claim, stale>>

-----------------------------------------------------------------------------
Next ==
  \/ \E i \in Ids : Arrive(i) \/ EnsureUserRows(i) \/ Erase(i)
                    \/ ReapStale(i) \/ ReapOrphan(i)
  \/ \E i \in Ids, w \in Works : Make(i, w)
  \/ \E o \in Objects : Upload(o) \/ Store(o) \/ Save(o)
  \/ Link \/ Move \/ MoveFails \/ DropGuest \/ Age
  \/ Sweep \/ Commit
  \/ Tick \/ ReadApps \/ ReadUsers \/ Compare \/ Rest

Spec == Init /\ [][Next]_vars

-----------------------------------------------------------------------------
\* The variables have their types.
TypeOK ==
  /\ auth \in [Ids -> {"unborn", "live", "gone"}]
  /\ app \in [Ids -> {"none", "active", "deleted"}]
  /\ owner \in [Works -> Ids \cup {"none", "lost"}]
  /\ uploads \subseteq Objects /\ objects \subseteq Objects /\ shown \subseteq Objects
  /\ listed \subseteq Objects
  /\ claim \in {"no", "linked", "moved", "done"}
  /\ stale \in BOOLEAN
  /\ reaper \in [at : {"idle", "stale", "appsRead", "usersRead", "bothRead", "orphans"},
                 todo : SUBSET Ids, apps : SUBSET Ids, users : SUBSET Ids,
                 on : Ids \cup {"nobody"}, keys : SUBSET Objects, swept : BOOLEAN]

(***************************************************************************)
(* The reaper of a claimed guest finds an empty shell: what a person's     *)
(* work shows stays in the store.                                          *)
(***************************************************************************)
ClaimedMediaStay ==
  [][\A o \in objects \cap shown : (owner[o.of] = "person") => o \in objects']_vars

=============================================================================
