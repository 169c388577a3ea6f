---------------------------- MODULE GuestWorkProofs ----------------------------
(***************************************************************************)
(* What the reaper of anonymous accounts takes, and in which order, for    *)
(* any number of works.                                                    *)
(***************************************************************************)
EXTENDS GuestWork, TLAPS

Claiming == {"no", "linked", "moved", "done"}
Reaping == [at : {"idle", "stale", "appsRead", "usersRead", "bothRead", "orphans"},
            todo : SUBSET Ids, apps : SUBSET Ids, users : SUBSET Ids,
            on : Ids \cup {"nobody"}, keys : SUBSET Objects, swept : BOOLEAN]

\* The store, the claim and the reaper have their types; only an open transaction
\* has swept anything.
OthersTyped ==
  /\ uploads \subseteq Objects /\ objects \subseteq Objects /\ shown \subseteq Objects
  /\ listed \subseteq Objects
  /\ claim \in Claiming /\ stale \in BOOLEAN /\ reaper \in Reaping
  /\ reaper.swept => reaper.on # "nobody"

LEMMA InitOthers == Init => OthersTyped
<1> SUFFICES ASSUME Init PROVE OthersTyped
  OBVIOUS
<1>1. /\ uploads = {} /\ objects = {} /\ shown = {} /\ listed = {}
      /\ claim = "no" /\ stale = FALSE /\ reaper = Resting
  BY DEF Init
<1>2. Resting \in Reaping /\ ~Resting.swept
  BY DEF Resting, Reaping
<1>3. QED BY <1>1, <1>2 DEF OthersTyped, Claiming

\* A candidate that is passed over, or whose transaction ends.
LEMMA Closing ==
  ASSUME OthersTyped, NEW i \in Ids, LookedAt(i)
  PROVE  reaper' \in Reaping /\ reaper'.on = "nobody" /\ ~reaper'.swept
BY DEF OthersTyped, Reaping, LookedAt

\* A transaction that is opened.
LEMMA Opening ==
  ASSUME OthersTyped, NEW i \in Ids, Open(i)
  PROVE  /\ reaper' \in Reaping /\ reaper'.on = i /\ reaper'.keys = Under(i)
         /\ reaper'.swept = reaper.swept
         /\ listed' = listed \cup Under(i) /\ Under(i) \subseteq Objects
         /\ UNCHANGED <<accounts, uploads, objects, shown>>
<1>1. Under(i) \subseteq Objects
  BY DEF Under, OthersTyped
<1>2. reaper' = [reaper EXCEPT !.on = i, !.keys = Under(i)]
  BY DEF Open
<1>3. reaper' \in Reaping /\ reaper'.on = i /\ reaper'.keys = Under(i) /\ reaper'.swept = reaper.swept
  BY <1>1, <1>2 DEF OthersTyped, Reaping
<1>4. QED BY <1>1, <1>3 DEF Open

\* A confirmed candidate is opened, any other is looked at and left.
LEMMA ReapTypes ==
  ASSUME OthersTyped, NEW i \in Ids, ReapStale(i) \/ ReapOrphan(i)
  PROVE  OthersTyped'
<1>1. reaper.on = "nobody" /\ ~reaper.swept /\ UNCHANGED <<claim, stale>>
  BY DEF ReapStale, ReapOrphan, OthersTyped
<1>2. CASE Open(i)
  <2>1. ~reaper'.swept
    BY <1>1, <1>2, Opening
  <2>2. QED BY <1>1, <1>2, <2>1, Opening DEF OthersTyped
<1>3. CASE LookedAt(i) /\ UNCHANGED storage
  BY <1>1, <1>3, Closing DEF OthersTyped, storage
<1>4. QED BY <1>2, <1>3 DEF ReapStale, ReapOrphan

\* A sweep removes what was listed and goes on, or ends the transaction.
LEMMA SweepSteps ==
  ASSUME OthersTyped, Sweep
  PROVE  /\ reaper.on \in Ids /\ ~reaper.swept
         /\ OthersTyped' /\ objects' \subseteq objects
         /\ UNCHANGED <<accounts, uploads, shown, listed, claim, stale>>
         /\ \/ reaper'.on = reaper.on /\ objects' = objects \ reaper.keys
            \/ reaper'.on = "nobody"
<1>1. PICK gone \in SUBSET reaper.keys :
        /\ objects' = objects \ gone
        /\ \/ gone = reaper.keys /\ reaper' = [reaper EXCEPT !.swept = TRUE]
           \/ LookedAt(reaper.on)
  BY DEF Sweep
<1>2. /\ reaper.on \in Ids /\ ~reaper.swept
      /\ UNCHANGED <<accounts, uploads, shown, listed, claim, stale>>
  BY DEF Sweep, OthersTyped, Reaping
<1>3. CASE gone = reaper.keys /\ reaper' = [reaper EXCEPT !.swept = TRUE]
  <2>1. reaper' \in Reaping /\ reaper'.on = reaper.on
    BY <1>3 DEF OthersTyped, Reaping
  <2>2. reaper'.on # "nobody"
    BY <1>2, <2>1 DEF Ids
  <2>3. QED BY <1>1, <1>2, <1>3, <2>1, <2>2 DEF OthersTyped
<1>4. CASE LookedAt(reaper.on)
  <2>1. reaper' \in Reaping /\ reaper'.on = "nobody" /\ ~reaper'.swept
    BY <1>2, <1>4, Closing
  <2>2. QED BY <1>1, <1>2, <2>1 DEF OthersTyped
<1>5. QED BY <1>1, <1>3, <1>4

\* What a transaction of the reaper that goes through does.
LEMMA CommitSteps ==
  ASSUME OthersTyped, Commit
  PROVE  /\ reaper.on \in Ids /\ reaper.swept
         /\ OthersTyped' /\ reaper'.on = "nobody"
         /\ UNCHANGED <<storage, claim, stale>>
         /\ app' = [app EXCEPT ![reaper.on] = "none"]
         /\ auth' = [auth EXCEPT ![reaper.on] = "gone"]
         /\ owner' = [w \in Works |-> IF owner[w] = reaper.on THEN "lost" ELSE owner[w]]
<1>1. reaper.on \in Ids /\ reaper.swept
  BY DEF Commit, OthersTyped, Reaping
<1>2. DeleteRows(reaper.on) /\ LookedAt(reaper.on)
  BY DEF Commit, DeleteRows
<1>3. reaper' \in Reaping /\ reaper'.on = "nobody" /\ ~reaper'.swept
  BY <1>1, <1>2, Closing
<1>4. OthersTyped'
  BY <1>2, <1>3 DEF DeleteRows, storage, OthersTyped
<1>5. QED BY <1>1, <1>2, <1>3, <1>4 DEF DeleteRows

\* One step of the tick: it moves on, and what it looks at are accounts.
LEMMA TickTypes ==
  ASSUME OthersTyped, Tick \/ ReadApps \/ ReadUsers \/ Compare \/ Rest
  PROVE  /\ OthersTyped'
         /\ \/ reaper'.on = reaper.on /\ reaper'.keys = reaper.keys /\ reaper'.swept = reaper.swept
            \/ reaper'.on = "nobody"
         /\ UNCHANGED <<accounts, storage, claim, stale>>
<1>1. UNCHANGED <<accounts, storage, claim, stale>>
  BY DEF Tick, ReadApps, ReadUsers, Compare, Rest
<1>2. /\ reaper' \in Reaping
      /\ \/ reaper'.on = reaper.on /\ reaper'.keys = reaper.keys /\ reaper'.swept = reaper.swept
         \/ reaper'.on = "nobody" /\ ~reaper'.swept
  <2>1. CASE Tick
    BY <2>1 DEF Tick, OthersTyped, Reaping, Ids
  <2>2. CASE ReadApps
    BY <2>2 DEF ReadApps, OthersTyped, Reaping
  <2>3. CASE ReadUsers
    BY <2>3 DEF ReadUsers, OthersTyped, Reaping
  <2>4. CASE Compare
    BY <2>4 DEF Compare, Resting, OthersTyped, Reaping
  <2>5. CASE Rest
    BY <2>5 DEF Rest, Resting, Reaping
  <2>6. QED BY <2>1, <2>2, <2>3, <2>4, <2>5
<1>3. QED BY <1>1, <1>2 DEF OthersTyped, storage

LEMMA NextOthers == OthersTyped /\ [Next]_vars => OthersTyped'
<1> SUFFICES ASSUME OthersTyped, [Next]_vars PROVE OthersTyped'
  OBVIOUS
<1>1. ASSUME NEW i \in Ids, ReapStale(i) \/ ReapOrphan(i) PROVE OthersTyped'
  BY <1>1, ReapTypes
<1>2. CASE Tick \/ ReadApps \/ ReadUsers \/ Compare \/ Rest
  BY <1>2, TickTypes
<1>3. CASE Sweep \/ Commit
  BY <1>3, SweepSteps, CommitSteps
<1>4. ASSUME NEW o \in Objects, Upload(o) \/ Store(o) \/ Save(o) PROVE OthersTyped'
  BY <1>4 DEF Upload, Store, Save, OthersTyped
<1>5. CASE Link \/ Move \/ MoveFails \/ DropGuest \/ Age
  BY <1>5 DEF Link, Move, MoveFails, DropGuest, Age, OthersTyped, Claiming, storage
<1>6. ASSUME NEW i \in Ids, \/ Arrive(i) \/ EnsureUserRows(i) \/ Erase(i)
                            \/ \E w \in Works : Make(i, w)
      PROVE  OthersTyped'
  BY <1>6 DEF Arrive, EnsureUserRows, Erase, Make, OthersTyped, storage
<1>7. CASE UNCHANGED vars
  BY <1>7 DEF vars, OthersTyped
<1>8. QED BY <1>1, <1>2, <1>3, <1>4, <1>5, <1>6, <1>7 DEF Next

-----------------------------------------------------------------------------
\* The account rows and the owners have their types.
Types ==
  /\ auth \in [Ids -> {"unborn", "live", "gone"}]
  /\ app \in [Ids -> {"none", "active", "deleted"}]
  /\ owner \in [Works -> Ids \cup {"none", "lost"}]

\* A person's row is live or a tombstone, also where the claim is to make it.
PersonIsKnown ==
  /\ app["person"] = "active" => auth["person"] = "live"
  /\ claim = "linked" => auth["person"] = "live" \/ app["person"] = "deleted"

\* A guest whose account is gone was claimed, unless its row is a tombstone.
ShellIsClaimed == app["guest"] = "active" /\ auth["guest"] # "live" => claim = "done"

\* An erasure deletes the account with the row's change of status.
ErasedIsGone == \A i \in Ids : app[i] = "deleted" => auth[i] = "gone"

\* Who owns a work has a row.
OwnersHaveRows == \A w \in Works, i \in Ids : owner[w] = i => app[i] # "none"

\* What the open transaction has confirmed stays so: its locks keep out the
\* claim and the erasure.
OpenIsConfirmed ==
  reaper.on # "nobody" =>
    reaper.on = "guest" /\ (stale \/ claim = "done") /\ app["guest"] # "deleted"

GInv ==
  Types /\ PersonIsKnown /\ ShellIsClaimed /\ ErasedIsGone /\ OwnersHaveRows /\ OpenIsConfirmed

-----------------------------------------------------------------------------
LEMMA InitGInv == Init => GInv
<1> SUFFICES ASSUME Init PROVE GInv
  OBVIOUS
<1>1. PICK known \in BOOLEAN :
        /\ auth = [i \in Ids |-> IF i = "person" /\ known THEN "live" ELSE "unborn"]
        /\ app = [i \in Ids |-> IF i = "person" /\ known THEN "active" ELSE "none"]
  BY DEF Init
<1>2. owner = [w \in Works |-> "none"] /\ claim = "no"
  BY DEF Init
<1>3. reaper.on = "nobody"
  BY DEF Init, Resting
<1>4. QED BY <1>1, <1>2, <1>3
  DEF GInv, Types, PersonIsKnown, ShellIsClaimed, ErasedIsGone, OwnersHaveRows, OpenIsConfirmed, Ids

\* What a transaction of the reaper that goes through does to a guest's rows.
LEMMA RemovalKeeps ==
  ASSUME GInv, claim' = claim, reaper'.on = "nobody",
         app' = [app EXCEPT !["guest"] = "none"],
         auth' = [auth EXCEPT !["guest"] = "gone"],
         owner' = [w \in Works |-> IF owner[w] = "guest" THEN "lost" ELSE owner[w]]
  PROVE  GInv'
<1>1. Types'
  BY DEF GInv, Types, Ids
<1>2. /\ app'["guest"] = "none" /\ app'["person"] = app["person"]
      /\ auth'["guest"] = "gone" /\ auth'["person"] = auth["person"]
      /\ \A w \in Works : owner'[w] = IF owner[w] = "guest" THEN "lost" ELSE owner[w]
  BY DEF GInv, Types, Ids
<1>3. QED BY <1>1, <1>2
  DEF GInv, PersonIsKnown, ShellIsClaimed, ErasedIsGone, OwnersHaveRows, OpenIsConfirmed, Ids

\* The rows that GInv is about are the same, and so is what it asks of the rest.
LEMMA SameAccounts ==
  ASSUME GInv, UNCHANGED accounts, claim' = claim, stale' = stale,
         reaper'.on = reaper.on \/ reaper'.on = "nobody"
  PROVE  GInv'
BY DEF accounts, GInv, Types, PersonIsKnown, ShellIsClaimed, ErasedIsGone, OwnersHaveRows, OpenIsConfirmed

\* Both passes look at an account again under the lock: only guests pass.
LEMMA OnlyGuestsPass ==
  ASSUME GInv, NEW i \in Ids, Abandoned(i) \/ Orphaned(i)
  PROVE  i = "guest" /\ (stale \/ claim = "done") /\ app["guest"] # "deleted"
<1>1. i = "guest"
  BY DEF GInv, PersonIsKnown, Abandoned, Orphaned, Ids
<1>2. stale \/ claim = "done"
  BY <1>1 DEF GInv, ShellIsClaimed, Abandoned, Orphaned
<1>3. app["guest"] # "deleted"
  BY <1>1 DEF GInv, ErasedIsGone, Abandoned, Orphaned
<1>4. QED BY <1>1, <1>2, <1>3

LEMMA ReapingKeeps ==
  ASSUME GInv, OthersTyped, NEW i \in Ids, ReapStale(i) \/ ReapOrphan(i)
  PROVE  GInv'
<1>1. UNCHANGED <<claim, stale>>
  BY DEF ReapStale, ReapOrphan
<1>2. CASE Open(i) /\ (Abandoned(i) \/ Orphaned(i))
  <2>1. UNCHANGED accounts /\ reaper'.on = i
    BY <1>2, Opening
  <2>2. OpenIsConfirmed'
    BY <1>1, <1>2, <2>1, OnlyGuestsPass DEF OpenIsConfirmed, accounts
  <2>3. QED BY <1>1, <2>1, <2>2
    DEF accounts, GInv, Types, PersonIsKnown, ShellIsClaimed, ErasedIsGone, OwnersHaveRows
<1>3. CASE LookedAt(i) /\ UNCHANGED accounts
  BY <1>1, <1>3, Closing, SameAccounts
<1>4. QED BY <1>2, <1>3 DEF ReapStale, ReapOrphan

LEMMA NextGInv == GInv /\ OthersTyped /\ [Next]_vars => GInv'
<1> SUFFICES ASSUME GInv, OthersTyped, [Next]_vars PROVE GInv'
  OBVIOUS
<1> USE DEF GInv, Types, PersonIsKnown, ShellIsClaimed, ErasedIsGone, OwnersHaveRows,
            OpenIsConfirmed, Ids, accounts
<1>1. ASSUME NEW i \in Ids, Arrive(i) PROVE GInv'
  BY <1>1 DEF Arrive
<1>2. ASSUME NEW i \in Ids, EnsureUserRows(i) PROVE GInv'
  BY <1>2 DEF EnsureUserRows
<1>3. ASSUME NEW i \in Ids, Erase(i) PROVE GInv'
  BY <1>3 DEF Erase
<1>4. ASSUME NEW i \in Ids, ReapStale(i) \/ ReapOrphan(i) PROVE GInv'
  BY <1>4, ReapingKeeps
<1>5. ASSUME NEW i \in Ids, NEW w \in Works, Make(i, w) PROVE GInv'
  BY <1>5 DEF Make
<1>6. ASSUME NEW o \in Objects, Upload(o) \/ Store(o) \/ Save(o) PROVE GInv'
  BY <1>6 DEF Upload, Store, Save
<1>7. CASE Link
  <2>1. claim = "no" /\ claim' = "linked" /\ UNCHANGED <<accounts, stale, reaper>> /\ auth["guest"] = "live" /\ auth["person"] = "live"
    BY <1>7 DEF Link
  <2>2. QED BY <2>1
<1>8. CASE Move
  <2>1. /\ claim = "linked" /\ claim' = "moved" /\ auth' = auth /\ UNCHANGED <<stale, reaper>>
        /\ app' = [app EXCEPT !["person"] = IF app["person"] = "none" THEN "active" ELSE app["person"]]
        /\ owner' = [w \in Works |-> IF owner[w] = "guest" THEN "person" ELSE owner[w]]
    BY <1>8 DEF Move
  <2>2. /\ app'["guest"] = app["guest"]
        /\ app'["person"] = IF app["person"] = "none" THEN "active" ELSE app["person"]
        /\ \A w \in Works : owner'[w] = IF owner[w] = "guest" THEN "person" ELSE owner[w]
    BY <2>1
  <2>3. Types'
    BY <2>1
  <2>4. PersonIsKnown' /\ ShellIsClaimed' /\ ErasedIsGone' /\ OpenIsConfirmed'
    BY <2>1, <2>2
  <2>5. OwnersHaveRows'
    BY <2>2
  <2>6. QED BY <2>3, <2>4, <2>5
<1>9. CASE MoveFails
  BY <1>9 DEF MoveFails
<1>10. CASE DropGuest
  BY <1>10 DEF DropGuest
<1>11. CASE Age
  BY <1>11 DEF Age
<1>12. CASE Tick \/ ReadApps \/ ReadUsers \/ Compare \/ Rest
  BY <1>12, TickTypes, SameAccounts
<1>13. CASE Sweep
  BY <1>13, SweepSteps, SameAccounts
<1>14. CASE Commit
  <2>1. reaper.on # "nobody"
    BY <1>14, CommitSteps DEF Ids
  <2>2. reaper.on = "guest"
    BY <2>1
  <2>3. QED BY <1>14, <2>2, CommitSteps, RemovalKeeps
<1>15. CASE UNCHANGED vars
  BY <1>15 DEF vars
<1>16. QED
  BY <1>1, <1>2, <1>3, <1>4, <1>5, <1>6, <1>7, <1>8, <1>9, <1>10, <1>11, <1>12, <1>13, <1>14,
     <1>15 DEF Next

\* The accounts, the works, the store and the reaper are well typed in every
\* reachable state.
THEOREM TypeCorrect == Spec => []TypeOK
<1>1. GInv /\ OthersTyped => TypeOK
  BY DEF GInv, Types, OthersTyped, TypeOK, Claiming, Reaping
<1>2. QED BY InitGInv, NextGInv, InitOthers, NextOthers, <1>1, PTL DEF Spec

-----------------------------------------------------------------------------
LEMMA LossStep ==
  ASSUME GInv, OthersTyped, Next, NEW w \in Works, owner[w] # "lost", owner'[w] = "lost"
  PROVE  owner[w] = "guest" /\ app["guest"] = "active" /\ (stale \/ claim = "done")
<1>1. owner' # owner
  OBVIOUS
<1>2. ASSUME NEW i \in Ids, NEW v \in Works, Make(i, v) PROVE FALSE
  <2>1. owner'[w] = i \/ owner'[w] = owner[w]
    BY <1>2 DEF Make, GInv, Types
  <2>2. QED BY <2>1 DEF Ids
<1>3. CASE Move
  BY <1>3 DEF Move
<1>4. CASE Commit
  <2>1. reaper.on \in Ids /\ owner[w] = reaper.on
    BY <1>4, CommitSteps
  <2>2. owner[w] = "guest" /\ (stale \/ claim = "done") /\ app["guest"] # "deleted"
    BY <2>1 DEF GInv, OpenIsConfirmed, Ids
  <2>3. app["guest"] \in {"none", "active", "deleted"} /\ app["guest"] # "none"
    BY <2>1, <2>2 DEF GInv, Types, OwnersHaveRows
  <2>4. QED BY <2>2, <2>3
<1>5. QED
  BY <1>1, <1>2, <1>3, <1>4, SweepSteps, TickTypes DEF Next, Arrive, EnsureUserRows, Erase, Upload,
     Store, Save, Link, MoveFails, DropGuest, Age, ReapStale, ReapOrphan, Open, accounts

-----------------------------------------------------------------------------
\* An upload has a fresh key, which nothing has listed.
UploadsAreFresh == uploads \cap (objects \cup listed) = {}

\* What has been listed and is still there belongs to an account with a row.
ListedHaveRows == \A o \in listed \cap objects : app[o.under] # "none"

\* The open transaction has on its list all that was ever listed of its account.
ListIsWhole ==
  reaper.on # "nobody" =>
    \A o \in listed \cap objects : o.under = reaper.on => o \in reaper.keys /\ ~reaper.swept

\* An account that has not made its row yet has stored nothing.
RowsComeFirst ==
  \A i \in Ids : auth[i] # "gone" /\ app[i] = "none" => \A o \in uploads \cup objects : o.under # i

OInv == UploadsAreFresh /\ ListedHaveRows /\ ListIsWhole /\ RowsComeFirst

LEMMA InitOInv == Init => OInv
BY DEF Init, OInv, UploadsAreFresh, ListedHaveRows, ListIsWhole, RowsComeFirst

LEMMA ObjectsHaveIds == ASSUME NEW o \in Objects PROVE o.under \in Ids /\ o.of \in Works
BY DEF Objects

\* What the visitor and the claim do to the accounts' rows only adds to them.
LEMMA RowsAreAdded ==
  ASSUME GInv, OthersTyped, OInv, UNCHANGED <<storage, reaper>>,
         \A i \in Ids : app[i] # "none" => app'[i] # "none",
         \A i \in Ids : auth'[i] # "gone" => auth[i] # "gone"
  PROVE  OInv'
<1>1. UploadsAreFresh' /\ ListIsWhole'
  BY DEF OInv, UploadsAreFresh, ListIsWhole, storage
<1>2. ListedHaveRows'
  BY ObjectsHaveIds DEF OInv, ListedHaveRows, OthersTyped, storage
<1>3. RowsComeFirst'
  BY DEF OInv, RowsComeFirst, storage
<1>4. QED BY <1>1, <1>2, <1>3 DEF OInv

LEMMA AccountsKeep ==
  ASSUME GInv, OthersTyped, OInv,
         \/ \E i \in Ids : Arrive(i) \/ EnsureUserRows(i) \/ Erase(i)
         \/ \E i \in Ids, w \in Works : Make(i, w)
         \/ Link \/ Move \/ MoveFails \/ DropGuest \/ Age
  PROVE  OInv'
<1>1. UNCHANGED <<storage, reaper>>
  BY DEF Arrive, EnsureUserRows, Erase, Make, Link, Move, MoveFails, DropGuest, Age
<1>2. \A i \in Ids : app[i] # "none" => app'[i] # "none"
  BY DEF Arrive, EnsureUserRows, Erase, Make, Link, Move, MoveFails, DropGuest, Age, accounts,
         GInv, Types, Ids
<1>3. \A i \in Ids : auth'[i] # "gone" => auth[i] # "gone"
  BY DEF Arrive, EnsureUserRows, Erase, Make, Link, Move, MoveFails, DropGuest, Age, accounts,
         GInv, Types, Ids
<1>4. QED BY <1>1, <1>2, <1>3, RowsAreAdded

LEMMA UploadKeeps ==
  ASSUME GInv, OthersTyped, OInv, NEW o \in Objects, Upload(o)
  PROVE  OInv'
<1>1. /\ uploads' = uploads \cup {o} /\ o \notin uploads \cup objects \cup shown \cup listed
      /\ owner[o.of] = o.under
      /\ UNCHANGED <<accounts, objects, listed, reaper>>
  BY DEF Upload
<1>2. UploadsAreFresh' /\ ListedHaveRows' /\ ListIsWhole'
  BY <1>1 DEF OInv, UploadsAreFresh, ListedHaveRows, ListIsWhole, accounts
<1>3. app[o.under] # "none"
  BY <1>1, ObjectsHaveIds DEF GInv, OwnersHaveRows
<1>4. RowsComeFirst'
  BY <1>1, <1>3 DEF OInv, RowsComeFirst, accounts
<1>5. QED BY <1>2, <1>4 DEF OInv

LEMMA StoreKeeps ==
  ASSUME OInv, NEW o \in Objects, Store(o) \/ Save(o)
  PROVE  OInv'
<1>1. CASE Store(o)
  <2>1. /\ o \in uploads /\ uploads' = uploads \ {o} /\ objects' = objects \cup {o}
        /\ UNCHANGED <<accounts, listed, reaper>>
    BY <1>1 DEF Store
  <2>2. o \notin listed
    BY <2>1 DEF OInv, UploadsAreFresh
  <2>3. QED BY <2>1, <2>2
    DEF OInv, UploadsAreFresh, ListedHaveRows, ListIsWhole, RowsComeFirst, accounts
<1>2. CASE Save(o)
  BY <1>2 DEF Save, OInv, UploadsAreFresh, ListedHaveRows, ListIsWhole, RowsComeFirst, accounts
<1>3. QED BY <1>1, <1>2

LEMMA ReapKeepsObjects ==
  ASSUME GInv, OthersTyped, OInv, NEW i \in Ids, ReapStale(i) \/ ReapOrphan(i)
  PROVE  OInv'
<1>1. reaper.on = "nobody" /\ ~reaper.swept
  BY DEF ReapStale, ReapOrphan, OthersTyped
<1>2. CASE Open(i) /\ (Abandoned(i) \/ Orphaned(i))
  <2>1. /\ reaper'.on = i /\ reaper'.keys = Under(i) /\ ~reaper'.swept
        /\ listed' = listed \cup Under(i)
        /\ UNCHANGED <<app, auth, uploads, objects>>
    BY <1>1, <1>2, Opening DEF accounts
  <2>2. \A o \in Under(i) : o \in objects /\ o.under = i
    BY DEF Under
  <2>3. UploadsAreFresh' /\ RowsComeFirst'
    BY <2>1, <2>2 DEF OInv, UploadsAreFresh, RowsComeFirst
  <2>4. \A o \in Under(i) : app[i] # "none"
    <3>1. CASE Orphaned(i)
      BY <3>1 DEF Orphaned
    <3>2. CASE Abandoned(i)
      BY <3>2, <2>2 DEF Abandoned, OInv, RowsComeFirst
    <3>3. QED BY <1>2, <3>1, <3>2
  <2>5. ListedHaveRows'
    BY <2>1, <2>2, <2>4 DEF OInv, ListedHaveRows
  <2>6. ListIsWhole'
    BY <2>1 DEF ListIsWhole, Under
  <2>7. QED BY <2>3, <2>5, <2>6 DEF OInv
<1>3. CASE LookedAt(i) /\ UNCHANGED <<accounts, storage>>
  BY <1>3, Closing DEF OInv, UploadsAreFresh, ListedHaveRows, ListIsWhole, RowsComeFirst,
                       accounts, storage
<1>4. QED BY <1>2, <1>3 DEF ReapStale, ReapOrphan

LEMMA SweepKeeps ==
  ASSUME OthersTyped, OInv, Sweep
  PROVE  OInv'
<1>1. /\ objects' \subseteq objects /\ UNCHANGED <<app, auth, uploads, listed>>
      /\ \/ reaper'.on = reaper.on /\ objects' = objects \ reaper.keys
         \/ reaper'.on = "nobody"
      /\ reaper.on # "nobody"
  BY SweepSteps DEF accounts, Ids
<1>2. UploadsAreFresh' /\ ListedHaveRows' /\ RowsComeFirst'
  BY <1>1 DEF OInv, UploadsAreFresh, ListedHaveRows, RowsComeFirst
<1>3. ListIsWhole'
  BY <1>1 DEF OInv, ListIsWhole
<1>4. QED BY <1>2, <1>3 DEF OInv

LEMMA CommitKeeps ==
  ASSUME GInv, OthersTyped, OInv, Commit
  PROVE  OInv'
<1>1. /\ reaper.on \in Ids /\ reaper.swept /\ reaper'.on = "nobody"
      /\ UNCHANGED <<uploads, objects, listed>>
      /\ app' = [app EXCEPT ![reaper.on] = "none"]
      /\ auth' = [auth EXCEPT ![reaper.on] = "gone"]
  BY CommitSteps DEF storage
<1>2. reaper.on # "nobody"
  BY <1>1 DEF Ids
<1>3. \A i \in Ids : i # reaper.on => app'[i] = app[i] /\ auth'[i] = auth[i]
  BY <1>1 DEF GInv, Types
<1>4. auth'[reaper.on] = "gone"
  BY <1>1 DEF GInv, Types
<1>5. \A o \in listed \cap objects : o.under # reaper.on /\ o.under \in Ids
  BY <1>1, <1>2, ObjectsHaveIds DEF OInv, ListIsWhole, OthersTyped
<1>6. ListedHaveRows'
  BY <1>1, <1>3, <1>5 DEF OInv, ListedHaveRows
<1>7. RowsComeFirst'
  BY <1>1, <1>3, <1>4 DEF OInv, RowsComeFirst
<1>8. QED BY <1>1, <1>6, <1>7 DEF OInv, UploadsAreFresh, ListIsWhole

LEMMA NextOInv == GInv /\ OthersTyped /\ OInv /\ [Next]_vars => OInv'
<1> SUFFICES ASSUME GInv, OthersTyped, OInv, [Next]_vars PROVE OInv'
  OBVIOUS
<1>1. CASE Tick \/ ReadApps \/ ReadUsers \/ Compare \/ Rest
  BY <1>1, TickTypes DEF OInv, UploadsAreFresh, ListedHaveRows, ListIsWhole, RowsComeFirst,
                         accounts, storage
<1>2. CASE UNCHANGED vars
  BY <1>2 DEF vars, OInv, UploadsAreFresh, ListedHaveRows, ListIsWhole, RowsComeFirst
<1>3. QED
  BY <1>1, <1>2, AccountsKeep, UploadKeeps, StoreKeeps, ReapKeepsObjects, SweepKeeps, CommitKeeps
  DEF Next

-----------------------------------------------------------------------------
\* The reaper of anonymous accounts takes work from nobody but a guest that is
\* past its time or was claimed, whatever signs up, is claimed or is erased
\* between its lists and its locks.
THEOREM PeopleKeepTheirWork == Spec => OnlyGuestsAreReaped
<1> DEFINE Loss ==
      \A w \in Works : (owner[w] # "lost" /\ owner'[w] = "lost") =>
        owner[w] = "guest" /\ app["guest"] = "active" /\ (stale \/ claim = "done")
<1>1. GInv /\ OthersTyped /\ [Next]_vars => [Loss]_owner
  <2>1. ASSUME GInv, OthersTyped, Next PROVE Loss
    BY <2>1, LossStep
  <2>2. ASSUME UNCHANGED vars PROVE owner' = owner
    BY <2>2 DEF vars
  <2>3. QED BY <2>1, <2>2
<1> HIDE DEF Loss
<1>2. Spec => [][Loss]_owner
  BY InitGInv, NextGInv, InitOthers, NextOthers, <1>1, PTL DEF Spec
<1>3. QED BY <1>2 DEF Loss, OnlyGuestsAreReaped

\* Nothing that a sweep has ever listed is left in the store when the rows that
\* point to it are gone, whatever uploads come in between and however often
\* sweeps are cut short.
THEOREM RowsGoAfterObjects ==
  Spec => [](\A o \in listed \cap objects : app[o.under] # "none")
<1>1. OInv => \A o \in listed \cap objects : app[o.under] # "none"
  BY DEF OInv, ListedHaveRows
<1>2. QED
  BY InitGInv, NextGInv, InitOthers, NextOthers, InitOInv, NextOInv, <1>1, PTL DEF Spec

\* Both: the reaper takes work from guests only, and rows after objects.
THEOREM ReapingIsSound == Spec => ReapedInOrder
BY PeopleKeepTheirWork, RowsGoAfterObjects DEF ReapedInOrder

=============================================================================
