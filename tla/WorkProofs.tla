------------------------------ MODULE WorkProofs -------------------------------
(***************************************************************************)
(* Proofs about the parts around generation jobs: about each part on its   *)
(* own, and from there about the whole, of which a step is a step of one   *)
(* part while the others rest.  The board's and the guest's work's own     *)
(* proofs are in BoardAutosaveProofs and GuestWorkProofs.                  *)
(***************************************************************************)
EXTENDS Work, Sequences, Functions, TLAPS, FiniteSetTheorems, TallyProofs

-----------------------------------------------------------------------------
\* A step is a step of the part in focus, and leaves every other part alone.
LEMMA StepsOfClaims == [Next]_vars => Claims!Next \/ UNCHANGED claimsVars
  BY DEF vars, Next, ClaimsStep, BudgetStep, RenderStep, BoardStep, GuestsStep

LEMMA StepsOfBudget == [Next]_vars => Budget!Next \/ UNCHANGED budgetVars
  BY DEF vars, Next, ClaimsStep, BudgetStep, RenderStep, BoardStep, GuestsStep

LEMMA StepsOfRender == [Next]_vars => Render!Next \/ UNCHANGED renderVars
  BY DEF vars, Next, ClaimsStep, BudgetStep, RenderStep, BoardStep, GuestsStep

LEMMA StepsOfBoard == [Next]_vars => Board!Next \/ UNCHANGED boardVars
  BY DEF vars, Next, ClaimsStep, BudgetStep, RenderStep, BoardStep, GuestsStep

LEMMA StepsOfGuests == [Next]_vars => Guests!Next \/ UNCHANGED guestsVars
  BY DEF vars, Next, ClaimsStep, BudgetStep, RenderStep, BoardStep, GuestsStep

-----------------------------------------------------------------------------
(***************************************************************************)
(* Paid script requests.  A request has a row once it has claimed a key,   *)
(* and the row decides for whom its hold is: it is charged for a row that  *)
(* was completed, and returned for one that was not and never will be.     *)
(***************************************************************************)
Asking == {"idle", "blocked", "unknown", "clearing", "reclaiming", "again"}
Working == {"claimed", "unreserved", "reserved", "calling", "parsed", "refunding"}
Reserved == {"reserved", "calling", "parsed", "refunding", "returned"}

\* The unique index over the key.
OneRowPerKey ==
  \A r, q \in Requests :
    Claims!Present(r) /\ Claims!Present(q) /\ KeyOf[r] = KeyOf[q] => r = q

RowFits(r) ==
  /\ at[r] \in Asking => row[r] = "none"
  /\ at[r] \in {"clearing", "reclaiming"} => blocker[r] \in Requests
  /\ row[r] = "none" => owed[r] = {} /\ hold[r] = "none"
  /\ row[r] = "in_progress" /\ at[r] \in Working => owed[r] = {} /\ hold[r] # "returned"
  /\ row[r] = "completed" => at[r] = "done"

HoldFits(r) ==
  /\ "commit" \in owed[r] <=> row[r] = "completed"
  /\ "commit" \in owed[r] => "refund" \notin owed[r] /\ hold[r] # "returned"
  /\ held[r] \/ at[r] \in Reserved \/ owed[r] # {} => hold[r] # "none"

ClaimsFit ==
  Claims!TypeOK /\ OneRowPerKey /\ \A r \in Requests : RowFits(r) /\ HoldFits(r)


LEMMA ClaimsInit == Claims!Init => ClaimsFit
  BY DEF Claims!Init, ClaimsFit, OneRowPerKey, RowFits, HoldFits, Claims!TypeOK,
         Claims!Present, Claims!Steps, Claims!Nobody, Claims!Legs, Asking, Working, Reserved

LEMMA ClaimsRest == ClaimsFit /\ UNCHANGED claimsVars => ClaimsFit'
  BY DEF ClaimsFit, OneRowPerKey, RowFits, HoldFits, Claims!TypeOK, Claims!Present, claimsVars

\* The handler looks on, stops, or has found a row in its way.
LEMMA LookUpMoves ==
  ASSUME NEW r \in Requests, Claims!LookUpKey(r) \/ Claims!LookUpInFlight(r)
  PROVE  /\ UNCHANGED <<row, held, expired, owed, hold>>
         /\ at[r] \in {"blocked", "unknown"}
         /\ \/ UNCHANGED blocker /\ \E next \in {"unknown", "done"} : Claims!Goto(r, next)
            \/ \E q \in Requests, next \in {"clearing", "reclaiming"} :
                 blocker' = [blocker EXCEPT ![r] = q] /\ Claims!Goto(r, next)
<1>1. ASSUME NEW q \in Requests, Claims!FoundInProgress(r, q)
      PROVE  \/ UNCHANGED blocker /\ Claims!Goto(r, "done")
             \/ blocker' = [blocker EXCEPT ![r] = q] /\ Claims!Goto(r, "reclaiming")
  BY <1>1 DEF Claims!FoundInProgress
<1>2. CASE Claims!LookUpKey(r)
  <2>1. ASSUME NEW q \in Requests, Claims!Present(q),
               CASE row[q] = "completed" -> Claims!Goto(r, "done") /\ UNCHANGED blocker
                 [] row[q] = "failed" -> /\ Claims!Goto(r, "clearing")
                                         /\ blocker' = [blocker EXCEPT ![r] = q]
                 [] row[q] = "in_progress" -> Claims!FoundInProgress(r, q)
        PROVE  \/ UNCHANGED blocker /\ Claims!Goto(r, "done")
               \/ blocker' = [blocker EXCEPT ![r] = q] /\ Claims!Goto(r, "clearing")
               \/ Claims!FoundInProgress(r, q)
    BY <2>1 DEF Claims!Present
  <2>2. QED BY <1>1, <1>2, <2>1, Zenon DEF Claims!LookUpKey, Claims!columns, Claims!ledger
<1>3. CASE Claims!LookUpInFlight(r)
  BY <1>1, <1>3, Zenon DEF Claims!LookUpInFlight, Claims!columns, Claims!ledger
<1>4. QED BY <1>2, <1>3

LEMMA OwedTyped ==
  ASSUME owed \in [Requests -> SUBSET Claims!Legs], NEW r, NEW leg \in Claims!Legs,
         owed' = [owed EXCEPT ![r] = @ \cup {leg}] \/ owed' = owed
  PROVE  owed' \in [Requests -> SUBSET Claims!Legs]
OBVIOUS

LEMMA ClaimsTyped == Claims!TypeOK /\ Claims!Next => Claims!TypeOK'
<1> SUFFICES ASSUME Claims!TypeOK, Claims!Next PROVE Claims!TypeOK'
  OBVIOUS
<1> USE DEF Claims!TypeOK, Claims!Goto, Claims!columns, Claims!ledger
<1>0. /\ {"idle", "blocked", "unknown", "clearing", "reclaiming", "again", "claimed", "unreserved",
          "reserved", "calling", "parsed", "refunding", "returned", "lost", "done"}
            \subseteq Claims!Steps
      /\ {"commit", "refund"} \subseteq Claims!Legs
  BY DEF Claims!Steps, Claims!Legs
<1>r. ASSUME NEW q, Claims!Remove(q)
      PROVE  /\ row' \in [Requests -> {"none", "in_progress", "completed", "failed", "deleted"}]
             /\ held' \in [Requests -> BOOLEAN] /\ expired' \in [Requests -> BOOLEAN]
             /\ owed' \in [Requests -> SUBSET Claims!Legs]
  <2>1. owed' = [owed EXCEPT ![q] = @ \cup {"refund"}] \/ owed' = owed
    BY <1>r DEF Claims!Remove
  <2>2. QED BY <1>0, <1>r, <2>1, OwedTyped DEF Claims!Remove, Claims!Delete
<1>1. ASSUME NEW r \in Requests, Claims!Handle(r) PROVE Claims!TypeOK'
  <2>1. CASE Claims!Claim(r)
    BY <1>0, <2>1 DEF Claims!Claim
  <2>2. CASE Claims!LookUpKey(r) \/ Claims!LookUpInFlight(r)
    BY <1>0, <2>2, LookUpMoves
  <2>3. CASE Claims!Clear(r)
    BY <1>0, <2>3 DEF Claims!Clear, Claims!Delete
  <2>4. CASE Claims!Reclaim(r)
    <3>1. CASE Claims!Remove(blocker[r])
      BY <1>0, <1>r, <2>4, <3>1 DEF Claims!Reclaim
    <3>2. CASE UNCHANGED <<row, held, expired, owed>>
      BY <1>0, <2>4, <3>2 DEF Claims!Reclaim
    <3>3. QED BY <2>4, <3>1, <3>2 DEF Claims!Reclaim
  <2>5. CASE Claims!Capped(r) \/ Claims!GiveUp(r) \/ Claims!Close(r)
    BY <1>0, <2>5 DEF Claims!Capped, Claims!GiveUp, Claims!Close, Claims!Mark, Claims!Update
  <2>6. CASE Claims!Reserve(r)
    <3>1. /\ hold' \in {[hold EXCEPT ![r] = "held"], hold}
          /\ held' \in {[held EXCEPT ![r] = TRUE], held}
          /\ expired' \in {[expired EXCEPT ![r] = FALSE], expired}
          /\ \E next \in {"reserved", "lost", "unreserved"} : Claims!Goto(r, next)
          /\ UNCHANGED <<row, blocker, owed>>
      BY <2>6, Zenon DEF Claims!Reserve
    <3>2. hold' \in [Requests -> {"none", "held", "charged", "returned"}]
      BY <3>1
    <3>3. held' \in [Requests -> BOOLEAN] /\ expired' \in [Requests -> BOOLEAN]
      BY <3>1
    <3>4. at' \in [Requests -> Claims!Steps]
      BY <1>0, <3>1
    <3>5. QED BY <3>1, <3>2, <3>3, <3>4
  <2>7. CASE Claims!Renew(r) \/ Claims!Call(r) \/ Claims!Crash(r)
    <3>1. CASE Claims!Renew(r)
      <4>1. expired' \in {[expired EXCEPT ![r] = FALSE], expired}
        BY <3>1, Zenon DEF Claims!Renew
      <4>2. QED BY <1>0, <3>1, <4>1 DEF Claims!Renew
    <3>2. CASE Claims!Call(r) \/ Claims!Crash(r)
      BY <1>0, <3>2 DEF Claims!Call, Claims!Crash
    <3>3. QED BY <2>7, <3>1, <3>2
  <2>8. CASE Claims!Commit(r)
    <3>1. owed' = [owed EXCEPT ![r] = @ \cup {"commit"}] \/ owed' = owed
      BY <2>8 DEF Claims!Commit
    <3>2. owed' \in [Requests -> SUBSET Claims!Legs]
      BY <1>0, <3>1, OwedTyped
    <3>3. CASE Claims!Update(r, "completed") /\ Claims!Goto(r, "done")
      BY <1>0, <2>8, <3>2, <3>3 DEF Claims!Commit, Claims!Update
    <3>4. CASE UNCHANGED <<row, expired>> /\ (Claims!Goto(r, "lost") \/ Claims!Goto(r, "refunding"))
      BY <1>0, <2>8, <3>2, <3>4 DEF Claims!Commit
    <3>5. QED BY <2>8, <3>3, <3>4 DEF Claims!Commit
  <2>9. CASE Claims!Refund(r)
    <3>1. owed' = [owed EXCEPT ![r] = @ \cup {"refund"}] \/ owed' = owed
      BY <2>9 DEF Claims!Refund
    <3>2. owed' \in [Requests -> SUBSET Claims!Legs]
      BY <1>0, <3>1, OwedTyped
    <3>3. QED BY <1>0, <2>9, <3>2 DEF Claims!Refund, Claims!Lands
  <2>10. QED
    BY <1>1, <2>1, <2>2, <2>3, <2>4, <2>5, <2>6, <2>7, <2>8, <2>9 DEF Claims!Handle
<1>2. ASSUME NEW r \in Requests, Claims!Expire(r) PROVE Claims!TypeOK'
  BY <1>2 DEF Claims!Expire
<1>3. ASSUME NEW r \in Requests, Claims!Sweep(r) PROVE Claims!TypeOK'
  BY <1>r, <1>3 DEF Claims!Sweep
<1>4. ASSUME NEW r \in Requests, NEW leg \in Claims!Legs, Claims!Land(r, leg) PROVE Claims!TypeOK'
  BY <1>4 DEF Claims!Land, Claims!Lands
<1>5. QED BY <1>1, <1>2, <1>3, <1>4 DEF Claims!Next

\* A step that concerns one request, whose row is new only if its key is free.
LEMMA OneRequestMoves ==
  ASSUME ClaimsFit, Claims!TypeOK', NEW r \in Requests,
         \A q \in Requests : q # r =>
           /\ row'[q] = row[q] /\ held'[q] = held[q] /\ at'[q] = at[q]
           /\ blocker'[q] = blocker[q] /\ owed'[q] = owed[q] /\ hold'[q] = hold[q],
         Claims!Present(r)' =>
           \/ Claims!Present(r)
           \/ \A q \in Requests : Claims!Present(q) => KeyOf[q] # KeyOf[r],
         RowFits(r)', HoldFits(r)'
  PROVE  ClaimsFit'
<1>1. OneRowPerKey'
  BY DEF ClaimsFit, OneRowPerKey, Claims!Present
<1>2. \A q \in Requests : RowFits(q)' /\ HoldFits(q)'
  BY DEF ClaimsFit, RowFits, HoldFits
<1>3. QED BY <1>1, <1>2 DEF ClaimsFit

\* The handler goes on, and nothing else changes.
LEMMA HandlerGoesOn ==
  ASSUME ClaimsFit, Claims!TypeOK', NEW r \in Requests, NEW next, Claims!Goto(r, next),
         UNCHANGED <<row, held, owed, hold>>,
         blocker' = blocker \/ \E q \in Requests : blocker' = [blocker EXCEPT ![r] = q],
         next \in Asking => at[r] \in Asking,
         next \in {"clearing", "reclaiming"} => blocker'[r] \in Requests,
         next \in Working => at[r] \in Working,
         next \in Reserved => at[r] \in Reserved,
         at[r] # "done"
  PROVE  ClaimsFit'
<1> USE DEF ClaimsFit, Claims!TypeOK, Claims!Goto
<1>1. \A q \in Requests : at'[q] = IF q = r THEN next ELSE at[q]
  OBVIOUS
<1>2. \A q \in Requests : q # r => blocker'[q] = blocker[q]
  OBVIOUS
<1>3. RowFits(r)' /\ HoldFits(r)'
  BY <1>1 DEF RowFits, HoldFits, Asking, Working, Reserved
<1>4. QED BY <1>1, <1>2, <1>3, OneRequestMoves DEF Claims!Present

LEMMA ClaimsKeep == ClaimsFit /\ Claims!Next => ClaimsFit'
<1> SUFFICES ASSUME ClaimsFit, Claims!Next PROVE ClaimsFit'
  OBVIOUS
<1>0. Claims!TypeOK /\ Claims!TypeOK'
  BY ClaimsTyped DEF ClaimsFit
<1>g. ASSUME NEW r \in Requests, NEW next, Claims!Goto(r, next)
      PROVE  \A q \in Requests : at'[q] = IF q = r THEN next ELSE at[q]
  BY <1>0, <1>g DEF Claims!Goto, Claims!TypeOK
<1>r. ASSUME NEW r \in Requests
      PROVE  RowFits(r) /\ HoldFits(r)
  BY DEF ClaimsFit
<1> USE <1>0 DEF Claims!columns, Claims!ledger
<1>1. ASSUME NEW r \in Requests, Claims!Claim(r) PROVE ClaimsFit'
  <2>1. at[r] \in {"idle", "again"} /\ UNCHANGED <<held, expired, blocker, owed, hold>>
    BY <1>1 DEF Claims!Claim
  <2>2. CASE Claims!InTheWay(r) = {}
    <3>1. /\ \A q \in Requests : row'[q] = IF q = r THEN "in_progress" ELSE row[q]
          /\ \A q \in Requests : at'[q] = IF q = r THEN "claimed" ELSE at[q]
      BY <1>1, <1>g, <2>2 DEF Claims!Claim, Claims!TypeOK
    <3>2. \A q \in Requests : Claims!Present(q) => KeyOf[q] # KeyOf[r]
      BY <2>2 DEF Claims!InTheWay
    <3>3. RowFits(r)' /\ HoldFits(r)'
      BY <1>r, <2>1, <3>1 DEF RowFits, HoldFits, Asking, Working, Reserved
    <3>4. QED BY <2>1, <3>1, <3>2, <3>3, OneRequestMoves
  <2>3. CASE Claims!InTheWay(r) # {}
    <3>1. PICK next \in {"blocked", "done"} : Claims!Goto(r, next) /\ UNCHANGED row
      BY <1>1, <2>3 DEF Claims!Claim
    <3>2. QED BY <2>1, <3>1, HandlerGoesOn DEF Asking, Working, Reserved
  <2>4. QED BY <2>2, <2>3
<1>2. ASSUME NEW r \in Requests, Claims!LookUpKey(r) \/ Claims!LookUpInFlight(r) PROVE ClaimsFit'
  <2>1. at[r] \in {"blocked", "unknown"} /\ UNCHANGED <<row, held, expired, owed, hold>>
    BY <1>2, LookUpMoves
  <2>2. ASSUME NEW next \in {"unknown", "done"}, UNCHANGED blocker, Claims!Goto(r, next)
        PROVE  ClaimsFit'
    BY <2>1, <2>2, HandlerGoesOn DEF Asking, Working, Reserved
  <2>3. ASSUME NEW q \in Requests, NEW next \in {"clearing", "reclaiming"},
               blocker' = [blocker EXCEPT ![r] = q], Claims!Goto(r, next)
        PROVE  ClaimsFit'
    <3>1. blocker'[r] \in Requests
      BY <2>3 DEF Claims!TypeOK
    <3>2. QED BY <2>1, <2>3, <3>1, HandlerGoesOn DEF Asking, Working, Reserved
  <2>4. QED BY <1>2, <2>2, <2>3, LookUpMoves
<1>3. ASSUME NEW r \in Requests, Claims!Clear(r) \/ Claims!Reclaim(r) PROVE ClaimsFit'
  <2>0. /\ at[r] \in {"clearing", "reclaiming"} /\ row[r] = "none" /\ hold' = hold
        /\ blocker[r] \in Requests
    BY <1>3, <1>r DEF Claims!Clear, Claims!Reclaim, RowFits, Asking
  <2>1. PICK q \in Requests : q = blocker[r]
    BY <2>0
  <2>2. \A p \in Requests : p # r => at'[p] = at[p] /\ blocker'[p] = blocker[p]
    BY <1>3, <1>g DEF Claims!Clear, Claims!Reclaim, Claims!TypeOK
  <2>3. at'[r] \in {"again", "done"}
    BY <1>3, <1>g DEF Claims!Clear, Claims!Reclaim
  <2>4. CASE UNCHANGED <<row, held, owed>>
    <3>1. RowFits(r)' /\ HoldFits(r)'
      BY <1>r, <2>0, <2>3, <2>4 DEF RowFits, HoldFits, Asking, Working, Reserved
    <3>2. QED BY <2>0, <2>2, <2>4, <3>1, OneRequestMoves DEF Claims!Present
  <2>5. CASE ~UNCHANGED <<row, held, owed>>
    <3>1. /\ row[q] \in {"failed", "in_progress"} /\ Claims!Delete(q)
          /\ owed' = owed \/ (held[q] /\ owed' = [owed EXCEPT ![q] = @ \cup {"refund"}])
      BY <1>3, <2>1, <2>5 DEF Claims!Clear, Claims!Reclaim, Claims!Remove
    <3>2. q # r
      BY <2>0, <3>1
    <3>3. \A p \in Requests : p # q => row'[p] = row[p] /\ held'[p] = held[p] /\ owed'[p] = owed[p]
      BY <3>1 DEF Claims!Delete, Claims!TypeOK
    <3>4. /\ row'[q] = "deleted" /\ ~held'[q]
          /\ owed'[q] = owed[q] \/ (held[q] /\ owed'[q] = owed[q] \cup {"refund"})
      BY <3>1 DEF Claims!Delete, Claims!TypeOK
    <3>5. OneRowPerKey'
      BY <3>3, <3>4 DEF ClaimsFit, OneRowPerKey, Claims!Present
    <3>6. RowFits(r)' /\ HoldFits(r)'
      BY <1>r, <2>0, <2>3, <3>2, <3>3 DEF RowFits, HoldFits, Asking, Working, Reserved
    <3>7. RowFits(q)' /\ HoldFits(q)'
      <4>1. /\ RowFits(q) /\ HoldFits(q)
            /\ at'[q] = at[q] /\ blocker'[q] = blocker[q] /\ hold'[q] = hold[q]
        BY <1>r, <2>0, <2>2, <3>2
      <4>2. at[q] \notin Asking /\ "commit" \notin owed[q]
        BY <3>1, <4>1 DEF RowFits, HoldFits
      <4>3. RowFits(q)'
        BY <3>4, <4>1, <4>2 DEF RowFits, Asking
      <4>4. HoldFits(q)'
        BY <3>4, <4>1, <4>2 DEF HoldFits
      <4>5. QED BY <4>3, <4>4
    <3>8. \A p \in Requests : p # q /\ p # r => RowFits(p)' /\ HoldFits(p)'
      BY <1>r, <2>0, <2>2, <3>3 DEF RowFits, HoldFits
    <3>9. QED BY <3>5, <3>6, <3>7, <3>8 DEF ClaimsFit
  <2>6. QED BY <2>4, <2>5
<1>4. ASSUME NEW r \in Requests, Claims!Capped(r) \/ Claims!GiveUp(r) \/ Claims!Close(r)
      PROVE  ClaimsFit'
  <2>1. /\ at[r] \in {"claimed", "unreserved", "returned"} /\ Claims!Goto(r, "done")
        /\ UNCHANGED <<held, blocker, owed, hold>> /\ Claims!Mark(r)
    BY <1>4 DEF Claims!Capped, Claims!GiveUp, Claims!Close
  <2>2. CASE UNCHANGED row
    BY <2>1, <2>2, HandlerGoesOn DEF Asking, Working, Reserved
  <2>3. CASE Claims!Present(r) /\ Claims!Update(r, "failed")
    <3>1. /\ \A q \in Requests : row'[q] = IF q = r THEN "failed" ELSE row[q]
          /\ \A q \in Requests : at'[q] = IF q = r THEN "done" ELSE at[q]
      BY <1>g, <2>1, <2>3 DEF Claims!Update, Claims!TypeOK
    <3>2. RowFits(r)' /\ HoldFits(r)'
      BY <1>r, <2>1, <3>1 DEF RowFits, HoldFits, Asking, Working, Reserved
    <3>3. QED BY <2>1, <2>3, <3>1, <3>2, OneRequestMoves
  <2>4. QED BY <2>1, <2>2, <2>3 DEF Claims!Mark
<1>5. ASSUME NEW r \in Requests, Claims!Reserve(r) PROVE ClaimsFit'
  <2>1. at[r] = "claimed" /\ UNCHANGED <<row, blocker, owed>>
    BY <1>5 DEF Claims!Reserve
  <2>2. CASE /\ row[r] = "in_progress" /\ Claims!Goto(r, "reserved")
             /\ hold' = [hold EXCEPT ![r] = "held"] /\ held' = [held EXCEPT ![r] = TRUE]
    <3>1. /\ \A q \in Requests : at'[q] = IF q = r THEN "reserved" ELSE at[q]
          /\ \A q \in Requests : hold'[q] = IF q = r THEN "held" ELSE hold[q]
          /\ \A q \in Requests : held'[q] = IF q = r THEN TRUE ELSE held[q]
      BY <1>g, <2>2 DEF Claims!TypeOK
    <3>2. RowFits(r)' /\ HoldFits(r)'
      BY <1>r, <2>1, <2>2, <3>1 DEF RowFits, HoldFits, Asking, Working, Reserved
    <3>3. QED BY <2>1, <3>1, <3>2, OneRequestMoves DEF Claims!Present
  <2>3. ASSUME NEW next \in {"lost", "unreserved"}, Claims!Goto(r, next), UNCHANGED <<hold, held>>
        PROVE  ClaimsFit'
    BY <2>1, <2>3, HandlerGoesOn DEF Asking, Working, Reserved
  <2>4. QED BY <1>5, <2>2, <2>3 DEF Claims!Reserve
<1>6. ASSUME NEW r \in Requests, Claims!Renew(r) \/ Claims!Call(r) PROVE ClaimsFit'
  <2>1. /\ at[r] \in {"reserved", "calling"} /\ UNCHANGED <<row, held, blocker, owed, hold>>
        /\ \E next \in {"calling", "parsed", "refunding", "done"} : Claims!Goto(r, next)
    BY <1>6, Zenon DEF Claims!Renew, Claims!Call
  <2>2. QED BY <2>1, HandlerGoesOn DEF Asking, Working, Reserved
<1>7. ASSUME NEW r \in Requests, Claims!Commit(r) PROVE ClaimsFit'
  <2>1. at[r] = "parsed" /\ UNCHANGED <<held, blocker, hold>>
    BY <1>7 DEF Claims!Commit
  <2>2. CASE /\ row[r] = "in_progress" /\ Claims!Update(r, "completed") /\ Claims!Goto(r, "done")
             /\ owed' = [owed EXCEPT ![r] = @ \cup {"commit"}]
    <3>1. /\ \A q \in Requests : row'[q] = IF q = r THEN "completed" ELSE row[q]
          /\ \A q \in Requests : at'[q] = IF q = r THEN "done" ELSE at[q]
          /\ \A q \in Requests : q # r => owed'[q] = owed[q]
          /\ owed'[r] = owed[r] \cup {"commit"}
      BY <1>g, <2>2 DEF Claims!Update, Claims!TypeOK
    <3>2. owed[r] = {} /\ hold[r] \notin {"none", "returned"}
      BY <1>r, <2>1, <2>2 DEF RowFits, HoldFits, Working, Reserved
    <3>3. RowFits(r)' /\ HoldFits(r)'
      BY <2>1, <3>1, <3>2 DEF RowFits, HoldFits, Asking, Working, Reserved
    <3>4. QED BY <2>1, <2>2, <3>1, <3>3, OneRequestMoves DEF Claims!Present
  <2>3. ASSUME NEW next \in {"lost", "refunding"}, Claims!Goto(r, next), UNCHANGED <<row, owed>>
        PROVE  ClaimsFit'
    BY <2>1, <2>3, HandlerGoesOn DEF Asking, Working, Reserved
  <2>4. QED BY <1>7, <2>2, <2>3 DEF Claims!Commit
<1>8. ASSUME NEW r \in Requests, Claims!Refund(r) PROVE ClaimsFit'
  <2>1. /\ at[r] = "refunding" /\ hold[r] # "none" /\ row[r] \notin {"none", "completed"}
        /\ UNCHANGED <<row, held, blocker>>
    BY <1>8, <1>r DEF Claims!Refund, RowFits, HoldFits, Reserved
  <2>2. /\ \A q \in Requests : q # r => at'[q] = at[q] /\ owed'[q] = owed[q] /\ hold'[q] = hold[q]
        /\ at'[r] \in {"returned", "done"}
        /\ owed'[r] \in {owed[r], owed[r] \cup {"refund"}}
        /\ hold'[r] \in {hold[r], "returned"}
    BY <1>8, <1>g DEF Claims!Refund, Claims!Lands, Claims!TypeOK
  <2>3. RowFits(r)' /\ HoldFits(r)'
    BY <1>r, <2>1, <2>2 DEF RowFits, HoldFits, Asking, Working, Reserved
  <2>4. QED BY <2>1, <2>2, <2>3, OneRequestMoves DEF Claims!Present
<1>9. ASSUME NEW r \in Requests, Claims!Crash(r) PROVE ClaimsFit'
  <2>1. /\ Claims!Goto(r, "done") /\ UNCHANGED <<row, held, owed, hold>>
        /\ \A q \in Requests : q # r => blocker'[q] = blocker[q]
        /\ at[r] # "done"
    BY <1>9 DEF Claims!Crash, Claims!TypeOK, Claims!Over
  <2>2. \A q \in Requests : at'[q] = IF q = r THEN "done" ELSE at[q]
    BY <1>g, <2>1
  <2>3. RowFits(r)' /\ HoldFits(r)'
    BY <1>r, <2>1, <2>2 DEF RowFits, HoldFits, Asking, Working, Reserved
  <2>4. QED BY <2>1, <2>2, <2>3, OneRequestMoves DEF Claims!Present
<1>10. ASSUME NEW r \in Requests, Claims!Expire(r) PROVE ClaimsFit'
  <2>1. UNCHANGED <<row, held, at, blocker, owed, hold>>
    BY <1>10 DEF Claims!Expire
  <2>2. QED BY <2>1 DEF ClaimsFit, OneRowPerKey, RowFits, HoldFits, Claims!Present
<1>11. ASSUME NEW r \in Requests, Claims!Sweep(r) PROVE ClaimsFit'
  <2>1. row[r] = "in_progress" /\ Claims!Remove(r) /\ UNCHANGED <<at, blocker, hold>>
    BY <1>11 DEF Claims!Sweep
  <2>2. /\ \A q \in Requests : q # r => row'[q] = row[q] /\ held'[q] = held[q] /\ owed'[q] = owed[q]
        /\ row'[r] = "deleted" /\ ~held'[r]
        /\ owed'[r] = owed[r] \/ (held[r] /\ owed'[r] = owed[r] \cup {"refund"})
    BY <2>1 DEF Claims!Remove, Claims!Delete, Claims!TypeOK
  <2>3. RowFits(r)' /\ HoldFits(r)'
    BY <1>r, <2>1, <2>2 DEF RowFits, HoldFits, Asking, Working, Reserved
  <2>4. QED BY <2>1, <2>2, <2>3, OneRequestMoves DEF Claims!Present
<1>12. ASSUME NEW r \in Requests, NEW leg \in Claims!Legs, Claims!Land(r, leg) PROVE ClaimsFit'
  <2>1. /\ UNCHANGED <<row, held, at, blocker, owed>> /\ leg \in owed[r]
        /\ \A q \in Requests : q # r => hold'[q] = hold[q]
        /\ hold'[r] = IF leg = "commit" THEN "charged" ELSE "returned"
    BY <1>12 DEF Claims!Land, Claims!Lands, Claims!TypeOK
  <2>2. RowFits(r)' /\ HoldFits(r)'
    BY <1>r, <2>1 DEF RowFits, HoldFits, Claims!Legs
  <2>3. QED BY <2>1, <2>2, OneRequestMoves DEF Claims!Present
<1>13. QED
  BY <1>1, <1>2, <1>3, <1>4, <1>5, <1>6, <1>7, <1>8, <1>9, <1>10, <1>11, <1>12
  DEF Claims!Next, Claims!Handle

LEMMA ClaimsHold == Spec => []ClaimsFit
<1>1. Init => ClaimsFit
  BY ClaimsInit DEF Init
<1>2. ClaimsFit /\ [Next]_vars => ClaimsFit'
  BY StepsOfClaims, ClaimsRest, ClaimsKeep
<1>3. QED BY <1>1, <1>2, PTL DEF Spec

(***************************************************************************)
(* However many requests there are, with whatever keys, and whoever has    *)
(* reclaimed whose row: the result of a key is paid for once, a charge is  *)
(* only scheduled for a result that can be fetched again, and no refund    *)
(* meets it.                                                               *)
(***************************************************************************)
THEOREM KeysAreChargedOnce == Spec => []OneChargePerKey
<1>1. ClaimsFit => OneChargePerKey
  <2> SUFFICES ASSUME ClaimsFit PROVE OneChargePerKey
    OBVIOUS
  <2>1. \A r \in Requests : HoldFits(r)
    BY DEF ClaimsFit
  <2>2. \A r, q \in Requests :
          KeyOf[r] = KeyOf[q] /\ "commit" \in owed[r] /\ "commit" \in owed[q] => r = q
    BY <2>1 DEF ClaimsFit, OneRowPerKey, HoldFits, Claims!Present
  <2>3. QED BY <2>1, <2>2 DEF OneChargePerKey, Claims!OneChargePerKey, HoldFits
<1>2. QED BY <1>1, ClaimsHold, PTL

\* Every settlement that is owed finds the hold it settles: whoever writes one, a
\* handler, the next request or the reaper, the hold was made before.
THEOREM SettlementsFindHolds == Spec => []OwedIsHeld
<1>1. ClaimsFit => OwedIsHeld
  BY DEF ClaimsFit, HoldFits, OwedIsHeld, Claims!OwedIsHeld
<1>2. QED BY <1>1, ClaimsHold, PTL

-----------------------------------------------------------------------------
(***************************************************************************)
(* The official leg's budget.  What a row of a closed booking costs is     *)
(* what was booked, what was invoiced, or nothing for a call that was      *)
(* refused; and while somebody holds the lock, nothing adds to the losses  *)
(* it has read.                                                            *)
(***************************************************************************)
Sources == {"reserved", "invoiced", "configured", "released"}
Spending == [job : Jobs, source : Sources, cost : Nat, pending : {0, Worst},
             revenue : {0, Price}, bill : Bills \cup {0}, inside : BOOLEAN]

BudgetTyped ==
  /\ rows \in Seq(Spending)
  /\ \A i \in DOMAIN rows : rows[i].pending = IF Budget!Open(i) THEN Worst ELSE 0
  /\ job \in [Jobs -> {"queued", "running", "succeeded", "failed"}]
  /\ step \in [Jobs -> {"idle", "asking", "deciding", "submitting", "refused", "delivered",
                        "failed", "hopeless"}]
  /\ mine \in [Jobs -> 0..MaxRows]
  /\ invoice \in [Jobs -> Bills \cup {0}]
  /\ lock \in Jobs \cup {"nobody"}
  /\ seen \in Nat

BookingFits(i) ==
  /\ rows[i].source \in {"reserved", "configured"} => rows[i].cost = Worst
  /\ rows[i].source = "invoiced" => rows[i].cost = rows[i].bill
  /\ rows[i].source = "released" => rows[i].cost = 0 /\ rows[i].bill = 0
  /\ rows[i].source \in {"reserved", "released"} => rows[i].revenue = 0
  /\ rows[i].source \in {"configured", "invoiced"} => job[rows[i].job] \in {"succeeded", "failed"}
  /\ rows[i].revenue > 0 => job[rows[i].job] = "succeeded"

\* The attempt in hand is the job's last, and open unless a tick has closed all.
InHand(j) ==
  /\ mine[j] \in DOMAIN rows /\ rows[mine[j]].job = j
  /\ rows[mine[j]].source \in {"reserved", "configured"}
  /\ \A i \in Budget!OpenOf(j) : i <= mine[j] /\ Budget!Open(mine[j])

WorkerFits(j) ==
  /\ job[j] \in {"queued", "succeeded"} => step[j] = "idle"
  /\ step[j] = "submitting" => InHand(j)
  /\ step[j] = "refused" =>
       mine[j] \in DOMAIN rows /\ rows[mine[j]].job = j /\ rows[mine[j]].bill = 0
  /\ invoice[j] > 0 => step[j] = "delivered" /\ InHand(j) /\ rows[mine[j]].bill = invoice[j]
  /\ step[j] = "deciding" => lock = j

\* What a job has earned stands on the last of its rows that cost anything.
LastEarns ==
  \A i, k \in DOMAIN rows :
    i < k /\ rows[i].job = rows[k].job /\ rows[i].revenue > 0 => rows[k].source = "released"

\* The holder of the lock has seen every loss there is.
LossesAreSeen == lock # "nobody" => Budget!Spend <= seen

BudgetFits ==
  /\ BudgetTyped
  /\ \A i \in DOMAIN rows : BookingFits(i)
  /\ \A j \in Jobs : WorkerFits(j)
  /\ LastEarns /\ LossesAreSeen

\* The window's losses, of any sequence of rows.
Inside(rs, j) == {i \in DOMAIN rs : rs[i].job = j /\ rs[i].inside}
Nets(rs) == [i \in DOMAIN rs |-> rs[i].cost - rs[i].revenue]
Net(rs, j) == SumFunctionOnSet(Nets(rs), Inside(rs, j))
LossOf(rs, j) == IF Net(rs, j) > 0 THEN Net(rs, j) ELSE 0
SpendOf(rs) == SumFunctionOnSet([j \in Jobs |-> LossOf(rs, j)], Jobs)

LEMMA SumIsBudgetSum == \A f, S : Budget!SumFunctionOnSet(f, S) = SumFunctionOnSet(f, S)
  BY Zenon DEF Budget!SumFunctionOnSet, Budget!FoldFunctionOnSet, Budget!MapThenFoldSet,
               SumFunctionOnSet, FoldFunctionOnSet, MapThenFoldSet

LEMMA SpendIs == Budget!Spend = SpendOf(rows)
<1>1. \A j : Budget!Loss(j) = LossOf(rows, j)
  BY SumIsBudgetSum, Zenon DEF Budget!Loss, LossOf, Net, Nets, Inside
<1>2. QED BY <1>1, SumIsBudgetSum, Zenon DEF Budget!Spend, SpendOf

LEMMA RowsAreFinite ==
  ASSUME NEW rs \in Seq(Spending)
  PROVE  /\ IsFiniteSet(DOMAIN rs) /\ DOMAIN rs = 1..Len(rs) /\ Len(rs) \in Nat
         /\ \A i \in DOMAIN rs : rs[i] \in Spending
BY FS_Interval

LEMMA Fields ==
  ASSUME NEW r \in Spending
  PROVE  /\ r.job \in Jobs /\ r.source \in Sources /\ r.inside \in BOOLEAN
         /\ r.cost \in Nat /\ r.revenue \in Nat /\ r.revenue \in {0, Price}
         /\ r.bill \in Nat /\ r.bill \in Bills \cup {0} /\ r.pending \in {0, Worst}
<1>1. Price \in Nat /\ \A bill \in Bills : bill \in Nat
  BY BudgetAssumption
<1>2. /\ r.job \in Jobs /\ r.source \in Sources /\ r.inside \in BOOLEAN
      /\ r.cost \in Nat /\ r.revenue \in {0, Price}
      /\ r.bill \in Bills \cup {0} /\ r.pending \in {0, Worst}
  BY DEF Spending
<1>3. r.revenue \in Nat
  BY <1>1, <1>2
<1>4. r.bill \in Nat
  BY <1>1, <1>2
<1>5. QED BY <1>2, <1>3, <1>4

LEMMA RowFields ==
  ASSUME NEW rs \in Seq(Spending), NEW i \in DOMAIN rs
  PROVE  /\ rs[i].job \in Jobs /\ rs[i].source \in Sources /\ rs[i].inside \in BOOLEAN
         /\ rs[i].cost \in Nat /\ rs[i].revenue \in Nat /\ rs[i].revenue \in {0, Price}
         /\ rs[i].bill \in Nat /\ rs[i].bill \in Bills \cup {0} /\ rs[i].pending \in {0, Worst}
BY RowsAreFinite, Fields

LEMMA NetsAreIntegers ==
  ASSUME NEW rs \in Seq(Spending)
  PROVE  /\ \A i \in DOMAIN rs : Nets(rs)[i] = rs[i].cost - rs[i].revenue /\ Nets(rs)[i] \in Int
         /\ \A j : Inside(rs, j) \subseteq DOMAIN rs /\ IsFiniteSet(Inside(rs, j))
<1>1. ASSUME NEW i \in DOMAIN rs PROVE rs[i].cost - rs[i].revenue \in Int
  <2>1. rs[i].cost \in Nat /\ rs[i].revenue \in Nat
    BY RowFields
  <2>2. QED BY <2>1
<1>2. \A j : IsFiniteSet(Inside(rs, j))
  BY RowsAreFinite, FS_Subset DEF Inside
<1>3. QED BY <1>1, <1>2 DEF Nets, Inside

LEMMA LossesAreNatural ==
  ASSUME NEW rs \in Seq(Spending)
  PROVE  /\ \A j : Net(rs, j) \in Int /\ LossOf(rs, j) \in Nat
         /\ SpendOf(rs) \in Nat
<1>1. ASSUME NEW j PROVE Net(rs, j) \in Int
  BY NetsAreIntegers, SumInt DEF Net
<1>2. ASSUME NEW j PROVE LossOf(rs, j) \in Nat
  BY <1>1 DEF LossOf
<1>3. SpendOf(rs) \in Nat
  <2> DEFINE f == [j \in Jobs |-> LossOf(rs, j)]
  <2>1. \A j \in Jobs : f[j] \in Nat
    BY <1>2
  <2> HIDE DEF f
  <2>2. SumFunctionOnSet(f, Jobs) \in Nat
    BY <2>1, SumNat, BudgetAssumption
  <2>3. QED BY <2>2 DEF SpendOf, f
<1>4. QED BY <1>1, <1>2, <1>3

LEMMA SpendFollowsLosses ==
  ASSUME NEW rs \in Seq(Spending), NEW ts \in Seq(Spending),
         \A j \in Jobs : LossOf(ts, j) <= LossOf(rs, j)
  PROVE  SpendOf(ts) <= SpendOf(rs)
<1> DEFINE f == [j \in Jobs |-> LossOf(rs, j)]
           g == [j \in Jobs |-> LossOf(ts, j)]
<1>1. \A j \in Jobs : f[j] \in Int /\ g[j] \in Int /\ g[j] <= f[j]
  BY LossesAreNatural
<1> HIDE DEF f, g
<1>2. SumFunctionOnSet(g, Jobs) <= SumFunctionOnSet(f, Jobs)
  BY <1>1, SumFalls, BudgetAssumption
<1>3. QED BY <1>2 DEF SpendOf, f, g

\* Whatever happens to the rows where they are, the spend falls with their costs.
LEMMA SpendFollowsRows ==
  ASSUME NEW rs \in Seq(Spending), NEW ts \in Seq(Spending), DOMAIN ts = DOMAIN rs,
         \A i \in DOMAIN rs :
           /\ ts[i].job = rs[i].job /\ ts[i].inside = rs[i].inside
           /\ ts[i].cost <= rs[i].cost /\ ts[i].revenue >= rs[i].revenue
  PROVE  SpendOf(ts) <= SpendOf(rs)
<1>1. ASSUME NEW j \in Jobs PROVE LossOf(ts, j) <= LossOf(rs, j)
  <2>1. Inside(ts, j) = Inside(rs, j)
    BY DEF Inside
  <2>2. \A i \in Inside(rs, j) : Nets(ts)[i] \in Int /\ Nets(rs)[i] \in Int /\ Nets(ts)[i] <= Nets(rs)[i]
    <3>1. ASSUME NEW i \in DOMAIN rs PROVE Nets(ts)[i] <= Nets(rs)[i]
      <4>1. /\ rs[i].cost \in Nat /\ rs[i].revenue \in Nat
            /\ ts[i].cost \in Nat /\ ts[i].revenue \in Nat
        BY RowFields
      <4>2. Nets(ts)[i] = ts[i].cost - ts[i].revenue /\ Nets(rs)[i] = rs[i].cost - rs[i].revenue
        BY NetsAreIntegers
      <4>3. QED BY <4>1, <4>2
    <3>2. QED BY <3>1, NetsAreIntegers
  <2>3. Net(ts, j) <= Net(rs, j)
    BY <2>1, <2>2, NetsAreIntegers, SumFalls DEF Net
  <2>4. QED BY <2>3, LossesAreNatural DEF LossOf
<1>2. QED BY <1>1, SpendFollowsLosses

\* The oldest row leaves the window: whether what it earned stands on it ...
LEMMA AgeingFrees ==
  ASSUME NEW rs \in Seq(Spending), NEW ts \in Seq(Spending), NEW i \in DOMAIN rs,
         rs[i].inside, ts = [rs EXCEPT ![i].inside = FALSE],
         \A k \in 1..(i - 1) : ~rs[k].inside,
         rs[i].revenue > 0 =>
           \A k \in DOMAIN rs : i < k /\ rs[k].job = rs[i].job => rs[k].cost = 0
  PROVE  SpendOf(ts) <= SpendOf(rs)
<1>1. /\ DOMAIN ts = DOMAIN rs
      /\ \A k \in DOMAIN rs : k # i => ts[k] = rs[k]
      /\ ts[i].job = rs[i].job /\ ts[i].cost = rs[i].cost /\ ts[i].revenue = rs[i].revenue
      /\ ~ts[i].inside
  <2>1. rs[i] \in Spending /\ DOMAIN rs = 1..Len(rs)
    BY RowsAreFinite
  <2>2. QED BY <2>1 DEF Spending
<1>2. Nets(ts) = Nets(rs)
  BY <1>1 DEF Nets
<1>3. ASSUME NEW j \in Jobs PROVE LossOf(ts, j) <= LossOf(rs, j)
  <2>1. /\ Net(rs, j) \in Int /\ LossOf(rs, j) \in Nat
        /\ Net(ts, j) \in Int /\ LossOf(ts, j) \in Nat
        /\ IsFiniteSet(Inside(rs, j)) /\ IsFiniteSet(Inside(ts, j))
    BY LossesAreNatural, NetsAreIntegers
  <2>2. CASE rs[i].job # j
    <3>1. Inside(ts, j) = Inside(rs, j)
      BY <1>1, <2>2 DEF Inside
    <3>2. LossOf(ts, j) = LossOf(rs, j)
      BY <1>2, <3>1 DEF LossOf, Net
    <3>3. QED BY <2>1, <3>2
  <2>3. CASE rs[i].job = j
    <3>1. Inside(ts, j) = Inside(rs, j) \ {i} /\ i \in Inside(rs, j)
      BY <1>1, <2>3 DEF Inside
    <3>2. \A k \in Inside(rs, j) : Nets(rs)[k] \in Int
      BY NetsAreIntegers
    <3>3. Net(rs, j) = Nets(rs)[i] + Net(ts, j) /\ Nets(rs)[i] \in Int
      <4>1. SumFunctionOnSet(Nets(rs), Inside(rs, j))
              = Nets(rs)[i] + SumFunctionOnSet(Nets(rs), Inside(rs, j) \ {i})
        BY <2>1, <3>1, <3>2, SumTakesOut
      <4>2. QED BY <1>2, <3>1, <3>2, <4>1 DEF Net
    <3>4. CASE rs[i].revenue > 0
      <4>1. ASSUME NEW k \in Inside(ts, j) PROVE Nets(rs)[k] <= 0 /\ Nets(rs)[k] \in Int
        <5>1. k \in DOMAIN rs /\ rs[k].job = j /\ rs[k].inside /\ k # i
          BY <3>1 DEF Inside
        <5>2. ~(k \in 1..(i - 1)) /\ i \in Nat /\ k \in Nat
          BY <5>1, RowsAreFinite
        <5>3. i < k
          BY <5>1, <5>2, RowsAreFinite
        <5>4. rs[k].cost = 0 /\ rs[k].revenue \in Nat
          BY <2>3, <3>4, <5>1, <5>3, RowFields
        <5>5. Nets(rs)[k] = rs[k].cost - rs[k].revenue
          BY <5>1, NetsAreIntegers
        <5>6. QED BY <5>4, <5>5
      <4>2. Net(ts, j) <= 0
        <5> DEFINE S == Inside(ts, j)
                   zero == [k \in S |-> 0]
        <5>1. \A k \in S : zero[k] \in Int /\ Nets(rs)[k] \in Int /\ Nets(rs)[k] <= zero[k]
          BY <4>1
        <5>2. SumFunctionOnSet(zero, S) = 0
          BY <2>1, SumOfZeros
        <5> HIDE DEF zero
        <5>3. SumFunctionOnSet(Nets(rs), S) <= SumFunctionOnSet(zero, S)
          BY <2>1, <5>1, SumFalls
        <5>4. QED BY <1>2, <5>2, <5>3 DEF Net
      <4>3. QED BY <2>1, <4>2 DEF LossOf
    <3>5. CASE ~(rs[i].revenue > 0)
      <4>1. rs[i].cost \in Nat /\ rs[i].revenue \in Nat
        BY RowFields
      <4>2. Nets(rs)[i] = rs[i].cost - rs[i].revenue
        BY NetsAreIntegers
      <4>3. Net(ts, j) <= Net(rs, j)
        BY <2>1, <3>3, <3>5, <4>1, <4>2
      <4>4. QED BY <2>1, <4>3 DEF LossOf
    <3>6. QED BY <3>4, <3>5
  <2>4. QED BY <2>2, <2>3
<1>4. QED BY <1>3, SpendFollowsLosses

\* A booking adds its worst case to the losses, and no more.
LEMMA BookingAdds ==
  ASSUME NEW rs \in Seq(Spending), NEW ts \in Seq(Spending), NEW j \in Jobs,
         ts = Append(rs, Budget!Row(j))
  PROVE  SpendOf(ts) <= SpendOf(rs) + Worst
<1> DEFINE n == Len(rs) + 1
<1>1. /\ n \in Nat /\ n \notin DOMAIN rs /\ DOMAIN ts = DOMAIN rs \cup {n}
      /\ \A i \in DOMAIN rs : ts[i] = rs[i]
      /\ ts[n] = Budget!Row(j)
  BY RowsAreFinite
<1>2. ts[n].job = j /\ ts[n].inside /\ ts[n].cost = Worst /\ ts[n].revenue = 0
  BY <1>1 DEF Budget!Row
<1> HIDE DEF n
<1>3. ASSUME NEW k PROVE Inside(ts, k) = Inside(rs, k) \cup (IF k = j THEN {n} ELSE {})
  BY <1>1, <1>2 DEF Inside
<1>4. ASSUME NEW k PROVE SumFunctionOnSet(Nets(ts), Inside(rs, k)) = Net(rs, k)
  <2>1. \A i \in Inside(rs, k) : Nets(ts)[i] = Nets(rs)[i]
    BY <1>1 DEF Inside, Nets
  <2>2. QED BY <2>1, NetsAreIntegers, SumSame DEF Net
<1>5. ASSUME NEW k \in Jobs, k # j PROVE LossOf(ts, k) = LossOf(rs, k)
  BY <1>3, <1>4, <1>5 DEF LossOf, Net
<1>6. Net(ts, j) = Net(rs, j) + Worst
  <2>1. Inside(ts, j) = Inside(rs, j) \cup {n} /\ n \notin Inside(rs, j)
    BY <1>1, <1>3 DEF Inside
  <2>2. Nets(ts)[n] = Worst
    <3>1. Nets(ts)[n] = ts[n].cost - ts[n].revenue /\ Worst \in Nat
      BY <1>1, BudgetAssumption DEF Nets
    <3>2. QED BY <1>2, <3>1
  <2>3. \A i \in Inside(rs, j) \cup {n} : Nets(ts)[i] \in Int
    BY <2>1, NetsAreIntegers
  <2>4. IsFiniteSet(Inside(rs, j))
    BY NetsAreIntegers
  <2>5. SumFunctionOnSet(Nets(ts), Inside(rs, j) \cup {n})
          = SumFunctionOnSet(Nets(ts), Inside(rs, j)) + Nets(ts)[n]
    BY <2>1, <2>3, <2>4, SumAdds
  <2>6. QED BY <1>4, <2>1, <2>2, <2>5 DEF Net
<1>7. LossOf(ts, j) \in Nat /\ LossOf(rs, j) \in Nat /\ LossOf(ts, j) <= LossOf(rs, j) + Worst
  <2>1. Net(rs, j) \in Int /\ LossOf(rs, j) \in Nat /\ LossOf(ts, j) \in Nat /\ Worst \in Nat
    BY LossesAreNatural, BudgetAssumption
  <2>2. QED BY <1>6, <2>1 DEF LossOf
<1>8. SpendOf(ts) = SpendOf(rs) + (LossOf(ts, j) - LossOf(rs, j))
  <2> DEFINE f == [k \in Jobs |-> LossOf(rs, k)]
             g == [k \in Jobs |-> LossOf(ts, k)]
  <2>1. /\ \A k \in Jobs : f[k] \in Int /\ g[k] \in Int
        /\ \A k \in Jobs : k # j => g[k] = f[k]
        /\ f[j] = LossOf(rs, j) /\ g[j] = LossOf(ts, j)
    <3>1. ASSUME NEW k \in Jobs PROVE LossOf(rs, k) \in Nat /\ LossOf(ts, k) \in Nat
      BY LossesAreNatural
    <3>2. QED BY <1>5, <3>1
  <2> HIDE DEF f, g
  <2>2. SumFunctionOnSet(g, Jobs) = SumFunctionOnSet(f, Jobs) + (g[j] - f[j])
    BY <2>1, SumChange, BudgetAssumption
  <2>3. QED BY <2>1, <2>2 DEF SpendOf, f, g
<1>9. SpendOf(ts) \in Nat /\ SpendOf(rs) \in Nat /\ Worst \in Nat
  BY LossesAreNatural, BudgetAssumption
<1>10. QED BY <1>7, <1>8, <1>9


LEMMA SpendIsNext == Budget!Spend' = SpendOf(rows')
<1>1. (Budget!Spend = SpendOf(rows))'
  BY SpendIs, PTL
<1>2. QED BY <1>1 DEF SpendOf, LossOf, Net, Nets, Inside

LEMMA BudgetInit == Budget!Init => BudgetFits
<1> SUFFICES ASSUME Budget!Init PROVE BudgetFits
  OBVIOUS
<1> USE DEF Budget!Init, Budget!Nobody
<1>1. rows \in Seq(Spending) /\ DOMAIN rows = {}
  OBVIOUS
<1>2. BudgetTyped
  BY <1>1, BudgetAssumption DEF BudgetTyped
<1>3. \A j \in Jobs : WorkerFits(j)
  BY DEF WorkerFits
<1>4. QED BY <1>1, <1>2, <1>3 DEF BudgetFits, LastEarns, LossesAreSeen

LEMMA BudgetRests == BudgetFits /\ UNCHANGED budgetVars => BudgetFits'
<1> SUFFICES ASSUME BudgetFits, UNCHANGED budgetVars PROVE BudgetFits'
  OBVIOUS
<1>1. UNCHANGED <<rows, job, step, mine, invoice, lock, seen>>
  BY DEF budgetVars
<1>2. Budget!Spend' = Budget!Spend
  BY <1>1, SpendIs, SpendIsNext
<1>3. QED
  BY <1>1, <1>2 DEF BudgetFits, BudgetTyped, BookingFits, WorkerFits, InHand, LastEarns,
                    LossesAreSeen, Budget!Open, Budget!OpenOf

\* The losses fall with the rows, or nobody has read them.
LEMMA SeenStays ==
  ASSUME LossesAreSeen, rows \in Seq(Spending), rows' \in Seq(Spending),
         \/ lock' = "nobody"
         \/ lock' = lock /\ seen' = seen /\ seen \in Nat /\ SpendOf(rows') <= SpendOf(rows)
  PROVE  LossesAreSeen'
<1>1. SpendOf(rows) \in Nat /\ SpendOf(rows') \in Nat
  BY LossesAreNatural
<1>2. QED BY <1>1, SpendIs, SpendIsNext DEF LossesAreSeen

\* A worker is not disturbed by what happens to other jobs' rows.
LEMMA OthersWork ==
  ASSUME NEW k \in Jobs, WorkerFits(k),
         job'[k] = job[k], step'[k] = step[k], mine'[k] = mine[k], invoice'[k] = invoice[k],
         step[k] = "deciding" /\ lock = k => lock' = k,
         DOMAIN rows \subseteq DOMAIN rows',
         \A i \in DOMAIN rows : rows[i].job = k => rows'[i] = rows[i],
         \A i \in DOMAIN rows' : rows'[i].job = k => i \in DOMAIN rows /\ rows[i].job = k
  PROVE  WorkerFits(k)'
<1>1. Budget!OpenOf(k)' \subseteq Budget!OpenOf(k)
  BY DEF Budget!OpenOf, Budget!Open
<1>2. ASSUME InHand(k) PROVE InHand(k)'
  BY <1>1, <1>2 DEF InHand, Budget!Open
<1>3. ASSUME mine[k] \in DOMAIN rows, rows[mine[k]].job = k PROVE rows'[mine'[k]] = rows[mine[k]]
  BY <1>3
<1>4. InHand(k) => mine[k] \in DOMAIN rows /\ rows[mine[k]].job = k
  BY DEF InHand
<1>5. QED BY <1>2, <1>3, <1>4 DEF WorkerFits

LEMMA IdleFits ==
  ASSUME NEW j \in Jobs, step'[j] = "idle", invoice'[j] = 0
  PROVE  WorkerFits(j)'
BY DEF WorkerFits

\* A bounded set of positions has a last one.
LEMMA LastOf ==
  ASSUME NEW n \in Nat, NEW S, S \subseteq 1..n, S # {}
  PROVE  Budget!Max(S) \in S /\ \A i \in S : i <= Budget!Max(S)
<1> DEFINE Far(d) == \E i \in S : i = n - d
<1>1. \E d \in Nat : Far(d) /\ \A c \in 0..(d - 1) : ~Far(c)
  <2> DEFINE D == {d \in Nat : Far(d)}
  <2>1. PICK i \in S : TRUE
    OBVIOUS
  <2>2. n - i \in D
    BY <2>1
  <2>3. D \subseteq Nat
    OBVIOUS
  <2> HIDE DEF D
  <2>4. PICK d \in D : \A c \in D : d <= c
    BY <2>2, <2>3, LeastNat
  <2>5. QED BY <2>4 DEF D
<1>2. PICK d \in Nat : Far(d) /\ \A c \in 0..(d - 1) : ~Far(c)
  BY <1>1
<1>3. PICK m \in S : m = n - d
  BY <1>2
<1>4. ASSUME NEW i \in S PROVE i <= m
  <2>1. i \in Nat /\ m \in Nat /\ i <= n /\ n - i \in Nat
    OBVIOUS
  <2>2. i = n - (n - i)
    BY <2>1
  <2>3. ~(n - i \in 0..(d - 1))
    BY <1>2, <2>2
  <2>4. QED BY <1>3, <2>1, <2>3
<1>5. QED BY <1>4 DEF Budget!Max

\* Rows that are rewritten where they are stay a sequence.
LEMMA RowsSeq ==
  ASSUME NEW rs \in Seq(Spending), NEW ts, ts = [i \in DOMAIN rs |-> ts[i]],
         \A i \in DOMAIN rs : ts[i] \in Spending
  PROVE  ts \in Seq(Spending) /\ DOMAIN ts = DOMAIN rs
<1>1. DOMAIN rs = 1..Len(rs) /\ Len(rs) \in Nat
  BY RowsAreFinite
<1>2. ts \in [1..Len(rs) -> Spending]
  BY <1>1
<1>3. QED BY <1>1, <1>2

\* What the settlement of a job does to a row.
SettledRow(i, j, bill, earned) ==
  /\ rows'[i].job = rows[i].job /\ rows'[i].inside = rows[i].inside
  /\ rows'[i].bill = rows[i].bill
  /\ i \notin Budget!OpenOf(j) => rows'[i] = rows[i]
  /\ i \in Budget!OpenOf(j) =>
       /\ rows'[i].pending = 0 /\ rows[i].cost = Worst /\ rows[i].revenue = 0
       /\ \/ rows'[i].source = "configured" /\ rows'[i].cost = Worst
          \/ bill > 0 /\ rows'[i].source = "invoiced" /\ rows'[i].cost = rows[i].bill
       /\ rows'[i].revenue \in {0, earned}
       /\ rows'[i].revenue > 0 => \A k \in Budget!OpenOf(j) : k <= i

LEMMA SettledRows ==
  ASSUME BudgetTyped, \A i \in DOMAIN rows : BookingFits(i), NEW j \in Jobs,
         NEW bill \in Bills \cup {0}, NEW earned \in {0, Price},
         bill > 0 => InHand(j) /\ rows[mine[j]].bill = bill,
         rows' = Budget!Settled(j, bill, earned)
  PROVE  /\ rows' \in Seq(Spending) /\ DOMAIN rows' = DOMAIN rows
         /\ \A i \in DOMAIN rows : SettledRow(i, j, bill, earned)
<1>1. rows \in Seq(Spending) /\ Worst \in Nat /\ bill \in Nat /\ earned \in Nat /\ Worst > 0
  <2>1. Worst \in Nat /\ Price \in Nat /\ Worst > 0 /\ \A b \in Bills : b \in Nat
    BY BudgetAssumption
  <2>2. QED BY <2>1 DEF BudgetTyped
<1> DEFINE Old == Budget!OpenOf(j)
           new(i) == IF i \in Old
                     THEN LET last == i = Budget!Max(Old)
                          IN  [rows[i] EXCEPT
                                 !.cost = IF last /\ bill > 0 THEN @ - rows[i].pending + bill ELSE @,
                                 !.revenue = IF last THEN @ + earned ELSE @,
                                 !.pending = 0,
                                 !.source = IF last /\ bill > 0 THEN "invoiced" ELSE "configured"]
                     ELSE rows[i]
<1>2. rows' = [i \in DOMAIN rows |-> new(i)]
  BY DEF Budget!Settled
<1>3. Old # {} => Budget!Max(Old) \in Old /\ \A i \in Old : i <= Budget!Max(Old)
  <2>1. Old \subseteq 1..Len(rows) /\ Len(rows) \in Nat
    BY <1>1, RowsAreFinite DEF Budget!OpenOf
  <2>2. QED BY <2>1, LastOf
<1>4. ASSUME NEW i \in Old
      PROVE  /\ i \in DOMAIN rows /\ rows[i].cost = Worst /\ rows[i].revenue = 0
             /\ rows[i].pending = Worst /\ rows[i] \in Spending
  <2>1. i \in DOMAIN rows /\ rows[i].source = "reserved" /\ Budget!Open(i)
    BY DEF Budget!OpenOf, Budget!Open
  <2>2. QED BY <1>1, <2>1, RowsAreFinite DEF BudgetTyped, BookingFits
<1>5. ASSUME NEW i \in Old, i = Budget!Max(Old), bill > 0 PROVE rows[i].bill = bill
  <2>1. mine[j] \in DOMAIN rows /\ rows[mine[j]].job = j /\ Budget!Open(mine[j]) /\ i <= mine[j]
    BY <1>5 DEF InHand
  <2>2. mine[j] \in Old
    BY <2>1 DEF Budget!OpenOf
  <2>3. mine[j] <= i /\ mine[j] \in Nat /\ i \in Nat
    BY <1>1, <1>3, <1>4, <1>5, <2>1, <2>2, RowsAreFinite
  <2>4. i = mine[j]
    BY <2>1, <2>3
  <2>5. QED BY <1>5, <2>4
<1>6. ASSUME NEW i \in DOMAIN rows, i \in Old
      PROVE  /\ new(i) \in Spending
             /\ new(i).job = rows[i].job /\ new(i).inside = rows[i].inside
             /\ new(i).bill = rows[i].bill /\ new(i).pending = 0
             /\ \/ new(i).source = "configured" /\ new(i).cost = Worst
                \/ bill > 0 /\ new(i).source = "invoiced" /\ new(i).cost = rows[i].bill
             /\ new(i).revenue \in {0, earned}
             /\ new(i).revenue > 0 => i = Budget!Max(Old)
  <2> DEFINE last == i = Budget!Max(Old)
             cost == IF last /\ bill > 0 THEN rows[i].cost - rows[i].pending + bill ELSE rows[i].cost
             revenue == IF last THEN rows[i].revenue + earned ELSE rows[i].revenue
             source == IF last /\ bill > 0 THEN "invoiced" ELSE "configured"
  <2>1. new(i) = [rows[i] EXCEPT !.cost = cost, !.revenue = revenue, !.pending = 0, !.source = source]
    BY <1>4, <1>6
  <2>2. /\ cost \in Nat /\ revenue \in {0, earned} /\ revenue \in {0, Price} /\ source \in Sources
        /\ revenue > 0 => last
        /\ \/ source = "configured" /\ cost = Worst
           \/ bill > 0 /\ source = "invoiced" /\ cost = rows[i].bill
    BY <1>1, <1>4, <1>5, <1>6 DEF Sources
  <2> HIDE DEF cost, revenue, source, new
  <2>3. rows[i] \in Spending
    BY <1>4, <1>6
  <2>4. /\ new(i) \in Spending /\ new(i).job = rows[i].job /\ new(i).inside = rows[i].inside
        /\ new(i).bill = rows[i].bill /\ new(i).pending = 0
        /\ new(i).cost = cost /\ new(i).revenue = revenue /\ new(i).source = source
    BY <2>1, <2>2, <2>3 DEF Spending
  <2>5. QED BY <2>2, <2>4
<1>7. ASSUME NEW i \in DOMAIN rows, i \notin Old PROVE new(i) = rows[i] /\ new(i) \in Spending
  BY <1>1, <1>7, RowsAreFinite
<1> HIDE DEF new
<1>8. rows' \in Seq(Spending) /\ DOMAIN rows' = DOMAIN rows /\ \A i \in DOMAIN rows : rows'[i] = new(i)
  <2>1. \A i \in DOMAIN rows : rows'[i] = new(i) /\ rows'[i] \in Spending
    BY <1>2, <1>6, <1>7
  <2>2. rows' = [i \in DOMAIN rows |-> rows'[i]]
    BY <1>2
  <2>3. QED BY <1>1, <2>1, <2>2, RowsSeq
<1>9. ASSUME NEW i \in DOMAIN rows PROVE SettledRow(i, j, bill, earned)
  <2>1. CASE i \in Old
    BY <1>3, <1>4, <1>6, <1>8, <2>1 DEF SettledRow
  <2>2. CASE i \notin Old
    BY <1>7, <1>8, <2>2 DEF SettledRow
  <2>3. QED BY <2>1, <2>2
<1>10. QED BY <1>8, <1>9

\* The transaction that ends a job settles all that is open of it.
LEMMA SettleKeeps ==
  ASSUME BudgetFits, NEW j \in Jobs, NEW bill \in Bills \cup {0}, NEW earned \in {0, Price},
         bill > 0 => InHand(j) /\ rows[mine[j]].bill = bill /\ lock = "nobody",
         job[j] \in {"running", "failed"}, job'[j] \in {"succeeded", "failed"},
         job' = [job EXCEPT ![j] = job'[j]],
         job'[j] = "succeeded" => job[j] = "running",
         earned > 0 => job'[j] = "succeeded",
         rows' = Budget!Settled(j, bill, earned),
         Budget!Leave(j), UNCHANGED <<lock, seen>>
  PROVE  BudgetFits'
<1>1. /\ BudgetTyped /\ LastEarns /\ LossesAreSeen
      /\ \A i \in DOMAIN rows : BookingFits(i)
      /\ \A k \in Jobs : WorkerFits(k)
  BY DEF BudgetFits
<1>2. /\ rows \in Seq(Spending) /\ rows' \in Seq(Spending) /\ DOMAIN rows' = DOMAIN rows
      /\ \A i \in DOMAIN rows : SettledRow(i, j, bill, earned)
  BY <1>1, SettledRows DEF BudgetTyped
<1>3. /\ job' \in [Jobs -> {"queued", "running", "succeeded", "failed"}]
      /\ \A k \in Jobs : k # j => /\ job'[k] = job[k] /\ step'[k] = step[k]
                                  /\ mine'[k] = mine[k] /\ invoice'[k] = invoice[k]
      /\ step'[j] = "idle" /\ invoice'[j] = 0
      /\ step' \in [Jobs -> {"idle", "asking", "deciding", "submitting", "refused", "delivered",
                             "failed", "hopeless"}]
      /\ mine' \in [Jobs -> 0..MaxRows]
      /\ invoice' \in [Jobs -> Bills \cup {0}]
  BY <1>1, BudgetAssumption DEF BudgetTyped, Budget!Leave, Budget!Goto
<1>4. ASSUME NEW i \in DOMAIN rows
      PROVE  /\ rows[i].job \in Jobs /\ rows[i].revenue \in Nat /\ rows[i].cost \in Nat
             /\ rows'[i].revenue \in Nat /\ rows'[i].cost \in Nat
             /\ rows[i].source \in Sources
             /\ i \in Budget!OpenOf(j) <=> rows[i].job = j /\ rows[i].source = "reserved"
  BY <1>2, RowFields DEF Budget!OpenOf, Budget!Open
<1>5. BudgetTyped'
  <2>1. ASSUME NEW i \in DOMAIN rows
        PROVE  rows'[i].pending = IF rows'[i].source = "reserved" THEN Worst ELSE 0
    BY <1>1, <1>2 DEF SettledRow, BudgetTyped, Budget!Open
  <2>2. QED BY <1>1, <1>2, <1>3, <2>1 DEF BudgetTyped, Budget!Open
<1>6. ASSUME NEW i \in DOMAIN rows PROVE BookingFits(i)'
  <2>1. BookingFits(i) /\ SettledRow(i, j, bill, earned)
    BY <1>1, <1>2
  <2>2. CASE i \in Budget!OpenOf(j)
    <3>1. rows'[i].job = j
      BY <1>4, <2>1, <2>2 DEF SettledRow
    <3>2. QED BY <1>4, <2>1, <2>2, <3>1 DEF SettledRow, BookingFits
  <2>3. CASE i \notin Budget!OpenOf(j)
    <3>1. rows'[i] = rows[i]
      BY <2>1, <2>3 DEF SettledRow
    <3>2. CASE rows[i].job # j
      BY <1>3, <1>4, <2>1, <3>1, <3>2 DEF BookingFits
    <3>3. CASE rows[i].job = j
      BY <1>4, <2>1, <3>1, <3>3 DEF BookingFits
    <3>4. QED BY <3>2, <3>3
  <2>4. QED BY <2>2, <2>3
<1>7. ASSUME NEW k \in Jobs PROVE WorkerFits(k)'
  <2>1. CASE k = j
    BY <1>3, <2>1, IdleFits
  <2>2. CASE k # j
    <3>1. \A i \in DOMAIN rows : rows[i].job = k => rows'[i] = rows[i]
      BY <1>2, <1>4, <2>2 DEF SettledRow
    <3>2. \A i \in DOMAIN rows' : rows'[i].job = k => i \in DOMAIN rows /\ rows[i].job = k
      BY <1>2 DEF SettledRow
    <3>3. QED BY <1>1, <1>2, <1>3, <2>2, <3>1, <3>2, OthersWork
  <2>3. QED BY <2>1, <2>2
<1>8. LastEarns'
  <2> SUFFICES ASSUME NEW i \in DOMAIN rows, NEW k \in DOMAIN rows, i < k,
                      rows'[i].job = rows'[k].job, rows'[i].revenue > 0
               PROVE  rows'[k].source = "released"
    BY <1>2 DEF LastEarns
  <2>1. SettledRow(i, j, bill, earned) /\ SettledRow(k, j, bill, earned) /\ BookingFits(k)
        /\ rows[i].job = rows[k].job /\ i \in Nat /\ k \in Nat
    BY <1>1, <1>2, RowsAreFinite DEF SettledRow
  <2>2. CASE i \notin Budget!OpenOf(j)
    <3>1. rows[k].source = "released"
      BY <1>1, <2>1, <2>2 DEF LastEarns, SettledRow
    <3>2. QED BY <1>4, <2>1, <3>1 DEF SettledRow
  <2>3. CASE i \in Budget!OpenOf(j)
    <3>1. k \notin Budget!OpenOf(j) /\ rows[k].job = j /\ rows'[k] = rows[k]
      BY <1>4, <2>1, <2>3 DEF SettledRow
    <3>2. job[j] = "running"
      BY <2>1, <2>3 DEF SettledRow
    <3>3. QED BY <1>4, <2>1, <3>1, <3>2 DEF BookingFits, Sources
  <2>4. QED BY <2>2, <2>3
<1>9. LossesAreSeen'
  <2>1. CASE bill > 0
    BY <1>1, <1>2, <2>1, SeenStays
  <2>2. CASE ~(bill > 0)
    <3>1. ASSUME NEW i \in DOMAIN rows
          PROVE  /\ rows'[i].job = rows[i].job /\ rows'[i].inside = rows[i].inside
                 /\ rows'[i].cost <= rows[i].cost /\ rows'[i].revenue >= rows[i].revenue
      <4>1. SettledRow(i, j, bill, earned)
        BY <1>2
      <4>2. QED BY <1>4, <2>2, <4>1 DEF SettledRow
    <3>2. SpendOf(rows') <= SpendOf(rows)
      BY <1>2, <3>1, SpendFollowsRows
    <3>3. QED BY <1>1, <1>2, <3>2, SeenStays DEF BudgetTyped
  <2>3. QED BY <2>1, <2>2
<1>10. QED BY <1>2, <1>5, <1>6, <1>7, <1>8, <1>9 DEF BudgetFits

\* The other steps of a worker: about its job alone ...
OnlyAbout(j) ==
  \A k \in Jobs : k # j =>
    /\ job'[k] = job[k] /\ step'[k] = step[k] /\ mine'[k] = mine[k] /\ invoice'[k] = invoice[k]
    /\ step[k] = "deciding" /\ lock = k => lock' = k

\* ... and about no row.
LEMMA OneWorkerMoves ==
  ASSUME BudgetFits, NEW j \in Jobs, OnlyAbout(j), UNCHANGED rows, BudgetTyped',
         job'[j] = job[j] \/ (job[j] \in {"queued", "running"} /\ job'[j] \in {"queued", "running"}),
         WorkerFits(j)', LossesAreSeen'
  PROVE  BudgetFits'
<1>1. /\ BudgetTyped /\ LastEarns
      /\ \A i \in DOMAIN rows : BookingFits(i)
      /\ \A k \in Jobs : WorkerFits(k)
  BY DEF BudgetFits
<1>2. ASSUME NEW i \in DOMAIN rows PROVE BookingFits(i)'
  <2>1. BookingFits(i) /\ rows[i].job \in Jobs /\ rows[i].revenue \in Nat
    BY <1>1, RowFields DEF BudgetTyped
  <2>2. QED BY <2>1 DEF BookingFits, OnlyAbout
<1>3. ASSUME NEW k \in Jobs PROVE WorkerFits(k)'
  BY <1>1, OthersWork DEF OnlyAbout
<1>4. LastEarns'
  BY <1>1 DEF LastEarns
<1>5. QED BY <1>2, <1>3, <1>4 DEF BudgetFits

LEMMA RouteKeeps ==
  ASSUME BudgetFits, NEW j \in Jobs, Budget!Route(j)
  PROVE  BudgetFits'
<1>1. BudgetTyped /\ LossesAreSeen /\ WorkerFits(j)
  BY DEF BudgetFits
<1>2. BudgetTyped' /\ OnlyAbout(j)
  BY <1>1 DEF BudgetTyped, OnlyAbout, Budget!Route, Budget!Goto, Budget!Open
<1>3. invoice[j] = 0
  <2>1. invoice[j] \in Bills \cup {0}
    BY <1>1 DEF BudgetTyped
  <2>2. \A bill \in Bills : bill \in Nat
    BY BudgetAssumption
  <2>3. ~(invoice[j] > 0)
    BY <1>1 DEF WorkerFits, Budget!Route
  <2>4. QED BY <2>1, <2>2, <2>3
<1>4. WorkerFits(j)'
  BY <1>1, <1>3 DEF BudgetTyped, WorkerFits, Budget!Route, Budget!Goto
<1>5. LossesAreSeen'
  BY <1>1, SpendIs, SpendIsNext DEF LossesAreSeen, Budget!Route
<1>6. QED BY <1>2, <1>4, <1>5, OneWorkerMoves DEF Budget!Route

LEMMA ReadKeeps ==
  ASSUME BudgetFits, NEW j \in Jobs, Budget!ReadBudget(j)
  PROVE  BudgetFits'
<1>1. BudgetTyped /\ WorkerFits(j) /\ rows \in Seq(Spending)
  BY DEF BudgetFits, BudgetTyped
<1>2. Budget!Spend \in Nat
  BY <1>1, SpendIs, LossesAreNatural
<1>3. BudgetTyped' /\ OnlyAbout(j)
  BY <1>1, <1>2, BudgetAssumption
     DEF BudgetTyped, OnlyAbout, Budget!ReadBudget, Budget!Goto, Budget!Open, Budget!Nobody
<1>4. WorkerFits(j)'
  BY <1>1 DEF BudgetTyped, WorkerFits, Budget!ReadBudget, Budget!Goto, InHand, Budget!Open,
              Budget!OpenOf
<1>5. LossesAreSeen'
  BY <1>2, SpendIs, SpendIsNext DEF LossesAreSeen, Budget!ReadBudget
<1>6. QED BY <1>3, <1>4, <1>5, OneWorkerMoves DEF Budget!ReadBudget

LEMMA RetryKeeps ==
  ASSUME BudgetFits, NEW j \in Jobs, Budget!Retry(j)
  PROVE  BudgetFits'
<1>1. BudgetTyped /\ LossesAreSeen /\ WorkerFits(j)
  BY DEF BudgetFits
<1>2. BudgetTyped' /\ OnlyAbout(j)
  BY <1>1, BudgetAssumption
     DEF BudgetTyped, OnlyAbout, Budget!Retry, Budget!Leave, Budget!Goto, Budget!Open
<1>3. WorkerFits(j)'
  BY <1>1, IdleFits DEF BudgetTyped, Budget!Retry, Budget!Leave, Budget!Goto
<1>4. LossesAreSeen'
  BY <1>1, SpendIs, SpendIsNext DEF LossesAreSeen, Budget!Retry
<1>5. job'[j] = job[j] \/ (job[j] = "running" /\ job'[j] = "queued")
  BY <1>1 DEF BudgetTyped, Budget!Retry
<1>6. QED BY <1>2, <1>3, <1>4, <1>5, OneWorkerMoves DEF Budget!Retry

LEMMA CrashKeeps ==
  ASSUME BudgetFits, NEW j \in Jobs, Budget!Crash(j)
  PROVE  BudgetFits'
<1>1. BudgetTyped /\ LossesAreSeen /\ WorkerFits(j)
  BY DEF BudgetFits
<1>2. BudgetTyped' /\ OnlyAbout(j)
  BY <1>1, BudgetAssumption
     DEF BudgetTyped, OnlyAbout, Budget!Crash, Budget!Leave, Budget!Goto, Budget!Open,
              Budget!Nobody
<1>3. WorkerFits(j)'
  BY <1>1, IdleFits DEF BudgetTyped, Budget!Crash, Budget!Leave, Budget!Goto
<1>4. LossesAreSeen'
  BY <1>1, SpendIs, SpendIsNext DEF LossesAreSeen, Budget!Crash, Budget!Nobody
<1>5. QED BY <1>2, <1>3, <1>4, OneWorkerMoves DEF Budget!Crash

LEMMA FinishKeeps ==
  ASSUME BudgetFits, NEW j \in Jobs, Budget!Finish(j)
  PROVE  BudgetFits'
<1>1. BudgetTyped /\ WorkerFits(j) /\ step[j] = "delivered"
  BY DEF BudgetFits, Budget!Finish
<1>2. invoice[j] \in Bills \cup {0} /\ job[j] \in {"running", "failed"}
  BY <1>1 DEF BudgetTyped, WorkerFits
<1>3. invoice[j] > 0 => InHand(j) /\ rows[mine[j]].bill = invoice[j] /\ lock = "nobody"
  BY <1>1 DEF WorkerFits, Budget!Finish, Budget!Nobody
<1>4. CASE job[j] = "running"
  <2>1. job' = [job EXCEPT ![j] = "succeeded"] /\ rows' = Budget!Settled(j, invoice[j], Price)
        /\ job'[j] = "succeeded"
    BY <1>1, <1>4 DEF Budget!Finish, BudgetTyped
  <2>2. QED BY <1>2, <1>3, <1>4, <2>1, SettleKeeps DEF Budget!Finish
<1>5. CASE job[j] = "failed"
  <2>1. job' = [job EXCEPT ![j] = job'[j]] /\ job'[j] = "failed"
        /\ rows' = Budget!Settled(j, invoice[j], 0)
    BY <1>1, <1>5 DEF Budget!Finish, BudgetTyped
  <2>2. QED BY <1>2, <1>3, <1>5, <2>1, SettleKeeps DEF Budget!Finish
<1>6. QED BY <1>2, <1>4, <1>5

LEMMA FailKeeps ==
  ASSUME BudgetFits, NEW j \in Jobs, Budget!Fail(j)
  PROVE  BudgetFits'
<1>1. BudgetTyped /\ WorkerFits(j)
  BY DEF BudgetFits
<1>2. job[j] \in {"running", "failed"}
  BY <1>1 DEF BudgetTyped, WorkerFits, Budget!Fail
<1>3. job' = [job EXCEPT ![j] = job'[j]] /\ job'[j] = "failed" /\ rows' = Budget!Settled(j, 0, 0)
  BY <1>1 DEF Budget!Fail, BudgetTyped
<1>4. ~(0 > 0) /\ 0 \in Bills \cup {0} /\ 0 \in {0, Price}
  OBVIOUS
<1>5. Budget!Leave(j) /\ UNCHANGED <<lock, seen>>
  BY DEF Budget!Fail
<1>6. QED BY <1>2, <1>3, <1>4, <1>5, SettleKeeps

LEMMA SubmitKeeps ==
  ASSUME BudgetFits, NEW j \in Jobs, Budget!Submit(j)
  PROVE  BudgetFits'
<1> DEFINE m == mine[j]
<1>1. /\ BudgetTyped /\ LastEarns /\ LossesAreSeen /\ WorkerFits(j) /\ rows \in Seq(Spending)
      /\ \A i \in DOMAIN rows : BookingFits(i)
      /\ \A k \in Jobs : WorkerFits(k)
  BY DEF BudgetFits, BudgetTyped
<1>2. step[j] = "submitting" /\ InHand(j) /\ m \in DOMAIN rows /\ rows[m].job = j
      /\ rows[m].source \in {"reserved", "configured"} /\ invoice[j] \in Bills \cup {0}
  BY <1>1 DEF Budget!Submit, WorkerFits, InHand, BudgetTyped
<1>3. PICK bill \in Bills :
        /\ rows' = [rows EXCEPT ![m].bill = bill]
        /\ \/ Budget!Goto(j, "delivered")
              /\ \E told \in {0, bill} : invoice' = [invoice EXCEPT ![j] = told]
           \/ Budget!Goto(j, "failed") /\ UNCHANGED invoice
           \/ bill = 0 /\ Budget!Goto(j, "refused") /\ UNCHANGED invoice
  BY DEF Budget!Submit
<1>4. /\ rows' \in Seq(Spending) /\ DOMAIN rows' = DOMAIN rows
      /\ \A i \in DOMAIN rows : i # m => rows'[i] = rows[i]
      /\ rows'[m].bill = bill
      /\ \A i \in DOMAIN rows :
           /\ rows'[i].job = rows[i].job /\ rows'[i].source = rows[i].source
           /\ rows'[i].cost = rows[i].cost /\ rows'[i].pending = rows[i].pending
           /\ rows'[i].revenue = rows[i].revenue /\ rows'[i].inside = rows[i].inside
  <2> HIDE DEF m
  <2>1. rows[m] \in Spending /\ rows'[m] = [rows[m] EXCEPT !.bill = bill]
    BY <1>1, <1>2, <1>3, RowsAreFinite
  <2>2. /\ rows'[m] \in Spending /\ rows'[m].bill = bill
        /\ rows'[m].job = rows[m].job /\ rows'[m].source = rows[m].source
        /\ rows'[m].cost = rows[m].cost /\ rows'[m].pending = rows[m].pending
        /\ rows'[m].revenue = rows[m].revenue /\ rows'[m].inside = rows[m].inside
    BY <2>1 DEF Spending
  <2>3. DOMAIN rows' = DOMAIN rows /\ \A i \in DOMAIN rows : i # m => rows'[i] = rows[i]
    BY <1>2, <1>3
  <2>4. rows' = [i \in DOMAIN rows |-> rows'[i]]
    BY <1>3
  <2>5. \A i \in DOMAIN rows : rows'[i] \in Spending
    BY <1>1, <2>2, <2>3, RowsAreFinite
  <2>6. rows' \in Seq(Spending)
    BY <1>1, <2>4, <2>5, RowsSeq
  <2>7. QED BY <2>2, <2>3, <2>6
<1>5. /\ UNCHANGED <<job, mine, lock, seen>>
      /\ step' \in [Jobs -> {"idle", "asking", "deciding", "submitting", "refused", "delivered",
                             "failed", "hopeless"}]
      /\ \A k \in Jobs : k # j => step'[k] = step[k] /\ invoice'[k] = invoice[k]
      /\ step'[j] \in {"delivered", "failed", "refused"}
      /\ step'[j] = "refused" => bill = 0
  BY <1>1, <1>3 DEF Budget!Submit, Budget!Goto, BudgetTyped
<1>6. /\ invoice' \in [Jobs -> Bills \cup {0}]
      /\ invoice'[j] = 0 \/ invoice'[j] = invoice[j] \/ (step'[j] = "delivered" /\ invoice'[j] = bill)
  <2>1. invoice \in [Jobs -> Bills \cup {0}] /\ DOMAIN step = Jobs
    BY <1>1 DEF BudgetTyped
  <2>2. CASE UNCHANGED invoice
    BY <2>1, <2>2
  <2>3. ASSUME Budget!Goto(j, "delivered"), NEW told \in {0, bill},
               invoice' = [invoice EXCEPT ![j] = told]
        PROVE  /\ invoice' \in [Jobs -> Bills \cup {0}]
               /\ step'[j] = "delivered" /\ (invoice'[j] = 0 \/ invoice'[j] = bill)
    BY <2>1, <2>3 DEF Budget!Goto
  <2>4. QED BY <1>3, <2>2, <2>3
<1> HIDE DEF m
<1>7. BudgetTyped'
  <2>1. ASSUME NEW i \in DOMAIN rows
        PROVE  rows'[i].pending = IF rows'[i].source = "reserved" THEN Worst ELSE 0
    BY <1>1, <1>4 DEF BudgetTyped, Budget!Open
  <2>2. QED BY <1>1, <1>4, <1>5, <1>6, <2>1 DEF BudgetTyped, Budget!Open
<1>8. ASSUME NEW i \in DOMAIN rows PROVE BookingFits(i)'
  <2>1. BookingFits(i)
    BY <1>1
  <2>2. CASE i = m
    BY <1>2, <1>4, <1>5, <2>1, <2>2 DEF BookingFits
  <2>3. CASE i # m
    BY <1>4, <1>5, <2>1, <2>3 DEF BookingFits
  <2>4. QED BY <2>2, <2>3
<1>9. ASSUME NEW k \in Jobs PROVE WorkerFits(k)'
  <2>1. CASE k # j
    <3>1. /\ \A i \in DOMAIN rows : rows[i].job = k => rows'[i] = rows[i]
          /\ \A i \in DOMAIN rows' : rows'[i].job = k => i \in DOMAIN rows /\ rows[i].job = k
      BY <1>2, <1>4, <2>1
    <3>2. QED BY <1>1, <1>4, <1>5, <2>1, <3>1, OthersWork
  <2>2. CASE k = j
    <3>1. mine'[j] = m /\ m = mine[j]
      BY <1>5 DEF m
    <3>2. InHand(j)'
      BY <1>2, <1>4, <3>1 DEF InHand, Budget!OpenOf, Budget!Open
    <3>3. ~(invoice[j] > 0) /\ job'[j] \notin {"queued", "succeeded"}
      BY <1>1, <1>2, <1>5 DEF WorkerFits
    <3>4. invoice'[j] > 0 => step'[j] = "delivered" /\ invoice'[j] = bill
      BY <1>6, <3>3
    <3>5. rows'[m].job = j /\ rows'[m].bill = bill /\ m \in DOMAIN rows'
      BY <1>2, <1>4
    <3>6. WorkerFits(j)'
      BY <1>5, <3>1, <3>2, <3>3, <3>4, <3>5 DEF WorkerFits
    <3>7. QED BY <2>2, <3>6
  <2>3. QED BY <2>1, <2>2
<1>10. LastEarns'
  BY <1>1, <1>4 DEF LastEarns
<1>11. SpendOf(rows') <= SpendOf(rows)
  <2>1. ASSUME NEW i \in DOMAIN rows
        PROVE  rows'[i].cost <= rows[i].cost /\ rows'[i].revenue >= rows[i].revenue
    <3>1. rows[i].cost \in Nat /\ rows[i].revenue \in Nat
      BY <1>1, RowFields
    <3>2. QED BY <1>4, <3>1
  <2>2. QED BY <1>1, <1>4, <2>1, SpendFollowsRows
<1>12. LossesAreSeen'
  BY <1>1, <1>4, <1>5, <1>11, SeenStays DEF BudgetTyped
<1>13. QED BY <1>4, <1>7, <1>8, <1>9, <1>10, <1>12 DEF BudgetFits

LEMMA Released ==
  ASSUME NEW r \in Spending, NEW s,
         s = [r EXCEPT !.cost = 0, !.pending = 0, !.source = "released"]
  PROVE  /\ s \in Spending
         /\ s.job = r.job /\ s.inside = r.inside /\ s.bill = r.bill /\ s.revenue = r.revenue
         /\ s.source = "released" /\ s.cost = 0 /\ s.pending = 0
<1>1. "released" \in Sources
  BY DEF Sources
<1>2. QED BY <1>1 DEF Spending

LEMMA ReleaseKeeps ==
  ASSUME BudgetFits, NEW j \in Jobs, Budget!Release(j)
  PROVE  BudgetFits'
<1> DEFINE m == mine[j]
<1>1. /\ BudgetTyped /\ LastEarns /\ LossesAreSeen /\ WorkerFits(j) /\ rows \in Seq(Spending)
      /\ \A i \in DOMAIN rows : BookingFits(i)
      /\ \A k \in Jobs : WorkerFits(k)
  BY DEF BudgetFits, BudgetTyped
<1>2. step[j] = "refused" /\ m \in DOMAIN rows /\ rows[m].job = j /\ rows[m].bill = 0
      /\ job[j] \notin {"queued", "succeeded"} /\ ~(invoice[j] > 0)
  BY <1>1 DEF Budget!Release, WorkerFits
<1>3. /\ rows' = IF Budget!Open(m)
                 THEN [rows EXCEPT ![m].cost = @ - rows[m].pending, ![m].pending = 0,
                                   ![m].source = "released"]
                 ELSE rows
      /\ Budget!Goto(j, "failed") /\ UNCHANGED <<job, mine, invoice, lock, seen>>
  BY DEF Budget!Release
<1> HIDE DEF m
<1>4. /\ rows' \in Seq(Spending) /\ DOMAIN rows' = DOMAIN rows
      /\ \A i \in DOMAIN rows : i # m => rows'[i] = rows[i]
      /\ \/ rows'[m] = rows[m]
         \/ /\ rows[m].source = "reserved" /\ rows[m].revenue = 0 /\ rows[m].cost = Worst
            /\ rows'[m].job = j /\ rows'[m].inside = rows[m].inside /\ rows'[m].bill = 0
            /\ rows'[m].source = "released" /\ rows'[m].cost = 0 /\ rows'[m].pending = 0
            /\ rows'[m].revenue = 0
  <2>1. CASE ~Budget!Open(m)
    BY <1>1, <1>3, <2>1
  <2>2. CASE Budget!Open(m)
    <3>1. /\ rows[m] \in Spending /\ rows[m].source = "reserved" /\ rows[m].pending = Worst
          /\ rows[m].cost = Worst /\ rows[m].revenue = 0
      BY <1>1, <1>2, <2>2, RowsAreFinite DEF BudgetTyped, Budget!Open, BookingFits
    <3>2. rows[m].cost - rows[m].pending = 0
      BY <3>1, BudgetAssumption
    <3>3. rows'[m] = [rows[m] EXCEPT !.cost = 0, !.pending = 0, !.source = "released"]
      <4>1. rows'[m] = [rows[m] EXCEPT !.cost = rows[m].cost - rows[m].pending, !.pending = 0,
                                       !.source = "released"]
        BY <1>1, <1>2, <1>3, <2>2, <3>1 DEF Spending
      <4>2. QED BY <3>2, <4>1
    <3>4. /\ rows'[m] \in Spending
          /\ rows'[m].job = rows[m].job /\ rows'[m].inside = rows[m].inside
          /\ rows'[m].bill = rows[m].bill /\ rows'[m].source = "released"
          /\ rows'[m].cost = 0 /\ rows'[m].pending = 0 /\ rows'[m].revenue = rows[m].revenue
      <4>1. PICK r, s : r \in Spending /\ r = rows[m] /\ s = rows'[m]
        BY <3>1
      <4>2. r \in Spending /\ s = [r EXCEPT !.cost = 0, !.pending = 0, !.source = "released"]
        BY <3>3, <4>1
      <4>3. /\ s \in Spending
            /\ s.job = r.job /\ s.inside = r.inside /\ s.bill = r.bill /\ s.revenue = r.revenue
            /\ s.source = "released" /\ s.cost = 0 /\ s.pending = 0
        BY <4>2, Released
      <4>4. QED BY <4>1, <4>3
    <3>5. /\ DOMAIN rows' = DOMAIN rows /\ \A i \in DOMAIN rows : i # m => rows'[i] = rows[i]
          /\ rows' = [i \in DOMAIN rows |-> rows'[i]]
      BY <1>2, <1>3, <2>2
    <3>6. \A i \in DOMAIN rows : rows'[i] \in Spending
      BY <1>1, <3>4, <3>5, RowsAreFinite
    <3>7. rows' \in Seq(Spending)
      BY <1>1, <3>5, <3>6, RowsSeq
    <3>8. QED BY <1>2, <3>1, <3>4, <3>5, <3>7
  <2>3. QED BY <2>1, <2>2
<1>5. /\ step' \in [Jobs -> {"idle", "asking", "deciding", "submitting", "refused", "delivered",
                             "failed", "hopeless"}]
      /\ step'[j] = "failed" /\ \A k \in Jobs : k # j => step'[k] = step[k]
      /\ UNCHANGED <<job, mine, invoice, lock, seen>>
  BY <1>1, <1>3 DEF Budget!Goto, BudgetTyped
<1>6. BudgetTyped'
  <2>1. ASSUME NEW i \in DOMAIN rows
        PROVE  rows'[i].pending = IF rows'[i].source = "reserved" THEN Worst ELSE 0
    BY <1>1, <1>4 DEF BudgetTyped, Budget!Open
  <2>2. QED BY <1>1, <1>4, <1>5, <2>1 DEF BudgetTyped, Budget!Open
<1>7. ASSUME NEW i \in DOMAIN rows PROVE BookingFits(i)'
  <2>1. BookingFits(i)
    BY <1>1
  <2>2. CASE rows'[i] = rows[i]
    BY <1>5, <2>1, <2>2 DEF BookingFits
  <2>3. CASE rows'[i] # rows[i]
    BY <1>4, <1>5, <2>3 DEF BookingFits
  <2>4. QED BY <2>2, <2>3
<1>8. ASSUME NEW k \in Jobs PROVE WorkerFits(k)'
  <2>1. CASE k # j
    <3>1. /\ \A i \in DOMAIN rows : rows[i].job = k => rows'[i] = rows[i]
          /\ \A i \in DOMAIN rows' : rows'[i].job = k => i \in DOMAIN rows /\ rows[i].job = k
      BY <1>2, <1>4, <2>1
    <3>2. QED BY <1>1, <1>4, <1>5, <2>1, <3>1, OthersWork
  <2>2. CASE k = j
    BY <1>2, <1>5, <2>2 DEF WorkerFits
  <2>3. QED BY <2>1, <2>2
<1>9. LastEarns'
  <2> SUFFICES ASSUME NEW i \in DOMAIN rows, NEW k \in DOMAIN rows, i < k,
                      rows'[i].job = rows'[k].job, rows'[i].revenue > 0
               PROVE  rows'[k].source = "released"
    BY <1>4 DEF LastEarns
  <2>1. rows'[i] = rows[i] /\ rows'[k].job = rows[k].job
    BY <1>2, <1>4
  <2>2. rows[k].source = "released"
    BY <1>1, <2>1 DEF LastEarns
  <2>3. QED BY <1>4, <2>2
<1>10. SpendOf(rows') <= SpendOf(rows)
  <2>1. ASSUME NEW i \in DOMAIN rows
        PROVE  /\ rows'[i].job = rows[i].job /\ rows'[i].inside = rows[i].inside
               /\ rows'[i].cost <= rows[i].cost /\ rows'[i].revenue >= rows[i].revenue
    <3>1. rows[i].cost \in Nat /\ rows[i].revenue \in Nat /\ Worst \in Nat
      BY <1>1, RowFields, BudgetAssumption
    <3>2. QED BY <1>2, <1>4, <3>1
  <2>2. QED BY <1>1, <1>4, <2>1, SpendFollowsRows
<1>11. LossesAreSeen'
  BY <1>1, <1>4, <1>5, <1>10, SeenStays DEF BudgetTyped
<1>12. QED BY <1>4, <1>6, <1>7, <1>8, <1>9, <1>11 DEF BudgetFits

LEMMA Closed ==
  ASSUME NEW r \in Spending, NEW s, s = [r EXCEPT !.pending = 0, !.source = "configured"]
  PROVE  /\ s \in Spending
         /\ s.job = r.job /\ s.inside = r.inside /\ s.bill = r.bill /\ s.revenue = r.revenue
         /\ s.cost = r.cost /\ s.source = "configured" /\ s.pending = 0
<1>1. "configured" \in Sources
  BY DEF Sources
<1>2. QED BY <1>1 DEF Spending

LEMMA TickKeeps ==
  ASSUME BudgetFits, NEW reaped \in SUBSET Jobs, Budget!Tick(reaped)
  PROVE  BudgetFits'
<1> DEFINE Due(i) == rows[i].source = "reserved"
                     /\ (job[rows[i].job] \notin {"queued", "running"} \/ rows[i].job \in reaped)
<1>1. /\ BudgetTyped /\ LastEarns /\ LossesAreSeen /\ rows \in Seq(Spending)
      /\ \A i \in DOMAIN rows : BookingFits(i)
      /\ \A k \in Jobs : WorkerFits(k)
  BY DEF BudgetFits, BudgetTyped
<1>2. /\ \A k \in reaped : job[k] \in {"queued", "running"}
      /\ job' = [k \in Jobs |-> IF k \in reaped THEN "failed" ELSE job[k]]
      /\ rows' = [i \in DOMAIN rows |->
                    IF Due(i) THEN [rows[i] EXCEPT !.pending = 0, !.source = "configured"]
                    ELSE rows[i]]
      /\ UNCHANGED <<step, mine, invoice, lock, seen>>
  BY DEF Budget!Tick, Budget!Ended, Budget!Open
<1>3. ASSUME NEW i \in DOMAIN rows
      PROVE  /\ rows'[i] \in Spending
             /\ \/ rows'[i] = rows[i] /\ ~Due(i)
                \/ /\ Due(i) /\ rows'[i].source = "configured" /\ rows'[i].pending = 0
                   /\ rows'[i].job = rows[i].job /\ rows'[i].inside = rows[i].inside
                   /\ rows'[i].bill = rows[i].bill /\ rows'[i].revenue = rows[i].revenue
                   /\ rows'[i].cost = rows[i].cost
  <2>1. rows[i] \in Spending
    BY <1>1, RowsAreFinite
  <2>2. CASE Due(i)
    <3>1. PICK r, s : r \in Spending /\ r = rows[i] /\ s = rows'[i]
      BY <2>1
    <3>2. r \in Spending /\ s = [r EXCEPT !.pending = 0, !.source = "configured"]
      BY <1>2, <2>2, <3>1
    <3>3. /\ s \in Spending
          /\ s.job = r.job /\ s.inside = r.inside /\ s.bill = r.bill /\ s.revenue = r.revenue
          /\ s.cost = r.cost /\ s.source = "configured" /\ s.pending = 0
      BY <3>2, Closed
    <3>4. QED BY <2>2, <3>1, <3>3
  <2>3. CASE ~Due(i)
    BY <1>2, <2>1, <2>3
  <2>4. QED BY <2>2, <2>3
<1> HIDE DEF Due
<1>4. rows' \in Seq(Spending) /\ DOMAIN rows' = DOMAIN rows
  <2>1. rows' = [i \in DOMAIN rows |-> rows'[i]]
    BY <1>2
  <2>2. QED BY <1>1, <1>3, <2>1, RowsSeq
<1>5. ASSUME NEW k \in Jobs
      PROVE  /\ job'[k] \in {"queued", "running", "succeeded", "failed"}
             /\ k \in reaped => job[k] \in {"queued", "running"} /\ job'[k] = "failed"
             /\ k \notin reaped => job'[k] = job[k]
  BY <1>1, <1>2 DEF BudgetTyped
<1>6. BudgetTyped'
  <2>1. ASSUME NEW i \in DOMAIN rows
        PROVE  rows'[i].pending = IF rows'[i].source = "reserved" THEN Worst ELSE 0
    BY <1>1, <1>3 DEF BudgetTyped, Budget!Open
  <2>2. job' \in [Jobs -> {"queued", "running", "succeeded", "failed"}]
    BY <1>2, <1>5
  <2>3. QED BY <1>1, <1>2, <1>4, <2>1, <2>2 DEF BudgetTyped, Budget!Open
<1>7. ASSUME NEW i \in DOMAIN rows PROVE BookingFits(i)'
  <2>1. BookingFits(i) /\ rows[i].job \in Jobs /\ rows[i].revenue \in Nat
        /\ job[rows[i].job] \in {"queued", "running", "succeeded", "failed"}
    BY <1>1, RowFields DEF BudgetTyped
  <2>2. rows[i].job \in reaped \/ job'[rows[i].job] = job[rows[i].job]
    BY <1>5, <2>1
  <2>3. rows[i].job \in reaped => job[rows[i].job] \in {"queued", "running"} /\ job'[rows[i].job] = "failed"
    BY <1>5, <2>1
  <2>4. CASE rows'[i] = rows[i]
    BY <2>1, <2>2, <2>3, <2>4 DEF BookingFits
  <2>5. CASE rows'[i] # rows[i]
    <3>1. Due(i) /\ rows'[i].job = rows[i].job /\ rows'[i].source = "configured"
          /\ rows'[i].revenue = rows[i].revenue /\ rows'[i].cost = rows[i].cost
      BY <1>3, <2>5
    <3>2. rows[i].source = "reserved" /\ job'[rows[i].job] \in {"succeeded", "failed"}
      BY <2>1, <2>2, <2>3, <3>1 DEF Due
    <3>3. QED BY <2>1, <3>1, <3>2 DEF BookingFits
  <2>6. QED BY <2>4, <2>5
<1>8. ASSUME NEW k \in Jobs PROVE WorkerFits(k)'
  <2>1. WorkerFits(k) /\ job'[k] \in {"failed", job[k]}
    BY <1>1, <1>5
  <2>2. mine[k] \in DOMAIN rows /\ rows[mine[k]].job = k =>
          /\ mine'[k] \in DOMAIN rows' /\ rows'[mine'[k]].job = k
          /\ rows'[mine'[k]].bill = rows[mine[k]].bill
    <3>1. \A i \in DOMAIN rows : rows'[i].job = rows[i].job /\ rows'[i].bill = rows[i].bill
      BY <1>3
    <3>2. mine' = mine
      BY <1>2
    <3>3. QED BY <1>4, <3>1, <3>2
  <2>3. ASSUME InHand(k) PROVE InHand(k)'
    <3>1. mine[k] \in DOMAIN rows /\ rows[mine[k]].job = k
          /\ rows[mine[k]].source \in {"reserved", "configured"}
      BY <2>3 DEF InHand
    <3>2. rows'[mine'[k]].source \in {"reserved", "configured"}
      BY <1>2, <1>3, <3>1
    <3>3. ASSUME NEW i \in Budget!OpenOf(k)'
          PROVE  i <= mine'[k] /\ Budget!Open(mine[k])'
      <4>1. i \in DOMAIN rows /\ rows'[i].job = k /\ rows'[i].source = "reserved"
        BY <1>4 DEF Budget!OpenOf, Budget!Open
      <4>2. rows[i].job = k /\ rows[i].source = "reserved" /\ ~Due(i)
        BY <1>3, <4>1
      <4>3. i <= mine[k] /\ rows[mine[k]].source = "reserved"
        BY <2>3, <4>1, <4>2 DEF InHand, Budget!OpenOf, Budget!Open
      <4>4. ~Due(mine[k])
        BY <3>1, <4>2, <4>3 DEF Due
      <4>5. QED BY <1>2, <1>3, <3>1, <4>3, <4>4 DEF Budget!Open
    <3>4. QED BY <2>2, <3>1, <3>2, <3>3 DEF InHand
  <2>4. InHand(k) => mine[k] \in DOMAIN rows /\ rows[mine[k]].job = k
    BY DEF InHand
  <2>5. QED BY <1>2, <2>1, <2>2, <2>3, <2>4 DEF WorkerFits
<1>9. LastEarns'
  <2> SUFFICES ASSUME NEW i \in DOMAIN rows, NEW k \in DOMAIN rows, i < k,
                      rows'[i].job = rows'[k].job, rows'[i].revenue > 0
               PROVE  rows'[k].source = "released"
    BY <1>4 DEF LastEarns
  <2>1. rows[i].job = rows[k].job /\ rows[i].revenue > 0
    BY <1>3
  <2>2. rows[k].source = "released"
    BY <1>1, <2>1 DEF LastEarns
  <2>3. QED BY <1>3, <2>2 DEF Due
<1>10. SpendOf(rows') <= SpendOf(rows)
  <2>1. ASSUME NEW i \in DOMAIN rows
        PROVE  /\ rows'[i].job = rows[i].job /\ rows'[i].inside = rows[i].inside
               /\ rows'[i].cost <= rows[i].cost /\ rows'[i].revenue >= rows[i].revenue
    <3>1. rows[i].cost \in Nat /\ rows[i].revenue \in Nat
      BY <1>1, RowFields
    <3>2. QED BY <1>3, <3>1
  <2>2. QED BY <1>1, <1>4, <2>1, SpendFollowsRows
<1>11. LossesAreSeen'
  BY <1>1, <1>2, <1>4, <1>10, SeenStays DEF BudgetTyped
<1>12. QED BY <1>4, <1>6, <1>7, <1>8, <1>9, <1>11 DEF BudgetFits

LEMMA Aged ==
  ASSUME NEW r \in Spending, NEW s, s = [r EXCEPT !.inside = FALSE]
  PROVE  /\ s \in Spending
         /\ s.job = r.job /\ s.source = r.source /\ s.bill = r.bill /\ s.revenue = r.revenue
         /\ s.cost = r.cost /\ s.pending = r.pending
BY DEF Spending

LEMMA AgeKeeps ==
  ASSUME BudgetFits, NEW i, Budget!Age(i)
  PROVE  BudgetFits'
<1>1. /\ BudgetTyped /\ LastEarns /\ LossesAreSeen /\ rows \in Seq(Spending)
      /\ \A k \in DOMAIN rows : BookingFits(k)
      /\ \A k \in Jobs : WorkerFits(k)
  BY DEF BudgetFits, BudgetTyped
<1>2. /\ i \in DOMAIN rows /\ rows[i].inside
      /\ \A k \in 1..(i - 1) : ~rows[k].inside
      /\ rows' = [rows EXCEPT ![i].inside = FALSE]
      /\ UNCHANGED <<job, step, mine, invoice, lock, seen>>
  BY DEF Budget!Age
<1>3. ASSUME NEW k \in DOMAIN rows
      PROVE  /\ rows'[k] \in Spending
             /\ rows'[k].job = rows[k].job /\ rows'[k].source = rows[k].source
             /\ rows'[k].bill = rows[k].bill /\ rows'[k].revenue = rows[k].revenue
             /\ rows'[k].cost = rows[k].cost /\ rows'[k].pending = rows[k].pending
  <2>1. rows[k] \in Spending
    BY <1>1, RowsAreFinite
  <2>2. CASE k = i
    <3>1. PICK r, s : r \in Spending /\ r = rows[k] /\ s = rows'[k]
      BY <2>1
    <3>2. r \in Spending /\ s = [r EXCEPT !.inside = FALSE]
      BY <1>2, <2>2, <3>1
    <3>3. /\ s \in Spending
          /\ s.job = r.job /\ s.source = r.source /\ s.bill = r.bill /\ s.revenue = r.revenue
          /\ s.cost = r.cost /\ s.pending = r.pending
      BY <3>2, Aged
    <3>4. QED BY <3>1, <3>3
  <2>3. CASE k # i
    BY <1>2, <2>1, <2>3
  <2>4. QED BY <2>2, <2>3
<1>4. rows' \in Seq(Spending) /\ DOMAIN rows' = DOMAIN rows
  <2>1. rows' = [k \in DOMAIN rows |-> rows'[k]]
    BY <1>2
  <2>2. QED BY <1>1, <1>3, <2>1, RowsSeq
<1>5. BudgetTyped'
  <2>1. ASSUME NEW k \in DOMAIN rows
        PROVE  rows'[k].pending = IF rows'[k].source = "reserved" THEN Worst ELSE 0
    BY <1>1, <1>3 DEF BudgetTyped, Budget!Open
  <2>2. QED BY <1>1, <1>2, <1>4, <2>1 DEF BudgetTyped, Budget!Open
<1>6. ASSUME NEW k \in DOMAIN rows PROVE BookingFits(k)'
  <2>1. BookingFits(k)
    BY <1>1
  <2>2. QED BY <1>2, <1>3, <2>1 DEF BookingFits
<1>7. ASSUME NEW k \in Jobs PROVE WorkerFits(k)'
  <2>1. WorkerFits(k)
    BY <1>1
  <2>2. \A n \in DOMAIN rows : /\ rows'[n].job = rows[n].job /\ rows'[n].source = rows[n].source
                               /\ rows'[n].bill = rows[n].bill
    BY <1>3
  <2>3. InHand(k) => InHand(k)'
    BY <1>2, <1>4, <2>2 DEF InHand, Budget!OpenOf, Budget!Open
  <2>4. mine[k] \in DOMAIN rows /\ rows[mine[k]].job = k =>
          /\ mine'[k] \in DOMAIN rows' /\ rows'[mine'[k]].job = k
          /\ rows'[mine'[k]].bill = rows[mine[k]].bill
    BY <1>2, <1>4, <2>2
  <2>5. InHand(k) => mine[k] \in DOMAIN rows /\ rows[mine[k]].job = k
    BY DEF InHand
  <2>6. QED BY <1>2, <2>1, <2>3, <2>4, <2>5 DEF WorkerFits
<1>8. LastEarns'
  <2>1. \A k \in DOMAIN rows : /\ rows'[k].job = rows[k].job /\ rows'[k].source = rows[k].source
                               /\ rows'[k].revenue = rows[k].revenue
    BY <1>3
  <2>2. QED BY <1>1, <1>4, <2>1 DEF LastEarns
<1>9. SpendOf(rows') <= SpendOf(rows)
  <2>1. ASSUME rows[i].revenue > 0,
               NEW k \in DOMAIN rows, i < k, rows[k].job = rows[i].job
        PROVE  rows[k].cost = 0
    <3>1. rows[k].source = "released"
      BY <1>1, <1>2, <2>1 DEF LastEarns
    <3>2. QED BY <1>1, <3>1 DEF BookingFits
  <2>2. QED BY <1>1, <1>2, <1>4, <2>1, AgeingFrees
<1>10. LossesAreSeen'
  BY <1>1, <1>2, <1>4, <1>9, SeenStays DEF BudgetTyped
<1>11. QED BY <1>4, <1>5, <1>6, <1>7, <1>8, <1>10 DEF BudgetFits

LEMMA NewRow == ASSUME NEW j \in Jobs PROVE Budget!Row(j) \in Spending
<1>1. "reserved" \in Sources /\ Worst \in Nat
  BY BudgetAssumption DEF Sources
<1>2. QED BY <1>1 DEF Budget!Row, Spending

\* A booking: what had been read, and nothing that came in since, was decided upon.
LEMMA Booked ==
  ASSUME BudgetFits, NEW j \in Jobs, Budget!Book(j)
  PROVE  \/ UNCHANGED rows
         \/ rows' = Append(rows, Budget!Row(j)) /\ rows' \in Seq(Spending) /\ SpendOf(rows') < Cap
<1>1. SUFFICES ASSUME seen + Worst < Cap, rows' = Append(rows, Budget!Row(j))
               PROVE  rows' \in Seq(Spending) /\ SpendOf(rows') < Cap
  BY DEF Budget!Book
<1>2. rows \in Seq(Spending) /\ seen \in Nat /\ Budget!Spend <= seen
  <2>1. lock = j /\ BudgetTyped /\ LossesAreSeen
    BY DEF BudgetFits, WorkerFits, Budget!Book
  <2>2. QED BY <2>1, BudgetAssumption DEF BudgetTyped, LossesAreSeen
<1>3. rows' \in Seq(Spending)
  BY <1>1, <1>2, NewRow
<1>4. SpendOf(rows') <= SpendOf(rows) + Worst /\ SpendOf(rows') \in Nat /\ SpendOf(rows) \in Nat
  BY <1>1, <1>2, <1>3, BookingAdds, LossesAreNatural
<1>5. SpendOf(rows) <= seen /\ Worst \in Nat /\ Cap \in Nat
  BY <1>2, SpendIs, BudgetAssumption
<1>6. QED BY <1>1, <1>2, <1>3, <1>4, <1>5

LEMMA BookKeeps ==
  ASSUME BudgetFits, NEW j \in Jobs, Budget!Book(j)
  PROVE  BudgetFits'
<1>1. /\ BudgetTyped /\ LastEarns /\ LossesAreSeen /\ WorkerFits(j) /\ rows \in Seq(Spending)
      /\ \A i \in DOMAIN rows : BookingFits(i)
      /\ \A k \in Jobs : WorkerFits(k)
  BY DEF BudgetFits, BudgetTyped
<1>2. /\ step[j] = "deciding" /\ lock = j /\ ~(invoice[j] > 0)
      /\ job[j] \notin {"queued", "succeeded"}
      /\ lock' = "nobody" /\ seen' = 0 /\ UNCHANGED <<job, invoice>>
  BY <1>1 DEF WorkerFits, Budget!Book, Budget!Nobody
<1>3. LossesAreSeen'
  BY <1>2 DEF LossesAreSeen
<1>4. CASE Budget!Goto(j, "hopeless") /\ UNCHANGED <<rows, mine>>
  <2>1. BudgetTyped' /\ OnlyAbout(j)
    BY <1>1, <1>2, <1>4 DEF BudgetTyped, OnlyAbout, Budget!Goto, Budget!Open
  <2>2. WorkerFits(j)'
    BY <1>1, <1>2, <1>4 DEF WorkerFits, BudgetTyped, Budget!Goto
  <2>3. QED BY <1>2, <1>3, <1>4, <2>1, <2>2, OneWorkerMoves
<1>5. CASE /\ Len(rows) < MaxRows /\ rows' = Append(rows, Budget!Row(j))
           /\ mine' = [mine EXCEPT ![j] = Len(rows) + 1] /\ Budget!Goto(j, "submitting")
  <2> DEFINE n == Len(rows) + 1
  <2>1. rows' \in Seq(Spending)
    BY <1>1, <1>5, NewRow
  <2>2. /\ n \in 0..MaxRows /\ n \notin DOMAIN rows /\ DOMAIN rows' = DOMAIN rows \cup {n}
        /\ \A i \in DOMAIN rows : rows'[i] = rows[i] /\ i < n /\ i \in Nat
        /\ rows'[n] = Budget!Row(j)
    BY <1>1, <1>5, RowsAreFinite, BudgetAssumption
  <2>3. /\ rows'[n].job = j /\ rows'[n].source = "reserved" /\ rows'[n].cost = Worst
        /\ rows'[n].pending = Worst /\ rows'[n].revenue = 0
    BY <2>2 DEF Budget!Row
  <2>4. /\ step' = [step EXCEPT ![j] = "submitting"] /\ mine' = [mine EXCEPT ![j] = n]
    BY <1>5 DEF Budget!Goto
  <2> HIDE DEF n
  <2>5. BudgetTyped'
    <3>1. ASSUME NEW i \in DOMAIN rows'
          PROVE  rows'[i].pending = IF rows'[i].source = "reserved" THEN Worst ELSE 0
      BY <1>1, <2>2, <2>3 DEF BudgetTyped, Budget!Open
    <3>2. /\ step' \in [Jobs -> {"idle", "asking", "deciding", "submitting", "refused", "delivered",
                                 "failed", "hopeless"}]
          /\ mine' \in [Jobs -> 0..MaxRows]
      BY <1>1, <2>2, <2>4 DEF BudgetTyped
    <3>3. QED BY <1>1, <1>2, <2>1, <3>1, <3>2 DEF BudgetTyped, Budget!Open
  <2>6. ASSUME NEW i \in DOMAIN rows' PROVE BookingFits(i)'
    <3>1. CASE i = n
      BY <2>3, <3>1 DEF BookingFits
    <3>2. CASE i # n
      BY <1>1, <1>2, <2>2, <3>2 DEF BookingFits
    <3>3. QED BY <3>1, <3>2
  <2>7. ASSUME NEW k \in Jobs PROVE WorkerFits(k)'
    <3>1. CASE k # j
      <4>1. /\ step'[k] = step[k] /\ mine'[k] = mine[k]
            /\ \A i \in DOMAIN rows' : rows'[i].job = k => i \in DOMAIN rows /\ rows[i].job = k
        BY <1>1, <2>2, <2>3, <2>4, <3>1 DEF BudgetTyped
      <4>2. QED BY <1>1, <1>2, <2>2, <3>1, <4>1, OthersWork
    <3>2. CASE k = j
      <4>1. step'[j] = "submitting" /\ mine'[j] = n
        BY <1>1, <2>4 DEF BudgetTyped
      <4>2. ASSUME NEW i \in Budget!OpenOf(j)' PROVE i <= n
        <5>1. i \in DOMAIN rows \/ i = n
          BY <2>2 DEF Budget!OpenOf
        <5>2. n \in Nat
          BY <2>2, BudgetAssumption
        <5>3. QED BY <2>2, <5>1, <5>2
      <4>3. InHand(j)'
        BY <2>2, <2>3, <4>1, <4>2 DEF InHand, Budget!Open
      <4>4. QED BY <1>2, <3>2, <4>1, <4>3 DEF WorkerFits
    <3>3. QED BY <3>1, <3>2
  <2>8. LastEarns'
    <3> SUFFICES ASSUME NEW i \in DOMAIN rows', NEW k \in DOMAIN rows', i < k,
                        rows'[i].job = rows'[k].job, rows'[i].revenue > 0
                 PROVE  rows'[k].source = "released"
      BY DEF LastEarns
    <3>1. i \in DOMAIN rows /\ rows'[i] = rows[i]
      BY <2>2, <2>3
    <3>2. job[rows[i].job] = "succeeded"
      BY <1>1, <3>1 DEF BookingFits
    <3>3. k # n
      BY <1>2, <2>3, <3>1, <3>2
    <3>4. QED BY <1>1, <2>2, <3>1, <3>3 DEF LastEarns
  <2>9. QED BY <1>3, <2>5, <2>6, <2>7, <2>8 DEF BudgetFits
<1>6. QED BY <1>4, <1>5 DEF Budget!Book

LEMMA BudgetKeeps == BudgetFits /\ Budget!Next => BudgetFits'
<1> SUFFICES ASSUME BudgetFits, Budget!Next PROVE BudgetFits'
  OBVIOUS
<1>1. ASSUME NEW j \in Jobs, Budget!Work(j) PROVE BudgetFits'
  BY <1>1, RouteKeeps, ReadKeeps, BookKeeps, SubmitKeeps, ReleaseKeeps, FinishKeeps, RetryKeeps,
     FailKeeps, CrashKeeps DEF Budget!Work
<1>2. QED BY <1>1, TickKeeps, AgeKeeps DEF Budget!Next

LEMMA BudgetHolds == Spec => []BudgetFits
<1>1. Init => BudgetFits
  BY BudgetInit DEF Init
<1>2. BudgetFits /\ [Next]_vars => BudgetFits'
  BY BudgetKeeps, BudgetRests, StepsOfBudget
<1>3. QED BY <1>1, <1>2, PTL DEF Spec

\* Whatever an attempt cost stays in the budget up to what was booked for it, in
\* however many attempts a job was tried, settled by its worker or closed by the
\* reaper; and what a refunded customer had paid covers none of it.
THEOREM LossesStay == Spec => []LossesAreBooked
<1>1. BudgetFits => LossesAreBooked
  <2> SUFFICES ASSUME BudgetFits, NEW i \in DOMAIN rows
               PROVE  /\ rows[i].cost >= (IF rows[i].bill < Worst THEN rows[i].bill ELSE Worst)
                      /\ rows[i].revenue > 0 => job[rows[i].job] = "succeeded"
    BY DEF LossesAreBooked, Budget!LossesAreBooked
  <2>1. BookingFits(i) /\ rows[i].source \in Sources /\ rows[i].bill \in Nat /\ Worst \in Nat
    BY RowFields, BudgetAssumption DEF BudgetFits, BudgetTyped
  <2>2. QED BY <2>1 DEF BookingFits, Sources
<1>2. QED BY <1>1, BudgetHolds, PTL

\* An attempt goes out only if the window's losses, its own worst case and every
\* invoice among them, stay under the cap: whoever decides holds the lock, and
\* nothing that happens meanwhile adds to what it has read.
THEOREM LegStaysUnderItsCap == Spec => ApprovedUnderCap
<1>1. BudgetFits /\ [Next]_vars => [Len(rows') > Len(rows) => Budget!Spend' < Cap]_budgetVars
  <2> SUFFICES ASSUME BudgetFits, Budget!Next, Len(rows') > Len(rows)
               PROVE  Budget!Spend' < Cap
    BY StepsOfBudget
  <2>1. rows \in Seq(Spending) /\ Len(rows) \in Nat /\ DOMAIN rows = 1..Len(rows)
    BY RowsAreFinite DEF BudgetFits, BudgetTyped
  <2>2. ~(UNCHANGED rows)
    BY <2>1
  <2>3. ASSUME rows' \in Seq(Spending), DOMAIN rows' = DOMAIN rows PROVE FALSE
    BY <2>1, <2>3, RowsAreFinite
  <2>4. PICK j \in Jobs : Budget!Book(j)
    <3>1. BudgetFits'
      BY BudgetKeeps
    <3>2. rows' \in Seq(Spending)
      BY <3>1 DEF BudgetFits, BudgetTyped
    <3>3. DOMAIN rows' # DOMAIN rows
      BY <2>3, <3>2
    <3>4. ASSUME NEW j \in Jobs PROVE Budget!Work(j) => Budget!Book(j)
      BY <2>2, <3>3 DEF Budget!Work, Budget!Route, Budget!ReadBudget, Budget!Submit, Budget!Release,
                        Budget!Finish, Budget!Retry, Budget!Fail, Budget!Crash, Budget!Settled
    <3>5. ASSUME NEW reaped PROVE ~Budget!Tick(reaped)
      BY <3>3 DEF Budget!Tick
    <3>6. ASSUME NEW i PROVE ~Budget!Age(i)
      BY <3>3 DEF Budget!Age
    <3>7. QED BY <3>4, <3>5, <3>6 DEF Budget!Next
  <2>5. SpendOf(rows') < Cap
    BY <2>2, <2>4, Booked
  <2>6. QED BY <2>5, SpendIsNext
<1>2. QED BY <1>1, BudgetHolds, PTL DEF Spec, ApprovedUnderCap, Budget!ApprovedUnderCap, budgetVars, Budget!vars

-----------------------------------------------------------------------------
(***************************************************************************)
(* A studio render.  The claim is the only way to work, and takes the      *)
(* render out of the queue; success is reached by the one run that works,  *)
(* which stops.                                                            *)
(***************************************************************************)
RenderSteps == {"idle", "picked", "rendering", "rendered", "uploaded", "caught", "done"}
Busy == {"rendering", "rendered", "uploaded"}

\* The types, without the count of the items.
RenderTyped ==
  /\ status \in Terminal \cup {"queued", "running"}
  /\ file \in BOOLEAN /\ items \in Nat
  /\ run \in [Runs -> RenderSteps]

\* The claim leaves the queue, so that no second run passes it.
OneClaim ==
  /\ \A r \in Runs : run[r] \in Busy => status \notin {"queued", "succeeded"}
  /\ \A r, s \in Runs : run[r] \in Busy /\ run[s] \in Busy => r = s

\* What a run has uploaded stays until that run decides on it.
FileStays == \A r \in Runs : run[r] = "uploaded" => file

OneOutcome ==
  /\ items = (IF status = "succeeded" THEN 1 ELSE 0)
  /\ status = "succeeded" => file

RenderFits == RenderTyped /\ OneClaim /\ FileStays /\ OneOutcome

LEMMA RenderInit == Render!Init => RenderFits
<1> SUFFICES ASSUME Render!Init PROVE RenderFits
  OBVIOUS
<1>1. \A r \in Runs : run[r] = "idle"
  BY DEF Render!Init
<1>2. status = "queued" /\ file = FALSE /\ items = 0 /\ run \in [Runs -> RenderSteps]
  BY DEF Render!Init, RenderSteps
<1>3. RenderTyped
  BY <1>2 DEF RenderTyped
<1>4. OneClaim /\ FileStays /\ OneOutcome
  BY <1>1, <1>2 DEF OneClaim, FileStays, OneOutcome, Busy
<1>5. QED BY <1>3, <1>4 DEF RenderFits

LEMMA RenderKeepsTypes == RenderTyped /\ [Render!Next]_renderVars => RenderTyped'
<1> SUFFICES ASSUME RenderTyped, [Render!Next]_renderVars PROVE RenderTyped'
  OBVIOUS
<1> USE DEF RenderTyped, RenderSteps, Terminal, Render!Goto
<1>1. CASE Render!Cancel
  BY <1>1 DEF Render!Cancel
<1>2. CASE Render!Sweep
  BY <1>2 DEF Render!Sweep
<1>3. ASSUME NEW r \in Runs, Render!Run(r) PROVE RenderTyped'
  <2>1. CASE Render!Pick(r)
    BY <2>1 DEF Render!Pick
  <2>2. CASE Render!Claim(r)
    BY <2>2 DEF Render!Claim
  <2>3. CASE Render!Checkpoint(r)
    BY <2>3 DEF Render!Checkpoint
  <2>4. CASE Render!Upload(r)
    BY <2>4 DEF Render!Upload
  <2>5. CASE Render!Complete(r)
    <3>1. PICK after \in {"done", "caught"} : Render!Goto(r, after)
      BY <2>5 DEF Render!Complete
    <3>2. run' \in [Runs -> RenderSteps]
      BY <3>1
    <3>3. file' \in BOOLEAN
      <4>1. file' = file \/ file' = FALSE
        BY <2>5, Zenon DEF Render!Complete
      <4>2. QED BY <4>1
    <3>4. items' \in Nat /\ status' \in Terminal \cup {"queued", "running"}
      <4>1. \/ items' = items + 1 /\ status' = "succeeded"
            \/ items' = items /\ status' = status
        BY <2>5, Zenon DEF Render!Complete
      <4>2. QED BY <4>1
    <3>5. QED BY <3>2, <3>3, <3>4
  <2>6. CASE Render!Throw(r)
    BY <2>6 DEF Render!Throw
  <2>7. CASE Render!Catch(r)
    BY <2>7 DEF Render!Catch
  <2>8. CASE Render!Crash(r)
    BY <2>8 DEF Render!Crash
  <2>9. QED BY <1>3, <2>1, <2>2, <2>3, <2>4, <2>5, <2>6, <2>7, <2>8 DEF Render!Run
<1>4. CASE UNCHANGED renderVars
  BY <1>4 DEF renderVars
<1>5. QED BY <1>1, <1>2, <1>3, <1>4 DEF Render!Next

LEMMA RenderKeeps == RenderFits /\ [Render!Next]_renderVars => RenderFits'
<1> SUFFICES ASSUME RenderFits, [Render!Next]_renderVars PROVE RenderFits'
  OBVIOUS
<1>0. RenderTyped' /\ RenderTyped
  BY RenderKeepsTypes DEF RenderFits
<1>g. ASSUME NEW r \in Runs, NEW after, Render!Goto(r, after)
      PROVE \A s \in Runs : run'[s] = IF s = r THEN after ELSE run[s]
  BY <1>0, <1>g DEF Render!Goto, RenderTyped
<1> USE <1>0 DEF RenderFits, OneClaim, FileStays, OneOutcome, Busy
<1>1. CASE Render!Cancel
  BY <1>1 DEF Render!Cancel
<1>2. CASE Render!Sweep
  BY <1>2 DEF Render!Sweep
<1>3. ASSUME NEW r \in Runs, Render!Run(r) PROVE RenderFits'
  <2>1. CASE Render!Pick(r)
    BY <1>g, <2>1 DEF Render!Pick
  <2>2. CASE Render!Claim(r)
    <3>1. CASE status = "queued"
      BY <1>g, <2>2, <3>1 DEF Render!Claim
    <3>2. CASE status # "queued"
      BY <1>g, <2>2, <3>2 DEF Render!Claim
    <3>3. QED BY <3>1, <3>2
  <2>3. CASE Render!Checkpoint(r)
    BY <1>g, <2>3 DEF Render!Checkpoint
  <2>4. CASE Render!Upload(r)
    BY <1>g, <2>4 DEF Render!Upload
  <2>5. CASE Render!Complete(r)
    <3>1. /\ run[r] = "uploaded" /\ file
          /\ \A s \in Runs : run[s] \in Busy => s = r
          /\ \E after \in {"done", "caught"} : Render!Goto(r, after)
      BY <2>5 DEF Render!Complete
    <3>2. \A s \in Runs : run'[s] \notin Busy
      BY <1>g, <3>1
    <3>3. status # "succeeded" /\ items = 0
      BY <3>1
    <3>4. CASE status' = "succeeded" /\ items' = items + 1 /\ file' = file
      BY <3>1, <3>2, <3>3, <3>4
    <3>5. CASE status' = status /\ items' = items
      BY <3>2, <3>3, <3>5
    <3>6. QED BY <2>5, <3>4, <3>5, Zenon DEF Render!Complete
  <2>6. CASE Render!Throw(r)
    BY <1>g, <2>6 DEF Render!Throw
  <2>7. CASE Render!Catch(r)
    BY <1>g, <2>7 DEF Render!Catch
  <2>8. CASE Render!Crash(r)
    BY <1>g, <2>8 DEF Render!Crash
  <2>9. QED BY <1>3, <2>1, <2>2, <2>3, <2>4, <2>5, <2>6, <2>7, <2>8 DEF Render!Run
<1>4. CASE UNCHANGED renderVars
  BY <1>4 DEF renderVars, RenderTyped
<1>5. QED BY <1>1, <1>2, <1>3, <1>4 DEF Render!Next

LEMMA EndIsFinal ==
  RenderFits /\ [Render!Next]_renderVars => ((status \in Terminal) => status' = status)
<1> SUFFICES ASSUME RenderFits, [Render!Next]_renderVars, status \in Terminal PROVE status' = status
  OBVIOUS
<1>1. ASSUME NEW r \in Runs, Render!Run(r) PROVE status' = status
  BY <1>1 DEF Render!Run, Render!Pick, Render!Claim, Render!Checkpoint, Render!Upload,
              Render!Complete, Render!Throw, Render!Catch, Render!Crash, Terminal
<1>2. QED BY <1>1 DEF Render!Next, Render!Cancel, Render!Sweep, renderVars, Terminal


LEMMA RenderHolds == Spec => []RenderFits
<1>1. RenderFits /\ [Next]_vars => RenderFits'
  BY RenderKeeps, StepsOfRender
<1>2. QED BY <1>1, RenderInit, PTL DEF Spec, Init

\* What the owner, the reaper or the first completion decided stands, and exactly
\* a render that succeeded has an item, with its file, however many deliveries of
\* its message overlap, fail and crash.
THEOREM OneOutcomeStands == Spec => RenderOutcomeStands
<1>1. RenderFits => OneOutcome
  BY DEF RenderFits
<1>2. RenderFits /\ [Next]_vars => [(status \in Terminal) => status' = status]_status
  BY EndIsFinal, StepsOfRender
<1>3. QED BY RenderHolds, <1>1, <1>2, PTL DEF Spec, RenderOutcomeStands, OneOutcome

-----------------------------------------------------------------------------
(***************************************************************************)
(* The board's and the guest's work have no fairness of their own, and a   *)
(* behaviour of the whole is one of each; so what is proved of them holds  *)
(* here.                                                                   *)
(***************************************************************************)
Boards == INSTANCE BoardAutosaveProofs

Guest == INSTANCE GuestWorkProofs

LEMMA TheBoards ==
  /\ Board!Init <=> Boards!Init
  /\ Board!Next <=> Boards!Next
  /\ Board!TypeOK <=> Boards!TypeOK
<1> USE DEF Board!server, Board!engine, Boards!server, Boards!engine
<1>1. Board!Init <=> Boards!Init
  BY DEF Board!Init, Boards!Init
<1>2. Board!TypeOK <=> Boards!TypeOK
  BY DEF Board!TypeOK, Boards!TypeOK, Board!Request, Boards!Request
<1>3. ASSUME NEW t PROVE Board!Leave(t) <=> Boards!Leave(t)
  BY DEF Board!Leave, Boards!Leave
<1>4. ASSUME NEW t PROVE Board!Start(t) <=> Boards!Start(t)
  BY DEF Board!Start, Boards!Start
<1>5. ASSUME NEW put PROVE Board!Put(put) <=> Boards!Put(put)
  BY DEF Board!Put, Boards!Put
<1>6. ASSUME NEW t \in Tabs PROVE Board!Tab(t) <=> Boards!Tab(t)
  <2>1. Board!Open(t) <=> Boards!Open(t)
    BY Zenon DEF Board!Open, Boards!Open
  <2>2. ASSUME NEW e PROVE Board!Edit(t, e) <=> Boards!Edit(t, e)
    BY Zenon DEF Board!Edit, Boards!Edit, Board!Made, Boards!Made
  <2>3. Board!Save(t) <=> Boards!Save(t)
    BY <1>4, Zenon DEF Board!Save, Boards!Save
  <2>4. Board!Serve(t) <=> Boards!Serve(t)
    BY <1>5, Zenon DEF Board!Serve, Boards!Serve
  <2>5. Board!Saved(t) <=> Boards!Saved(t)
    BY <1>4, Zenon DEF Board!Saved, Boards!Saved
  <2>6. Board!Conflict(t) <=> Boards!Conflict(t)
    BY Zenon DEF Board!Conflict, Boards!Conflict
  <2>7. Board!Failed(t) <=> Boards!Failed(t)
    BY <1>4, Zenon DEF Board!Failed, Boards!Failed
  <2>8. Board!Hide(t) <=> Boards!Hide(t)
    BY Zenon DEF Board!Hide, Boards!Hide, Board!Unsaved, Boards!Unsaved, Board!Beacon, Boards!Beacon
  <2>9. Board!Close(t) <=> Boards!Close(t)
    BY <1>3, Zenon DEF Board!Close, Boards!Close, Board!Unsaved, Boards!Unsaved, Board!Beacon, Boards!Beacon, Board!Orphan, Boards!Orphan
  <2>10. Board!Die(t) <=> Boards!Die(t)
    BY <1>3, Zenon DEF Board!Die, Boards!Die, Board!Orphan, Boards!Orphan
  <2>11. Board!Yield(t) <=> Boards!Yield(t)
    BY <1>3, Zenon DEF Board!Yield, Boards!Yield
  <2>12. Board!Overwrite(t) <=> Boards!Overwrite(t)
    BY <1>3, Zenon DEF Board!Overwrite, Boards!Overwrite
  <2>13. QED
    BY <2>1, <2>2, <2>3, <2>4, <2>5, <2>6, <2>7, <2>8, <2>9, <2>10, <2>11, <2>12, Zenon DEF Board!Tab, Boards!Tab
<1>7. Board!Reset <=> Boards!Reset
  BY DEF Board!Reset, Boards!Reset
<1>8. ASSUME NEW put PROVE Board!Arrive(put) <=> Boards!Arrive(put)
  BY <1>5 DEF Board!Arrive, Boards!Arrive
<1>9. Board!Next <=> Boards!Next
  BY <1>6, <1>7, <1>8, Zenon DEF Board!Next, Boards!Next
<1>10. QED BY <1>1, <1>2, <1>9

LEMMA TheGuests ==
  /\ Guests!Init <=> Guest!Init
  /\ Guests!Next <=> Guest!Next
  /\ Guests!TypeOK <=> Guest!TypeOK
<1> USE DEF Guests!accounts, Guest!accounts, Guests!storage, Guest!storage
<1>1. /\ Guests!Resting = Guest!Resting /\ Guests!Objects = Guest!Objects
      /\ Guests!Ids = Guest!Ids
  BY DEF Guests!Resting, Guest!Resting, Guests!Objects, Guest!Objects, Guests!Ids, Guest!Ids
<1>2. Guests!Init <=> Guest!Init
  BY <1>1, Zenon DEF Guests!Init, Guest!Init
<1>3. Guests!TypeOK <=> Guest!TypeOK
  BY <1>1, Zenon DEF Guests!TypeOK, Guest!TypeOK
<1>4. ASSUME NEW i
      PROVE  /\ Guests!LookedAt(i) <=> Guest!LookedAt(i)
             /\ Guests!Open(i) <=> Guest!Open(i)
  BY Zenon DEF Guests!LookedAt, Guest!LookedAt, Guests!Open, Guest!Open, Guests!Under, Guest!Under
<1>5. ASSUME NEW i
      PROVE  (Guests!ReapStale(i) <=> Guest!ReapStale(i)) /\ (Guests!ReapOrphan(i) <=> Guest!ReapOrphan(i))
  BY <1>4, Zenon
  DEF Guests!ReapStale, Guest!ReapStale, Guests!ReapOrphan, Guest!ReapOrphan,
      Guests!Abandoned, Guest!Abandoned, Guests!Orphaned, Guest!Orphaned
<1>6. ASSUME NEW i
      PROVE  /\ Guests!Arrive(i) <=> Guest!Arrive(i)
             /\ Guests!EnsureUserRows(i) <=> Guest!EnsureUserRows(i)
             /\ Guests!Erase(i) <=> Guest!Erase(i)
  BY Zenon DEF Guests!Arrive, Guest!Arrive, Guests!EnsureUserRows, Guest!EnsureUserRows,
               Guests!Erase, Guest!Erase
<1>7. ASSUME NEW i, NEW w PROVE Guests!Make(i, w) <=> Guest!Make(i, w)
  BY Zenon DEF Guests!Make, Guest!Make
<1>8. ASSUME NEW o
      PROVE  /\ Guests!Upload(o) <=> Guest!Upload(o)
             /\ Guests!Store(o) <=> Guest!Store(o)
             /\ Guests!Save(o) <=> Guest!Save(o)
  BY Zenon DEF Guests!Upload, Guest!Upload, Guests!Store, Guest!Store, Guests!Save, Guest!Save
<1>9. /\ Guests!Link <=> Guest!Link
      /\ Guests!Move <=> Guest!Move
      /\ Guests!MoveFails <=> Guest!MoveFails
      /\ Guests!DropGuest <=> Guest!DropGuest
      /\ Guests!Age <=> Guest!Age
  BY Zenon DEF Guests!Link, Guest!Link, Guests!Move, Guest!Move, Guests!MoveFails, Guest!MoveFails,
               Guests!DropGuest, Guest!DropGuest, Guests!Age, Guest!Age
<1>10. /\ Guests!Tick <=> Guest!Tick
       /\ Guests!ReadApps <=> Guest!ReadApps
       /\ Guests!ReadUsers <=> Guest!ReadUsers
       /\ Guests!Compare <=> Guest!Compare
       /\ Guests!Rest <=> Guest!Rest
  BY <1>1, Zenon DEF Guests!Tick, Guest!Tick, Guests!ReadApps, Guest!ReadApps,
                     Guests!ReadUsers, Guest!ReadUsers, Guests!Compare, Guest!Compare,
                     Guests!Rest, Guest!Rest
<1>11. (Guests!Sweep <=> Guest!Sweep) /\ (Guests!Commit <=> Guest!Commit)
  BY <1>4, Zenon DEF Guests!Sweep, Guest!Sweep, Guests!Commit, Guest!Commit,
                     Guests!DeleteRows, Guest!DeleteRows
<1>12. Guests!Next <=> Guest!Next
  BY <1>1, <1>5, <1>6, <1>7, <1>8, <1>9, <1>10, <1>11, Zenon DEF Guests!Next, Guest!Next
<1>13. QED BY <1>2, <1>3, <1>12

LEMMA BoardsRun == Spec => Boards!Spec
<1>1. Init => Boards!Init
  BY TheBoards DEF Init
<1>2. [Next]_vars => [Boards!Next]_(Boards!vars)
  BY StepsOfBoard, TheBoards DEF boardVars, Boards!vars
<1>3. QED BY <1>1, <1>2, PTL DEF Spec, Boards!Spec

LEMMA GuestsRun == Spec => Guest!Spec
<1>1. Init => Guest!Init
  BY TheGuests DEF Init
<1>2. [Next]_vars => [Guest!Next]_(Guest!vars)
  BY StepsOfGuests, TheGuests DEF guestsVars, Guest!vars
<1>3. QED BY <1>1, <1>2, PTL DEF Spec, Guest!Spec

\* Rows, workers, renders, tabs, accounts and the reaper are well typed in every
\* reachable state, for every instance; a booking is in flight just as long as its
\* row is open, and no render has two items, which takes each part's invariant.
THEOREM WorkIsTyped == Spec => []TypesOK
<1>1. ClaimsFit => Claims!TypeOK
  BY DEF ClaimsFit
<1>2. BudgetFits => Budget!TypeOK
  <2> SUFFICES ASSUME BudgetFits PROVE Budget!TypeOK
    OBVIOUS
  <2>1. BudgetTyped /\ rows \in Seq(Spending) /\ DOMAIN rows = 1..Len(rows) /\ Len(rows) \in Nat
    BY RowsAreFinite DEF BudgetFits, BudgetTyped
  <2> DEFINE R == [job : Jobs, source : {"reserved", "invoiced", "configured", "released"},
                   cost : Int, pending : {0, Worst}, revenue : {0, Price},
                   bill : Bills \cup {0}, inside : BOOLEAN]
  <2>2. rows \in Seq(R)
    <3>1. ASSUME NEW r \in Spending PROVE r \in R
      BY DEF Spending, Sources
    <3>2. \A i \in 1..Len(rows) : rows[i] \in R
      BY <2>1, <3>1
    <3> HIDE DEF R
    <3>3. rows = [i \in 1..Len(rows) |-> rows[i]]
      BY <2>1
    <3>4. rows \in [1..Len(rows) -> R]
      BY <3>2, <3>3
    <3>5. QED BY <2>1, <3>4
  <2>3. ASSUME NEW i \in DOMAIN rows
        PROVE  rows[i].cost >= 0 /\ (rows[i].pending > 0 <=> Budget!Open(i))
    <3>1. rows[i].cost \in Nat /\ Worst \in Nat /\ Worst > 0
          /\ rows[i].pending = IF Budget!Open(i) THEN Worst ELSE 0
      BY <2>1, RowFields, BudgetAssumption DEF BudgetTyped
    <3>2. QED BY <3>1
  <2>4. QED BY <2>1, <2>2, <2>3 DEF BudgetTyped, Budget!TypeOK, Budget!Nobody
<1>3. RenderFits => Render!TypeOK
  BY DEF RenderFits, RenderTyped, OneOutcome, RenderSteps, Render!TypeOK, Terminal, Render!Terminal
<1>4. Spec => []Boards!TypeOK
  BY BoardsRun, Boards!TypeCorrect, RevisionAssumption, PTL
<1>5. Spec => []Guest!TypeOK
  BY GuestsRun, Guest!TypeCorrect, PTL
<1>6. Boards!TypeOK => Board!TypeOK
  BY TheBoards
<1>7. Guest!TypeOK => Guests!TypeOK
  BY TheGuests
<1>8. QED BY ClaimsHold, BudgetHolds, RenderHolds, <1>1, <1>2, <1>3, <1>4, <1>5, <1>6, <1>7, PTL
          DEF TypesOK

\* The board's promise and the reaper's, of a whole behaviour: no save replaces
\* edits that its tab has never seen ...
THEOREM EditsStay == Spec => NothingSavedIsLost
<1>1. Boards!NothingSavedIsLost <=> NothingSavedIsLost
  BY DEF Boards!NothingSavedIsLost, NothingSavedIsLost
<1>2. QED BY BoardsRun, Boards!SavedEditsStay, RevisionAssumption, <1>1, PTL

\* ... and nobody but a guest loses work to the reaper, nor does anything that one
\* of its sweeps has listed outlive the rows that point to it.
THEOREM GuestsAreReaped == Spec => ReapedInOrder
<1>1. Guest!ReapedInOrder <=> ReapedInOrder
  BY DEF Guest!ReapedInOrder, ReapedInOrder, Guest!OnlyGuestsAreReaped, OnlyGuestsAreReaped,
         Guest!Ids, Ids
<1>2. QED BY GuestsRun, Guest!ReapingIsSound, <1>1, PTL
=============================================================================
