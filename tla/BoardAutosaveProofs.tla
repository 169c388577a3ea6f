-------------------------- MODULE BoardAutosaveProofs --------------------------
(***************************************************************************)
(* No save replaces edits that its tab has never seen: for every number of *)
(* tabs, edits and revisions, conflicts, lost answers, requests sent again *)
(* and tabs that die.                                                      *)
(***************************************************************************)
EXTENDS BoardAutosave, Integers, TLAPS

Documents == SUBSET Edits
Revisions == 0..MaxRev
Saves == [doc : Documents, rev : Revisions, answer : {"none", "saved", "conflict"}]
Clashes == [by : Tabs, doc : Documents, rev : Revisions]

\* TypeOK, with the functions that may be None.
Types ==
  /\ rev \in Revisions /\ doc \in Documents /\ given \in Documents
  /\ open \in SUBSET Tabs /\ beacons \in SUBSET Request
  /\ here \in [Tabs -> Documents] /\ base \in [Tabs -> Revisions]
  /\ localDirty \in [Tabs -> BOOLEAN] /\ dirty \in [Tabs -> BOOLEAN]
  /\ timer \in [Tabs -> BOOLEAN]
  /\ saving \in [Tabs -> Saves \cup {None}]
  /\ blocked \in [Tabs -> Clashes \cup {None}]
  /\ stored \in [Tabs -> Documents \cup {None}]

(***************************************************************************)
(* A document that goes by revision r is no newer than the board (v, o),   *)
(* and if it goes by the board's own, it has all that the board has but    *)
(* for what was given up (g).                                              *)
(***************************************************************************)
Sees(d, r, v, o, g) == r <= v /\ (r = v => o \subseteq d \cup g)

\* The tab, its save and the requests nobody waits for.
TabSees(t) == Sees(here[t], base[t], rev, doc, given)
SaveSees(t) == Sees(saving[t].doc, saving[t].rev, rev, doc, given)

AllSee ==
  /\ \A t \in open : TabSees(t)
  /\ \A t \in Tabs : saving[t] # None /\ saving[t].answer # "conflict" => SaveSees(t)
  /\ \A put \in beacons : Sees(put.doc, put.rev, rev, doc, given)

\* A save carries nothing that has left its tab since; a closed tab has none.
SavesAreOfTheTab ==
  /\ \A t \in Tabs : saving[t] # None => saving[t].doc \subseteq here[t]
  /\ \A t \in Tabs : t \notin open => saving[t] = None

BInv == Types /\ AllSee /\ SavesAreOfTheTab

-----------------------------------------------------------------------------
LEMMA InitBInv == ASSUME MaxRev \in Nat PROVE Init => BInv
<1> SUFFICES ASSUME Init PROVE BInv
  OBVIOUS
<1>1. Types
  BY DEF Init, Types, Documents, Revisions
<1>2. \A t \in Tabs : saving[t] = None
  BY DEF Init
<1>3. QED BY <1>1, <1>2 DEF Init, BInv, AllSee, SavesAreOfTheTab

\* What the server does with a request keeps the types.
LEMMA PutTypes ==
  ASSUME MaxRev \in Nat, rev \in Revisions, doc \in Documents,
         NEW put, put.doc \in Documents, Put(put) \/ UNCHANGED server
  PROVE  rev' \in Revisions /\ doc' \in Documents
BY DEF Put, server, Revisions, Documents

LEMMA LeaveTypes ==
  ASSUME MaxRev \in Nat, Types, NEW t \in Tabs, Leave(t)
  PROVE  /\ open' \in SUBSET Tabs
         /\ here' \in [Tabs -> Documents] /\ base' \in [Tabs -> Revisions]
         /\ localDirty' \in [Tabs -> BOOLEAN] /\ dirty' \in [Tabs -> BOOLEAN]
         /\ timer' \in [Tabs -> BOOLEAN]
         /\ saving' \in [Tabs -> Saves \cup {None}]
         /\ blocked' \in [Tabs -> Clashes \cup {None}]
BY DEF Types, Leave, Documents, Revisions

LEMMA StartTypes ==
  ASSUME Types, NEW t \in Tabs, Start(t), base' \in [Tabs -> Revisions]
  PROVE  /\ localDirty' \in [Tabs -> BOOLEAN]
         /\ stored' \in [Tabs -> Documents \cup {None}]
         /\ saving' \in [Tabs -> Saves \cup {None}]
<1>1. [doc |-> here[t], rev |-> base'[t], answer |-> "none"] \in Saves
  BY DEF Types, Saves
<1>2. QED BY <1>1 DEF Types, Start

LEMMA RequestTypes ==
  ASSUME Types, NEW t \in Tabs
  PROVE  Beacon(t) \in SUBSET Request /\ Orphan(t) \in SUBSET Request
<1>1. Beacon(t) \in SUBSET Request
  BY DEF Types, Beacon, Request, Documents, Revisions
<1>2. CASE saving[t] # None
  <2>1. saving[t] \in Saves
    BY <1>2 DEF Types
  <2>2. [doc |-> saving[t].doc, rev |-> saving[t].rev] \in Request
    BY <2>1 DEF Saves, Request, Documents, Revisions
  <2>3. QED BY <1>1, <2>2 DEF Orphan
<1>3. CASE saving[t] = None
  BY <1>1, <1>3 DEF Orphan
<1>4. QED BY <1>2, <1>3

LEMMA OpenTypes == ASSUME Types, NEW t \in Tabs, Open(t) PROVE Types'
<1>1. /\ open' \in SUBSET Tabs
      /\ here' \in [Tabs -> Documents] /\ base' \in [Tabs -> Revisions]
  BY DEF Types, Open
<1>2. /\ blocked' \in [Tabs -> Clashes \cup {None}]
      /\ localDirty' \in [Tabs -> BOOLEAN]
      /\ stored' \in [Tabs -> Documents \cup {None}]
  <2>1. CASE UNCHANGED <<blocked, localDirty, stored>>
    BY <2>1 DEF Types
  <2>2. ASSUME NEW u \in Tabs, stored[u] # None, NEW clash, clash = (stored[u] # doc),
               blocked' = [blocked EXCEPT ![t] =
                             IF clash THEN [by |-> u, doc |-> stored[u], rev |-> rev] ELSE None],
               localDirty' = [localDirty EXCEPT ![t] = clash],
               stored' = IF clash THEN stored ELSE [stored EXCEPT ![u] = None]
        PROVE  /\ blocked' \in [Tabs -> Clashes \cup {None}]
               /\ localDirty' \in [Tabs -> BOOLEAN]
               /\ stored' \in [Tabs -> Documents \cup {None}]
    <3>1. [by |-> u, doc |-> stored[u], rev |-> rev] \in Clashes
      BY <2>2 DEF Types, Clashes
    <3>2. clash \in BOOLEAN
      BY <2>2
    <3>3. QED BY <2>2, <3>1, <3>2 DEF Types
  <2>3. \/ UNCHANGED <<blocked, localDirty, stored>>
        \/ \E u \in Tabs :
             /\ stored[u] # None
             /\ blocked' = [blocked EXCEPT ![t] =
                  IF stored[u] # doc THEN [by |-> u, doc |-> stored[u], rev |-> rev] ELSE None]
             /\ localDirty' = [localDirty EXCEPT ![t] = (stored[u] # doc)]
             /\ stored' = IF stored[u] # doc THEN stored ELSE [stored EXCEPT ![u] = None]
    BY Zenon DEF Open
  <2>4. QED BY <2>1, <2>2, <2>3
<1>3. QED BY <1>1, <1>2 DEF Types, Open, server

LEMMA NextTypes == ASSUME MaxRev \in Nat PROVE Types /\ [Next]_vars => Types'
<1> SUFFICES ASSUME Types, [Next]_vars PROVE Types'
  OBVIOUS
<1>1. ASSUME NEW t \in Tabs, Tab(t) PROVE Types'
  <2>1. CASE Open(t)
    BY <2>1, OpenTypes
  <2>2. CASE Save(t)
    <3>1. base' \in [Tabs -> Revisions]
      BY <2>2 DEF Save, Types
    <3>2. CASE Start(t) /\ UNCHANGED dirty
      BY <2>2, <3>1, <3>2, StartTypes DEF Save, Types, server
    <3>3. CASE dirty' = [dirty EXCEPT ![t] = TRUE] /\ UNCHANGED <<localDirty, stored, saving>>
      BY <2>2, <3>1, <3>3 DEF Save, Types, server
    <3>4. QED BY <2>2, <3>2, <3>3 DEF Save
  <2>3. CASE Serve(t)
    <3>1. saving[t] \in Saves
      BY <2>3 DEF Serve, Types
    <3>2. rev' \in Revisions /\ doc' \in Documents
      BY <2>3, <3>1, PutTypes DEF Serve, Saves, Types
    <3>3. CASE UNCHANGED saving
      BY <2>3, <3>2, <3>3 DEF Serve, Types
    <3>4. ASSUME NEW answer \in {"saved", "conflict"},
                 saving' = [saving EXCEPT ![t] =
                              [doc |-> saving[t].doc, rev |-> rev', answer |-> answer]]
          PROVE  Types'
      <4>1. [doc |-> saving[t].doc, rev |-> rev', answer |-> answer] \in Saves
        BY <3>1, <3>2, <3>4 DEF Saves
      <4>2. saving' \in [Tabs -> Saves \cup {None}]
        BY <3>4, <4>1 DEF Types
      <4>3. QED BY <2>3, <3>2, <4>2 DEF Serve, Types
    <3>5. \/ UNCHANGED saving
          \/ \E answer \in {"saved", "conflict"} :
               saving' = [saving EXCEPT ![t] =
                            [doc |-> saving[t].doc, rev |-> rev', answer |-> answer]]
      BY <2>3, <3>1 DEF Serve, Saves, Types
    <3>6. QED BY <3>3, <3>4, <3>5
  <2>4. CASE Saved(t)
    <3>1. saving[t] \in Saves
      BY <2>4 DEF Saved, Types
    <3>2. base' \in [Tabs -> Revisions] /\ dirty' \in [Tabs -> BOOLEAN]
      BY <2>4, <3>1 DEF Saved, Types, Saves
    <3>3. CASE Start(t)
      BY <2>4, <3>2, <3>3, StartTypes DEF Saved, Types, server
    <3>4. CASE /\ localDirty' = [localDirty EXCEPT ![t] = FALSE]
               /\ stored' = [stored EXCEPT ![t] = None]
               /\ saving' = [saving EXCEPT ![t] = None]
      BY <2>4, <3>2, <3>4 DEF Saved, Types, server
    <3>5. QED BY <2>4, <3>3, <3>4 DEF Saved
  <2>5. CASE Conflict(t)
    <3>1. saving[t] \in Saves
      BY <2>5 DEF Conflict, Types
    <3>2. [by |-> t, doc |-> here[t], rev |-> saving[t].rev] \in Clashes
      BY <3>1 DEF Types, Saves, Clashes
    <3>3. QED BY <2>5, <3>2 DEF Conflict, Types, server
  <2>6. CASE Failed(t)
    <3>1. base' \in [Tabs -> Revisions]
      BY <2>6 DEF Failed, Types
    <3>2. CASE dirty' = [dirty EXCEPT ![t] = FALSE] /\ Start(t)
      BY <2>6, <3>1, <3>2, StartTypes DEF Failed, Types, server
    <3>3. CASE saving' = [saving EXCEPT ![t] = None] /\ UNCHANGED <<dirty, localDirty, stored>>
      BY <2>6, <3>3 DEF Failed, Types, server
    <3>4. QED BY <2>6, <3>2, <3>3 DEF Failed
  <2>7. CASE Hide(t)
    BY <2>7, RequestTypes DEF Hide, Types, server, engine
  <2>8. CASE Close(t)
    <3>1. stored' \in [Tabs -> Documents \cup {None}]
      <4>1. (IF Unsaved(t) THEN here[t] ELSE stored[t]) \in Documents \cup {None}
        BY DEF Types
      <4>2. stored' = [stored EXCEPT ![t] = IF Unsaved(t) THEN here[t] ELSE stored[t]]
        BY <2>8 DEF Close
      <4>3. QED BY <4>1, <4>2 DEF Types
    <3>2. beacons' \in SUBSET Request
      BY <2>8, RequestTypes DEF Close, Types
    <3>3. QED BY <2>8, <3>1, <3>2, LeaveTypes DEF Close, Types, server
  <2>9. CASE Die(t)
    <3>1. beacons' \in SUBSET Request
      BY <2>9, RequestTypes DEF Die, Types
    <3>2. QED BY <2>9, <3>1, LeaveTypes DEF Die, Types, server
  <2>10. CASE Yield(t)
    <3>1. blocked[t] \in Clashes
      BY <2>10 DEF Yield, Types
    <3>2. given' \in Documents
      BY <2>10, <3>1 DEF Yield, Types, Clashes, Documents
    <3>3. stored' \in [Tabs -> Documents \cup {None}]
      BY <2>10, <3>1 DEF Yield, Types, Clashes
    <3>4. QED BY <2>10, <3>2, <3>3, LeaveTypes DEF Yield, Types, server
  <2>11. CASE Overwrite(t)
    <3>1. blocked[t] \in Clashes
      BY <2>11 DEF Overwrite, Types
    <3>2. CASE blocked[t].rev = rev
      <4>1. rev' \in Revisions /\ doc' \in Documents
        BY <2>11, <3>1, <3>2 DEF Overwrite, Types, Clashes, Revisions
      <4>2. given' \in Documents
        BY <2>11, <3>2, <4>1 DEF Overwrite, Types, Documents
      <4>3. stored' \in [Tabs -> Documents \cup {None}]
        BY <2>11, <3>1, <3>2 DEF Overwrite, Types, Clashes
      <4>4. QED BY <2>11, <3>2, <4>1, <4>2, <4>3, LeaveTypes DEF Overwrite, Types
    <3>3. CASE blocked[t].rev # rev
      <4>1. [by |-> t, doc |-> blocked[t].doc, rev |-> rev] \in Clashes
        BY <3>1 DEF Types, Clashes
      <4>2. blocked' = [blocked EXCEPT ![t] = [by |-> t, doc |-> blocked[t].doc, rev |-> rev]]
        BY <2>11, <3>3 DEF Overwrite
      <4>3. stored' \in [Tabs -> Documents \cup {None}]
        BY <2>11, <3>1, <3>3 DEF Overwrite, Types, Clashes
      <4>4. QED BY <2>11, <3>3, <4>1, <4>2, <4>3 DEF Overwrite, Types, server
    <3>4. QED BY <3>2, <3>3
  <2>12. ASSUME NEW e \in Edits, Edit(t, e) PROVE Types'
    <3>1. here' = [here EXCEPT ![t] = here[t] \cup {e}]
      BY <2>12 DEF Edit
    <3>2. here[t] \cup {e} \in Documents
      BY DEF Types, Documents
    <3>3. here' \in [Tabs -> Documents] /\ here'[t] \in Documents
      BY <3>1, <3>2 DEF Types
    <3>4. QED BY <2>12, <3>3 DEF Edit, Types, server
  <2>13. QED
    BY <1>1, <2>1, <2>2, <2>3, <2>4, <2>5, <2>6, <2>7, <2>8, <2>9, <2>10, <2>11, <2>12 DEF Tab
<1>2. CASE Reset
  BY <1>2 DEF Reset, Types, engine, Documents, Revisions
<1>3. ASSUME NEW put \in beacons, Arrive(put) PROVE Types'
  <2>1. put.doc \in Documents
    BY DEF Types, Request, Documents
  <2>2. rev' \in Revisions /\ doc' \in Documents
    BY <1>3, <2>1, PutTypes DEF Arrive, Types
  <2>3. QED BY <1>3, <2>2 DEF Arrive, Types, engine
<1>4. CASE UNCHANGED vars
  BY <1>4 DEF vars, Types
<1>5. QED BY <1>1, <1>2, <1>3, <1>4 DEF Next

-----------------------------------------------------------------------------
(***************************************************************************)
(* The board moves on by one revision at a time, and what was given up     *)
(* stays so.  A document that went by an older revision is left behind for *)
(* good; one that went by the last one is, when the board moves.           *)
(***************************************************************************)
BoardMoves == (UNCHANGED server \/ rev' = rev + 1) /\ given \subseteq given'

LEMMA NextMoves == ASSUME MaxRev \in Nat, Types, Next PROVE BoardMoves
<1> USE DEF server
<1>1. ASSUME NEW t \in Tabs, Tab(t) PROVE BoardMoves
  <2>1. CASE Serve(t)
    BY <2>1 DEF Serve, Put, BoardMoves
  <2>2. CASE Yield(t)
    BY <2>2 DEF Yield, BoardMoves
  <2>3. CASE Overwrite(t)
    BY <2>3 DEF Overwrite, BoardMoves
  <2>4. CASE ~(Serve(t) \/ Yield(t) \/ Overwrite(t))
    BY <1>1, <2>4
    DEF Tab, Open, Edit, Save, Saved, Conflict, Failed, Hide, Close, Die, BoardMoves
  <2>5. QED BY <2>1, <2>2, <2>3, <2>4
<1>2. CASE Reset
  BY <1>2 DEF Reset, BoardMoves
<1>3. ASSUME NEW put \in beacons, Arrive(put) PROVE BoardMoves
  BY <1>3 DEF Arrive, Put, BoardMoves
<1>4. QED BY <1>1, <1>2, <1>3 DEF Next

LEMMA StillSees ==
  ASSUME Types, BoardMoves, NEW d, NEW r \in Revisions, Sees(d, r, rev, doc, given)
  PROVE  Sees(d, r, rev', doc', given')
<1>1. CASE UNCHANGED server
  BY <1>1 DEF server, BoardMoves, Sees
<1>2. CASE rev' = rev + 1
  <2>1. r <= rev /\ rev \in Int /\ r \in Int
    BY DEF Sees, Types, Revisions
  <2>2. r <= rev + 1 /\ r # rev + 1
    BY <2>1
  <2>3. QED BY <1>2, <2>2 DEF Sees
<1>3. QED BY <1>1, <1>2 DEF BoardMoves

(***************************************************************************)
(* A step of one tab: what it does to the tab and its save, and what it    *)
(* leaves on the way, is all there is to look at.                          *)
(***************************************************************************)
LEMMA OneTabMoves ==
  ASSUME BInv, Types', BoardMoves, NEW t \in Tabs,
         \A u \in Tabs \ {t} : /\ here'[u] = here[u] /\ base'[u] = base[u]
                               /\ saving'[u] = saving[u] /\ (u \in open' <=> u \in open),
         t \in open' => TabSees(t)',
         (saving'[t] # None /\ saving'[t].answer # "conflict") => SaveSees(t)',
         saving'[t] # None => saving'[t].doc \subseteq here'[t] /\ t \in open',
         \A put \in beacons' : put \in beacons \/ Sees(put.doc, put.rev, rev', doc', given')
  PROVE  BInv'
<1>1. ASSUME NEW u \in open' PROVE TabSees(u)'
  <2>1. CASE u = t
    BY <2>1
  <2>2. CASE u # t
    <3>1. u \in Tabs \ {t}
      BY <2>2 DEF Types
    <3>2. TabSees(u) /\ base[u] \in Revisions /\ here'[u] = here[u] /\ base'[u] = base[u]
      BY <3>1 DEF BInv, AllSee, Types
    <3>3. Sees(here[u], base[u], rev', doc', given')
      BY <3>2, StillSees DEF BInv, TabSees
    <3>4. QED BY <3>2, <3>3 DEF TabSees
  <2>3. QED BY <2>1, <2>2
<1>2. ASSUME NEW u \in Tabs, saving'[u] # None, saving'[u].answer # "conflict"
      PROVE  SaveSees(u)'
  <2>1. CASE u = t
    BY <1>2, <2>1
  <2>2. CASE u # t
    <3>1. saving'[u] = saving[u] /\ saving[u] # None /\ saving[u].answer # "conflict"
      BY <1>2, <2>2
    <3>2. SaveSees(u) /\ saving[u] \in Saves
      BY <3>1 DEF BInv, AllSee, Types
    <3>3. Sees(saving[u].doc, saving[u].rev, rev', doc', given')
      BY <3>2, StillSees DEF BInv, SaveSees, Saves
    <3>4. QED BY <3>1, <3>3 DEF SaveSees
  <2>3. QED BY <2>1, <2>2
<1>3. ASSUME NEW put \in beacons' PROVE Sees(put.doc, put.rev, rev', doc', given')
  <2>1. CASE put \in beacons
    <3>1. put.rev \in Revisions /\ Sees(put.doc, put.rev, rev, doc, given)
      BY <2>1 DEF BInv, AllSee, Types, Request, Revisions
    <3>2. QED BY <3>1, StillSees DEF BInv
  <2>2. QED BY <2>1
<1>4. AllSee'
  BY <1>1, <1>2, <1>3 DEF AllSee
<1>5. SavesAreOfTheTab'
  BY DEF BInv, SavesAreOfTheTab
<1>6. QED BY <1>4, <1>5 DEF BInv

\* A step that leaves the tab as it is, or lets it see more.
LEMMA TabStays ==
  ASSUME BInv, BoardMoves, NEW t \in open, t \in Tabs,
         here[t] \subseteq here'[t], base'[t] = base[t]
  PROVE  TabSees(t)'
<1>1. base[t] \in Revisions /\ Sees(here[t], base[t], rev, doc, given)
  BY DEF BInv, AllSee, Types, TabSees
<1>2. Sees(here[t], base[t], rev', doc', given')
  BY <1>1, StillSees DEF BInv
<1>3. QED BY <1>2 DEF TabSees, Sees

LEMMA SaveStays ==
  ASSUME BInv, BoardMoves, NEW t \in Tabs, saving'[t] = saving[t],
         saving[t] # None, saving[t].answer # "conflict"
  PROVE  SaveSees(t)'
<1>1. saving[t] \in Saves /\ Sees(saving[t].doc, saving[t].rev, rev, doc, given)
  BY DEF BInv, AllSee, Types, SaveSees
<1>2. Sees(saving[t].doc, saving[t].rev, rev', doc', given')
  BY <1>1, StillSees DEF BInv, Saves
<1>3. QED BY <1>2 DEF SaveSees

LEMMA StartSees ==
  ASSUME BInv, NEW t \in Tabs, Start(t), TabSees(t)', here' = here
  PROVE  SaveSees(t)' /\ saving'[t].doc = here'[t] /\ \A u \in Tabs \ {t} : saving'[u] = saving[u]
<1>1. saving' = [saving EXCEPT ![t] = [doc |-> here[t], rev |-> base'[t], answer |-> "none"]]
  BY DEF Start
<1>2. saving'[t] = [doc |-> here[t], rev |-> base'[t], answer |-> "none"]
  BY <1>1 DEF BInv, Types
<1>3. saving'[t].doc = here'[t] /\ saving'[t].rev = base'[t]
  BY <1>2
<1>4. QED BY <1>1, <1>3 DEF SaveSees, TabSees, BInv, Types

-----------------------------------------------------------------------------
\* What a put leaves behind: it is taken and the board is its document, or the
\* board stays.
LEMMA PutLeaves ==
  ASSUME Types, NEW put, Put(put)
  PROVE  \/ rev' # rev /\ doc' = put.doc /\ put.rev = rev /\ rev' = rev + 1
         \/ UNCHANGED server
<1>1. rev \in Int
  BY DEF Types, Revisions
<1>2. rev + 1 # rev
  BY <1>1
<1>3. QED BY <1>2 DEF Put, server

\* A last request and a save under way go by what the tab and the save go by.
LEMMA RequestsSee ==
  ASSUME BInv, NEW t \in open, t \in Tabs
  PROVE  \A put \in Beacon(t) \cup Orphan(t) : Sees(put.doc, put.rev, rev, doc, given)
<1>1. ASSUME NEW put \in Beacon(t) PROVE Sees(put.doc, put.rev, rev, doc, given)
  <2>1. put.doc = here[t] /\ put.rev = base[t]
    BY <1>1 DEF Beacon
  <2>2. QED BY <2>1 DEF BInv, AllSee, TabSees
<1>2. ASSUME NEW put \in Orphan(t) PROVE Sees(put.doc, put.rev, rev, doc, given)
  <2>1. saving[t] # None /\ saving[t].answer # "conflict"
    BY <1>2 DEF Orphan
  <2>2. put.doc = saving[t].doc /\ put.rev = saving[t].rev
    BY <1>2 DEF Orphan
  <2>3. QED BY <2>1, <2>2 DEF BInv, AllSee, SaveSees
<1>3. QED BY <1>1, <1>2

\* A tab that goes: nothing of it is left but the requests.
LEMMA LeaveKeeps ==
  ASSUME BInv, Types', BoardMoves, NEW t \in Tabs, Leave(t),
         \A put \in beacons' : put \in beacons \/ Sees(put.doc, put.rev, rev', doc', given')
  PROVE  BInv'
<1>1. /\ t \notin open' /\ saving'[t] = None
      /\ \A u \in Tabs \ {t} : /\ here'[u] = here[u] /\ base'[u] = base[u]
                               /\ saving'[u] = saving[u] /\ (u \in open' <=> u \in open)
  BY DEF Leave, BInv, Types
<1>2. QED BY <1>1, OneTabMoves

LEMMA OpenKeeps == ASSUME BInv, Types', BoardMoves, NEW t \in Tabs, Open(t) PROVE BInv'
<1>1. /\ open' = open \cup {t} /\ saving' = saving /\ beacons' = beacons
      /\ here'[t] = doc /\ base'[t] = rev /\ rev' = rev /\ doc' = doc
      /\ \A u \in Tabs \ {t} : here'[u] = here[u] /\ base'[u] = base[u]
  BY DEF Open, server, BInv, Types
<1>2. saving'[t] = None
  BY <1>1 DEF Open, BInv, SavesAreOfTheTab
<1>3. rev \in Int
  BY DEF BInv, Types, Revisions
<1>4. TabSees(t)'
  BY <1>1, <1>3 DEF TabSees, Sees
<1>5. QED BY <1>1, <1>2, <1>4, OneTabMoves

LEMMA EditKeeps ==
  ASSUME BInv, Types', BoardMoves, NEW t \in Tabs, NEW e \in Edits, Edit(t, e)
  PROVE  BInv'
<1>1. /\ open' = open /\ base' = base /\ saving' = saving /\ beacons' = beacons /\ t \in open
      /\ here[t] \subseteq here'[t] /\ \A u \in Tabs \ {t} : here'[u] = here[u]
  BY DEF Edit, BInv, Types
<1>2. TabSees(t)'
  BY <1>1, TabStays
<1>3. saving'[t] # None /\ saving'[t].answer # "conflict" => SaveSees(t)'
  BY <1>1, SaveStays
<1>4. saving'[t] # None => saving'[t].doc \subseteq here'[t]
  BY <1>1 DEF BInv, SavesAreOfTheTab
<1>5. QED BY <1>1, <1>2, <1>3, <1>4, OneTabMoves

\* The engine's steps, which leave the document and the open tabs alone.
LEMMA EngineKeeps ==
  ASSUME BInv, Types', BoardMoves, NEW t \in open, t \in Tabs, here' = here, open' = open,
         beacons' = beacons, TabSees(t)',
         \A u \in Tabs \ {t} : base'[u] = base[u],
         \/ Start(t)
         \/ saving' = saving
         \/ saving' = [saving EXCEPT ![t] = None]
  PROVE  BInv'
<1>1. CASE Start(t)
  BY <1>1, StartSees, OneTabMoves
<1>2. CASE saving' = saving
  <2>1. saving'[t] # None /\ saving'[t].answer # "conflict" => SaveSees(t)'
    BY <1>2, SaveStays
  <2>2. saving'[t] # None => saving'[t].doc \subseteq here'[t]
    BY <1>2 DEF BInv, SavesAreOfTheTab
  <2>3. QED BY <1>2, <2>1, <2>2, OneTabMoves
<1>3. CASE saving' = [saving EXCEPT ![t] = None]
  <2>1. saving'[t] = None /\ \A u \in Tabs \ {t} : saving'[u] = saving[u]
    BY <1>3 DEF BInv, Types
  <2>2. QED BY <2>1, OneTabMoves
<1>4. QED BY <1>1, <1>2, <1>3

\* The answer to a save goes by the board as it is after the save.
LEMMA ServeKeeps == ASSUME BInv, Types', BoardMoves, NEW t \in Tabs, Serve(t) PROVE BInv'
<1>1. /\ t \in open /\ open' = open /\ here' = here /\ base' = base /\ beacons' = beacons
      /\ saving[t] # None /\ saving[t].answer = "none" /\ Put(saving[t])
  BY DEF Serve
<1>2. saving[t] \in Saves
  BY <1>1 DEF BInv, Types
<1>3. TabSees(t)'
  BY <1>1, TabStays
<1>4. CASE saving' = saving
  BY <1>1, <1>3, <1>4, EngineKeeps
<1>5. CASE saving' = [saving EXCEPT ![t].answer = IF rev' # rev THEN "saved" ELSE "conflict",
                                    ![t].rev = rev']
  <2>1. /\ saving'[t].doc = saving[t].doc /\ saving'[t].rev = rev'
        /\ saving'[t].answer = IF rev' # rev THEN "saved" ELSE "conflict"
        /\ \A u \in Tabs \ {t} : saving'[u] = saving[u]
    BY <1>2, <1>5 DEF BInv, Types, Saves
  <2>2. saving'[t].answer # "conflict" => doc' = saving[t].doc
    BY <1>1, <2>1, PutLeaves DEF BInv, server
  <2>3. rev' \in Int
    BY DEF Types, Revisions
  <2>4. saving'[t].answer # "conflict" => SaveSees(t)'
    BY <2>1, <2>2, <2>3 DEF SaveSees, Sees
  <2>5. saving'[t].doc \subseteq here'[t]
    BY <1>1, <2>1 DEF BInv, SavesAreOfTheTab
  <2>6. QED BY <1>1, <1>3, <2>1, <2>4, <2>5, OneTabMoves
<1>6. QED BY <1>4, <1>5 DEF Serve

\* The tab goes by the revision of the answer, and still has what it saved.
LEMMA SavedKeeps == ASSUME BInv, Types', BoardMoves, NEW t \in Tabs, Saved(t) PROVE BInv'
<1>1. /\ t \in open /\ open' = open /\ here' = here /\ beacons' = beacons
      /\ saving[t] # None /\ saving[t].answer = "saved"
      /\ rev' = rev /\ doc' = doc /\ given' = given
  BY DEF Saved, server
<1>2. base'[t] = saving[t].rev /\ \A u \in Tabs \ {t} : base'[u] = base[u]
  BY DEF Saved, BInv, Types
<1>3. saving[t].doc \subseteq here[t] /\ Sees(saving[t].doc, saving[t].rev, rev, doc, given)
  BY <1>1 DEF BInv, AllSee, SavesAreOfTheTab, SaveSees
<1>4. TabSees(t)'
  BY <1>1, <1>2, <1>3 DEF TabSees, Sees
<1>5. Start(t) \/ saving' = [saving EXCEPT ![t] = None]
  BY DEF Saved
<1>6. QED BY <1>1, <1>2, <1>4, <1>5, EngineKeeps

LEMMA NextBInv == ASSUME MaxRev \in Nat PROVE BInv /\ [Next]_vars => BInv'
<1> SUFFICES ASSUME BInv, [Next]_vars PROVE BInv'
  OBVIOUS
<1>0. Types /\ Types'
  BY NextTypes DEF BInv
<1>1. CASE UNCHANGED vars
  BY <1>0, <1>1 DEF vars, BInv, AllSee, TabSees, SaveSees, SavesAreOfTheTab
<1>2. CASE Next
  <2>0. BoardMoves
    BY <1>0, <1>2, NextMoves
  <2>1. ASSUME NEW t \in Tabs, Tab(t) PROVE BInv'
    <3>1. CASE Open(t)
      BY <1>0, <2>0, <3>1, OpenKeeps
    <3>2. CASE Save(t) \/ Conflict(t) \/ Failed(t)
      <4>1. /\ t \in open /\ here' = here /\ open' = open /\ beacons' = beacons /\ base' = base
            /\ Start(t) \/ saving' = saving \/ saving' = [saving EXCEPT ![t] = None]
        BY <3>2 DEF Save, Conflict, Failed
      <4>2. TabSees(t)'
        BY <2>0, <4>1, TabStays
      <4>3. QED BY <1>0, <2>0, <4>1, <4>2, EngineKeeps
    <3>3. CASE Serve(t)
      BY <1>0, <2>0, <3>3, ServeKeeps
    <3>4. CASE Saved(t)
      BY <1>0, <2>0, <3>4, SavedKeeps
    <3>5. CASE Hide(t)
      <4>1. /\ t \in open /\ here' = here /\ open' = open /\ base' = base /\ saving' = saving
            /\ beacons' = beacons \cup Beacon(t) /\ rev' = rev /\ doc' = doc /\ given' = given
        BY <3>5 DEF Hide, server, engine
      <4>2. \A put \in beacons' : put \in beacons \/ Sees(put.doc, put.rev, rev', doc', given')
        BY <4>1, RequestsSee
      <4>3. TabSees(t)'
        BY <2>0, <4>1, TabStays
      <4>4. saving'[t] # None /\ saving'[t].answer # "conflict" => SaveSees(t)'
        BY <2>0, <4>1, SaveStays
      <4>5. saving'[t] # None => saving'[t].doc \subseteq here'[t]
        BY <4>1 DEF BInv, SavesAreOfTheTab
      <4>6. QED BY <1>0, <2>0, <4>1, <4>2, <4>3, <4>4, <4>5, OneTabMoves
    <3>6. CASE Close(t) \/ Die(t)
      <4>1. /\ t \in open /\ Leave(t) /\ rev' = rev /\ doc' = doc /\ given' = given
            /\ \A put \in beacons' : put \in beacons \/ put \in Beacon(t) \cup Orphan(t)
        BY <3>6 DEF Close, Die, server
      <4>2. \A put \in beacons' : put \in beacons \/ Sees(put.doc, put.rev, rev', doc', given')
        BY <4>1, RequestsSee
      <4>3. QED BY <1>0, <2>0, <4>1, <4>2, LeaveKeeps
    <3>7. CASE Yield(t)
      BY <1>0, <2>0, <3>7, LeaveKeeps DEF Yield
    <3>8. CASE Overwrite(t)
      <4>1. CASE blocked[t].rev = rev
        BY <1>0, <2>0, <3>8, <4>1, LeaveKeeps DEF Overwrite
      <4>2. CASE blocked[t].rev # rev
        <5>1. /\ t \in open /\ here' = here /\ open' = open /\ base' = base
              /\ saving' = saving /\ beacons' = beacons
          BY <3>8, <4>2 DEF Overwrite
        <5>2. TabSees(t)'
          BY <2>0, <5>1, TabStays
        <5>3. QED BY <1>0, <2>0, <5>1, <5>2, EngineKeeps
      <4>3. QED BY <4>1, <4>2
    <3>9. ASSUME NEW e \in Edits, Edit(t, e) PROVE BInv'
      BY <1>0, <2>0, <3>9, EditKeeps
    <3>10. QED
      BY <2>1, <3>1, <3>2, <3>3, <3>4, <3>5, <3>6, <3>7, <3>8, <3>9 DEF Tab
  <2>2. ASSUME open' = open, here' = here, base' = base, saving' = saving, beacons' \subseteq beacons
        PROVE  BInv'
    <3>1. ASSUME NEW t \in open' PROVE TabSees(t)'
      BY <1>0, <2>0, <2>2, TabStays DEF Types
    <3>2. ASSUME NEW t \in Tabs, saving'[t] # None, saving'[t].answer # "conflict"
          PROVE  SaveSees(t)'
      BY <2>0, <2>2, <3>2, SaveStays
    <3>3. ASSUME NEW put \in beacons' PROVE Sees(put.doc, put.rev, rev', doc', given')
      <4>1. put.rev \in Revisions /\ Sees(put.doc, put.rev, rev, doc, given)
        BY <2>2 DEF BInv, AllSee, Types, Request, Revisions
      <4>2. QED BY <1>0, <2>0, <4>1, StillSees
    <3>4. AllSee'
      BY <3>1, <3>2, <3>3 DEF AllSee
    <3>5. SavesAreOfTheTab'
      BY <2>2 DEF BInv, SavesAreOfTheTab
    <3>6. QED BY <1>0, <3>4, <3>5 DEF BInv
  <2>3. CASE Reset
    BY <2>2, <2>3 DEF Reset, engine
  <2>4. ASSUME NEW put \in beacons, Arrive(put) PROVE BInv'
    BY <2>2, <2>4 DEF Arrive, engine
  <2>5. QED BY <1>2, <2>1, <2>3, <2>4 DEF Next
<1>3. QED BY <1>1, <1>2

-----------------------------------------------------------------------------
\* A request that is taken saw the board it replaces.
LEMMA PutLosesNothing ==
  ASSUME Types, NEW put, Put(put), Sees(put.doc, put.rev, rev, doc, given), given \subseteq given'
  PROVE  doc \subseteq doc' \cup given'
BY PutLeaves DEF Sees, server

LEMMA NothingLostStep ==
  ASSUME MaxRev \in Nat, BInv, [Next]_vars PROVE doc \subseteq doc' \cup given'
<1>1. ASSUME NEW t \in Tabs, Tab(t) PROVE doc \subseteq doc' \cup given'
  <2>1. CASE Serve(t)
    BY <2>1, PutLosesNothing DEF Serve, BInv, AllSee, SaveSees
  <2>2. CASE Overwrite(t)
    BY <2>2 DEF Overwrite, server
  <2>3. CASE ~(Serve(t) \/ Overwrite(t))
    BY <1>1, <2>3
    DEF Tab, Open, Edit, Save, Saved, Conflict, Failed, Hide, Close, Die, Yield, server
  <2>4. QED BY <2>1, <2>2, <2>3
<1>2. CASE Reset
  BY <1>2 DEF Reset
<1>3. ASSUME NEW put \in beacons, Arrive(put) PROVE doc \subseteq doc' \cup given'
  BY <1>3, PutLosesNothing DEF Arrive, BInv, AllSee, server
<1>4. CASE UNCHANGED vars
  BY <1>4 DEF vars
<1>5. QED BY <1>1, <1>2, <1>3, <1>4 DEF Next

\* The board, the tabs and the requests are well typed in every reachable state.
THEOREM TypeCorrect == ASSUME MaxRev \in Nat PROVE Spec => []TypeOK
<1>1. BInv => TypeOK
  BY DEF BInv, Types, TypeOK, Documents, Revisions, Saves, Clashes
<1>2. QED BY InitBInv, NextBInv, <1>1, PTL DEF Spec

\* The revision that PUT /v1/boards/:id compares keeps what the server has: no
\* tab that fell behind, no save sent again and no last request of a tab that is
\* gone replaces edits it has never seen.
THEOREM SavedEditsStay == ASSUME MaxRev \in Nat PROVE Spec => NothingSavedIsLost
<1>1. BInv /\ [Next]_vars => [doc \subseteq doc' \cup given']_doc
  BY NothingLostStep
<1>2. QED BY InitBInv, NextBInv, <1>1, PTL DEF Spec, NothingSavedIsLost

=============================================================================
