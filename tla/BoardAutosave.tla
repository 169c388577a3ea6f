--------------------------- MODULE BoardAutosave ----------------------------
(***************************************************************************)
(* One board, edited in several tabs of a browser.  Each tab's engine      *)
(* saves the whole document, one save at a time, on the condition that the *)
(* server still has the revision the tab started from; it mirrors unsaved  *)
(* edits to the browser's storage; and a tab that is hidden or left sends  *)
(* what it has in a last request that nobody waits for.  A conflict stops  *)
(* a tab until the user picks a side.                                      *)
(*                                                                         *)
(* A document is the set of the edits it contains.                         *)
(***************************************************************************)
EXTENDS Naturals, BoardPromise

CONSTANTS
  Tabs,
  Edits,       \* edits the user makes, each once
  MaxRev,      \* bound: the last revision of the board
  None

VARIABLES
  rev,         \* of the board on the server; its doc is in BoardPromise
  open,        \* the tabs that show the board
  here,        \* the document in the tab
  base,        \* the engine's rev
  localDirty,  \* isDirty: edits that have not reached the server
  dirty,       \* an edit has asked for a save during a save
  saving,      \* the save in flight and its answer, or None
  timer,       \* a debounced save is scheduled
  blocked,     \* the recovered document the user must decide about, or None
  stored,      \* the tab's recovery snapshot in the browser, or None
  beacons      \* requests nobody waits for

vars == <<rev, doc, open, here, base, localDirty, dirty, saving, timer, blocked, stored,
          beacons, given>>
server == <<rev, doc>>
engine == <<here, base, localDirty, dirty, saving, timer, blocked>>

Made == doc \cup given \cup UNION {here[t] : t \in open}
          \cup UNION {stored[t] : t \in {u \in Tabs : stored[u] # None}}
          \cup UNION {put.doc : put \in beacons}

-----------------------------------------------------------------------------
Init ==
  /\ rev = 0 /\ doc = {}
  /\ open = {} /\ beacons = {} /\ given = {}
  /\ here = [t \in Tabs |-> {}] /\ base = [t \in Tabs |-> 0]
  /\ localDirty = [t \in Tabs |-> FALSE] /\ dirty = [t \in Tabs |-> FALSE]
  /\ saving = [t \in Tabs |-> None] /\ timer = [t \in Tabs |-> FALSE]
  /\ blocked = [t \in Tabs |-> None] /\ stored = [t \in Tabs |-> None]

(***************************************************************************)
(* A tab opens with the server's board, and with the recovery snapshot of  *)
(* this tab, or else of another, if there is one: one that differs from    *)
(* the board blocks the tab, any other is dropped.                         *)
(***************************************************************************)
Open(t) ==
  /\ t \notin open
  /\ open' = open \cup {t}
  /\ here' = [here EXCEPT ![t] = doc] /\ base' = [base EXCEPT ![t] = rev]
  /\ LET found == {u \in Tabs : stored[u] # None}
     IN  \/ found = {} /\ UNCHANGED <<blocked, localDirty, stored>>
         \/ \E u \in IF t \in found THEN {t} ELSE found :
              LET clash == stored[u] # doc
              IN  /\ blocked' = [blocked EXCEPT ![t] = IF clash THEN [by |-> u, doc |-> stored[u], rev |-> rev]
                                                               ELSE None]
                  /\ localDirty' = [localDirty EXCEPT ![t] = clash]
                  /\ stored' = IF clash THEN stored ELSE [stored EXCEPT ![u] = None]
  /\ UNCHANGED <<server, dirty, saving, timer, beacons, given>>

\* An edit, which a modal dialog keeps from a blocked tab: markDirty, the
\* snapshot, and a debounced save.
Edit(t, e) ==
  /\ t \in open /\ blocked[t] = None /\ e \notin Made
  /\ here' = [here EXCEPT ![t] = @ \cup {e}]
  /\ localDirty' = [localDirty EXCEPT ![t] = TRUE]
  /\ stored' = [stored EXCEPT ![t] = here'[t]]
  /\ timer' = [timer EXCEPT ![t] = TRUE]
  /\ UNCHANGED <<server, open, base, dirty, saving, blocked, beacons, given>>

\* The engine's save, of tab t which is not saving.
Start(t) ==
  /\ localDirty' = [localDirty EXCEPT ![t] = TRUE]
  /\ stored' = [stored EXCEPT ![t] = here[t]]
  /\ saving' = [saving EXCEPT ![t] = [doc |-> here[t], rev |-> base'[t], answer |-> "none"]]

\* The timer fires, or the user asks for another attempt: one save at a time.
Save(t) ==
  /\ t \in open /\ blocked[t] = None
  /\ timer[t] \/ (saving[t] = None /\ localDirty[t])
  /\ timer' = [timer EXCEPT ![t] = FALSE]
  /\ UNCHANGED base
  /\ IF saving[t] = None THEN Start(t) /\ UNCHANGED dirty
     ELSE dirty' = [dirty EXCEPT ![t] = TRUE] /\ UNCHANGED <<localDirty, stored, saving>>
  /\ UNCHANGED <<server, open, here, blocked, beacons, given>>

\* A mutant: the revision is not compared.
PutBlindly(put) ==
  /\ rev < MaxRev
  /\ rev' = rev + 1 /\ doc' = put.doc

\* PUT /v1/boards/:id with a revision.
Put(put) ==
  /\ rev < MaxRev
  /\ IF put.rev = rev THEN rev' = rev + 1 /\ doc' = put.doc ELSE UNCHANGED server

\* The server takes a save; its answer may be lost, and the same request is sent again.
Serve(t) ==
  /\ t \in open /\ saving[t] # None /\ saving[t].answer = "none"
  /\ Put(saving[t])
  /\ \/ saving' = [saving EXCEPT ![t].answer = IF rev' # rev THEN "saved" ELSE "conflict",
                                 ![t].rev = rev']
     \/ UNCHANGED saving
  /\ UNCHANGED <<open, here, base, localDirty, dirty, timer, blocked, stored, beacons, given>>

\* Saved: the engine saves again what was asked for meanwhile, or is clean.
Saved(t) ==
  /\ t \in open /\ saving[t] # None /\ saving[t].answer = "saved"
  /\ base' = [base EXCEPT ![t] = saving[t].rev]
  /\ dirty' = [dirty EXCEPT ![t] = FALSE]
  /\ IF dirty[t] THEN Start(t)
     ELSE /\ localDirty' = [localDirty EXCEPT ![t] = FALSE]
          /\ stored' = [stored EXCEPT ![t] = None]
          /\ saving' = [saving EXCEPT ![t] = None]
  /\ UNCHANGED <<server, open, here, timer, blocked, beacons, given>>

Conflict(t) ==
  /\ t \in open /\ saving[t] # None /\ saving[t].answer = "conflict"
  /\ dirty' = [dirty EXCEPT ![t] = FALSE] /\ timer' = [timer EXCEPT ![t] = FALSE]
  /\ stored' = [stored EXCEPT ![t] = here[t]]
  /\ blocked' = [blocked EXCEPT ![t] = [by |-> t, doc |-> here[t], rev |-> saving[t].rev]]
  /\ saving' = [saving EXCEPT ![t] = None]
  /\ UNCHANGED <<server, open, here, base, localDirty, beacons, given>>

\* Refused, or all attempts failed: saved again if asked for, except when rate-limited.
Failed(t) ==
  /\ t \in open /\ saving[t] # None /\ saving[t].answer = "none"
  /\ UNCHANGED base
  /\ \/ /\ dirty[t] /\ dirty' = [dirty EXCEPT ![t] = FALSE]
        /\ Start(t)
     \/ /\ saving' = [saving EXCEPT ![t] = None]
        /\ UNCHANGED <<dirty, localDirty, stored>>
  /\ UNCHANGED <<server, open, here, timer, blocked, beacons, given>>

-----------------------------------------------------------------------------
\* pagehide and visibilitychange: a last request, beside the engine.
Unsaved(t) == localDirty[t] /\ blocked[t] = None
Beacon(t) == IF Unsaved(t) THEN {[doc |-> here[t], rev |-> base[t]]} ELSE {}

\* A save on its way may arrive though the tab is gone.
Orphan(t) ==
  IF saving[t] # None /\ saving[t].answer = "none"
  THEN {[doc |-> saving[t].doc, rev |-> saving[t].rev]} ELSE {}

Hide(t) ==
  /\ t \in open /\ Unsaved(t)
  /\ stored' = [stored EXCEPT ![t] = here[t]]
  /\ beacons' = beacons \cup Beacon(t)
  /\ UNCHANGED <<server, open, engine, given>>

\* The page is gone, and its engine with it.
Leave(t) ==
  /\ open' = open \ {t}
  /\ here' = [here EXCEPT ![t] = {}] /\ base' = [base EXCEPT ![t] = 0]
  /\ localDirty' = [localDirty EXCEPT ![t] = FALSE] /\ dirty' = [dirty EXCEPT ![t] = FALSE]
  /\ saving' = [saving EXCEPT ![t] = None] /\ timer' = [timer EXCEPT ![t] = FALSE]
  /\ blocked' = [blocked EXCEPT ![t] = None]

Close(t) ==
  /\ t \in open /\ Leave(t)
  /\ stored' = [stored EXCEPT ![t] = IF Unsaved(t) THEN here[t] ELSE @]
  /\ beacons' = beacons \cup Beacon(t) \cup Orphan(t)
  /\ UNCHANGED <<server, given>>

\* The tab dies without a word.
Die(t) ==
  /\ t \in open /\ Leave(t)
  /\ beacons' = beacons \cup Orphan(t)
  /\ UNCHANGED <<server, stored, given>>

Arrive(put) ==
  /\ put \in beacons
  /\ \/ Put(put)
     \/ UNCHANGED server
  /\ beacons' = beacons \ {put}
  /\ UNCHANGED <<open, engine, stored, given>>

-----------------------------------------------------------------------------
\* The user gives the recovered document up, or makes a new board of it; the
\* page reloads, or leaves for the copy.
Yield(t) ==
  /\ t \in open /\ blocked[t] # None
  /\ given' = given \cup ((blocked[t].doc \cup here[t]) \ doc)
  /\ stored' = [stored EXCEPT ![blocked[t].by] = None]
  /\ Leave(t)
  /\ UNCHANGED <<server, beacons>>

\* The recovered document replaces the board the user was shown, or a newer
\* one is shown; then the page reloads.
Overwrite(t) ==
  /\ t \in open /\ blocked[t] # None /\ rev < MaxRev
  /\ IF blocked[t].rev = rev
     THEN /\ rev' = rev + 1 /\ doc' = blocked[t].doc
          /\ given' = given \cup ((doc \cup here[t]) \ doc')
          /\ stored' = [stored EXCEPT ![blocked[t].by] = None]
          /\ Leave(t)
     ELSE /\ blocked' = [blocked EXCEPT ![t] = [by |-> t, doc |-> @.doc, rev |-> rev]]
          /\ stored' = [stored EXCEPT ![t] = blocked[t].doc]
          /\ UNCHANGED <<server, given, open, here, base, localDirty, dirty, saving, timer>>
  /\ UNCHANGED beacons

\* POST .../reset, or the restoration of an old snapshot.
Reset ==
  /\ rev < MaxRev
  /\ rev' = rev + 1 /\ doc' = {}
  /\ given' = given \cup doc
  /\ UNCHANGED <<open, engine, stored, beacons>>

Tab(t) ==
  \/ Open(t) \/ Save(t) \/ Serve(t) \/ Saved(t) \/ Conflict(t) \/ Failed(t)
  \/ Hide(t) \/ Close(t) \/ Die(t) \/ Yield(t) \/ Overwrite(t)
  \/ \E e \in Edits : Edit(t, e)

Next == Reset \/ (\E t \in Tabs : Tab(t)) \/ \E put \in beacons : Arrive(put)

Spec == Init /\ [][Next]_vars

-----------------------------------------------------------------------------
Request == [doc : SUBSET Edits, rev : 0..MaxRev]

\* The board, the tabs and the requests have their types.
TypeOK ==
  /\ rev \in 0..MaxRev /\ doc \subseteq Edits /\ given \subseteq Edits
  /\ open \subseteq Tabs /\ beacons \subseteq Request
  /\ here \in [Tabs -> SUBSET Edits] /\ base \in [Tabs -> 0..MaxRev]
  /\ localDirty \in [Tabs -> BOOLEAN] /\ dirty \in [Tabs -> BOOLEAN]
  /\ timer \in [Tabs -> BOOLEAN]
  /\ \A t \in Tabs :
       /\ saving[t] # None => saving[t] \in [doc : SUBSET Edits, rev : 0..MaxRev,
                                             answer : {"none", "saved", "conflict"}]
       /\ blocked[t] # None => blocked[t] \in [by : Tabs, doc : SUBSET Edits, rev : 0..MaxRev]
       /\ stored[t] # None => stored[t] \subseteq Edits

(***************************************************************************)
(* As the editor's comment says, leaving it early loses nothing, for the   *)
(* edits not yet saved are flushed: an edit is always somewhere, unless    *)
(* the user gave it up.                                                    *)
(***************************************************************************)
EditsAreKept == [][Made \subseteq Made']_vars

=============================================================================
