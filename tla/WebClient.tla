------------------------------ MODULE WebClient ------------------------------
(***************************************************************************)
(* The page of App.tsx: both stores in one event loop.  They share one     *)
(* thing: the components pass the activeDb of the moment to the explorer,  *)
(* and changing it leaves the explorer as it is.  The server is external:  *)
(* it answers any call with any page, in any order, or fails it.           *)
(***************************************************************************)
EXTENDS AerisStore, ExplorerStore

vars == <<gestures, aerisVars, explorerVars>>

Init == gestures = 0 /\ AerisInit /\ ExplorerInit

\* A table stays open when the database changes under it.
Aeris ==
    /\ AerisGesture \/ (AerisAnswer /\ UNCHANGED gestures)
    /\ calm' = (calm /\ activeDb' = activeDb)
    /\ UNCHANGED <<table, data, pendingVars, browsing, committing, loads, expected, stored, unsure>>

\* onSelectTable, onCommit and onPage do nothing without a database.
Explorer ==
    /\ activeDb # None
    /\ ExplorerGesture(activeDb)
    /\ UNCHANGED aerisVars

Resume == ExplorerAnswer /\ UNCHANGED <<gestures, aerisVars>>

Next == Aeris \/ Explorer \/ Resume

Spec == Init /\ [][Next]_vars

----------------------------------------------------------------------------
(* Properties. *)

ChangeType ==
    [at : 1..MaxGestures, db : Dbs, table : Tables, row : Int, hidden : BOOLEAN, busy : BOOLEAN]

TypeOK ==
    /\ gestures \in 0..MaxGestures
    /\ AerisTypeOK
    /\ table \in Tables \cup {None}
    /\ data = None \/ data \in [db : Dbs, table : Tables, ids : Pages]
    /\ PendingChanges \subseteq ChangeType
    /\ expected \subseteq ChangeType /\ stored \subseteq PendingChanges
    /\ browsing \in BOOLEAN /\ committing \in BOOLEAN /\ calm \in BOOLEAN /\ unsure \in BOOLEAN
    /\ \A c \in loads : c.db \in Dbs /\ c.table \in Tables /\ c.at \in 1..gestures

Hits(c, o) ==
    o.change.db = c.db /\ o.change.table = c.table /\ o.change.row = o.to

\* commit sends each change to the row its user pointed at, in the database and
\* table it was shown in.  Excused are the changes made while a row of the page
\* was hidden by a pending delete, and the commits before which the database
\* was switched, an openTable was overlapped by another call or failed, or a
\* row was changed before it was answered.
ChangesHitTheirRow ==
    \A c \in loads : c.of = "batch" /\ c.calm =>
        \A o \in c.ops : o.change.hidden \/ Hits(c, o)

\* What applyEdits is for, "shows edited + inserted rows, hides deleted": when
\* a row is hidden the others are still themselves.
HiddenRowsAreSkipped ==
    \A c \in loads : c.of = "batch" /\ c.calm => \A o \in c.ops : Hits(c, o)

\* The pending changes are those not stored yet: a change is lost only if it was
\* made while a commit was awaited (or on a row that is another's, see above),
\* and one that is stored stays pending only until the commit ends, unless the
\* batch was stored and the commit failed all the same.
PendingIsUnsaved ==
    /\ \A c \in expected : c \in PendingChanges \/ c.busy \/ c.hidden
    /\ stored # {} => committing \/ unsure

=============================================================================
