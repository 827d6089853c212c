---------------------------- MODULE ExplorerStore ----------------------------
(***************************************************************************)
(* web/src/store/global-states/explorer.store.ts with                      *)
(* utils/data-pending.util.ts, and the part of DataExplorer.tsx that turns *)
(* a gesture on the i-th row shown into a call of the store.  One column   *)
(* stands for all.  A change carries, as history, the row its user pointed *)
(* at; the row of a pending insert is named by minus its gesture's number. *)
(***************************************************************************)
EXTENDS EventLoop, FiniteSets, SequencesExt

CONSTANTS
    Tables,  \* names of tables: each database has its own of that name
    Pages    \* the sequences of row ids a browse may return

ASSUME TablesAssumption == None \notin Tables

ASSUME PagesAssumption == \A p \in Pages : p \in Seq(Nat \ {0}) /\ IsInjective(p)

VARIABLES
    table,       \* table
    data,        \* data: whose page it is and its row ids, None for null
    edits,       \* pending.edits: row id -> change
    inserts,     \* pending.inserts: the change that made each, and the last typed into it
    deletes,     \* pending.deletes: row id -> change
    browsing,    \* loading
    committing,  \* committing
    loads,       \* calls in flight
    calm,        \* history: nothing happened since openTable that excuses a wrong target
    expected,    \* history: changes made, neither discarded nor replaced nor stored
    stored,      \* history: pending changes that a batch has stored
    unsure       \* history: a commit failed after its batch was stored

pendingVars == <<edits, inserts, deletes>>
historyVars == <<calm, expected, stored, unsure>>
explorerVars == <<table, data, pendingVars, browsing, committing, loads, historyVars>>

Nowhere == [row \in {} |-> {}]

ExplorerInit ==
    /\ table = None /\ data = None
    /\ edits = Nowhere /\ inserts = <<>> /\ deletes = Nowhere
    /\ browsing = FALSE /\ committing = FALSE
    /\ loads = {}
    /\ calm = FALSE /\ expected = {} /\ stored = {} /\ unsure = FALSE

----------------------------------------------------------------------------
(* data-pending.util.ts *)

Values(f) == {f[x] : x \in DOMAIN f}

PendingChanges ==
    Values(edits) \cup Values(deletes)
      \cup UNION {{inserts[j].made} \cup inserts[j].typed : j \in DOMAIN inserts}

Dirty == PendingChanges # {}

\* The places on the page of the rows that no pending delete hides.
Staying == {k \in DOMAIN data.ids : data.ids[k] \notin DOMAIN deletes}

\* applyEdits: the rows shown, each with its place from the top and its id.
Shown ==
    {[at |-> Cardinality({j \in Staying : j =< k}), row |-> data.ids[k]] : k \in Staying}
      \cup {[at |-> Cardinality(Staying) + j, row |-> -inserts[j].made.at] : j \in DOMAIN inserts}

\* toBatchOps: the row each operation of the batch goes to, and the change it is.
ToBatchOps ==
    {[to |-> r, change |-> edits[r]] : r \in DOMAIN edits}
      \cup {[to |-> r, change |-> deletes[r]] : r \in DOMAIN deletes}
      \cup UNION {{[to |-> -inserts[j].made.at, change |-> c] :
                     c \in {inserts[j].made} \cup inserts[j].typed} : j \in DOMAIN inserts}

----------------------------------------------------------------------------
(* Loading: openTable, setPage and what they await. *)

Load(of, d, t) == [of |-> of, db |-> d, table |-> t, at |-> Now]

EmptyPending == edits' = Nowhere /\ inserts' = <<>> /\ deletes' = Nowhere

\* What is no longer pending after this step is nobody's expectation any more.
Forget == expected' = {} /\ stored' = {} /\ unsure' = FALSE

\* Mutant of OpenTable: the pending changes of the table before are kept.
OpenTableKeeping(d, t) ==
    /\ Gesture
    /\ table' = t
    /\ browsing' = TRUE
    /\ loads' = loads \cup {Load("open", d, t)}
    /\ calm' = (loads = {})
    /\ UNCHANGED <<data, committing, pendingVars, expected, stored, unsure>>

OpenTable(d, t) ==
    /\ Gesture
    /\ table' = t
    /\ EmptyPending
    /\ browsing' = TRUE
    /\ loads' = loads \cup {Load("open", d, t)}
    /\ calm' = (loads = {})
    /\ Forget
    /\ UNCHANGED <<data, committing>>

\* DataExplorer renders nothing without a table and data.
Open == table # None /\ data # None

SetPage(d) ==
    /\ Open
    /\ Gesture
    /\ browsing' = TRUE
    /\ loads' = loads \cup {Load("page", d, table)}
    /\ UNCHANGED <<table, data, pendingVars, committing, historyVars>>

Browsed(c) ==
    /\ c.of \in {"open", "page"}
    /\ \E p \in Pages : data' = [db |-> c.db, table |-> c.table, ids |-> p]
    /\ browsing' = FALSE
    /\ loads' = loads \ {c}
    /\ UNCHANGED <<table, pendingVars, committing, historyVars>>

\* The page on the screen stays, under the name of the table that was asked for.
BrowseFailed(c) ==
    /\ c.of \in {"open", "page"}
    /\ browsing' = FALSE
    /\ loads' = loads \ {c}
    /\ calm' = (calm /\ c.of # "open")
    /\ UNCHANGED <<table, data, pendingVars, committing, expected, stored, unsure>>

Close ==
    /\ Open
    /\ Gesture
    /\ table' = None /\ data' = None
    /\ EmptyPending
    /\ Forget
    /\ UNCHANGED <<browsing, committing, loads, calm>>

----------------------------------------------------------------------------
(* Gestures on the rows shown. *)

\* The change of a user who points at a row.
Change(row) ==
    [at |-> Now, db |-> data.db, table |-> data.table, row |-> row,
     hidden |-> \E k \in DOMAIN data.ids : data.ids[k] \in DOMAIN deletes, busy |-> committing]

Noted(c, replaced) ==
    /\ expected' = (expected \ replaced) \cup {c}
    /\ stored' = stored \ replaced
    /\ calm' = (calm /\ \A l \in loads : l.of # "open")
    /\ UNCHANGED <<table, data, browsing, committing, loads, unsure>>

AddRow ==
    /\ Open
    /\ Gesture
    /\ inserts' = Append(inserts, [made |-> Change(-Now), typed |-> {}])
    /\ Noted(Change(-Now), {})
    /\ UNCHANGED <<edits, deletes>>

\* addEdit: the pending change of row r in f is c.
With(f, r, c) == [x \in DOMAIN f \cup {r} |-> IF x = r THEN c ELSE f[x]]

EditCell(r, c) ==
    /\ edits' = With(edits, r, c)
    /\ Noted(c, IF r \in DOMAIN edits THEN {edits[r]} ELSE {})
    /\ UNCHANGED <<inserts, deletes>>

\* map: there is a j-th insert.
SetInsertValue(j, c) ==
    /\ j \in DOMAIN inserts
    /\ inserts' = [inserts EXCEPT ![j].typed = {c}]
    /\ Noted(c, inserts[j].typed)
    /\ UNCHANGED <<edits, deletes>>

\* A row deleted already is not deleted again.
DeleteRow(r, c) ==
    /\ deletes' = IF r \in DOMAIN deletes THEN deletes ELSE With(deletes, r, c)
    /\ Noted(c, {})
    /\ UNCHANGED <<edits, inserts>>

\* DataExplorer: the row shown i-th takes the id of the i-th row of the page,
\* and counts as inserted when the page has fewer rows.
TypeInto(i, row) ==
    /\ Gesture
    /\ IF i > Len(data.ids) THEN SetInsertValue(i - Len(data.ids), Change(row))
                            ELSE EditCell(data.ids[i], Change(row))

ClickDelete(i, row) ==
    /\ i \in DOMAIN data.ids
    /\ Gesture
    /\ DeleteRow(data.ids[i], Change(row))

ClearPending ==
    /\ Open /\ Dirty
    /\ Gesture
    /\ EmptyPending
    /\ Forget
    /\ UNCHANGED <<table, data, browsing, committing, loads, calm>>

----------------------------------------------------------------------------
(* commit *)

\* d is the database selected when Save is clicked.
Commit(d) ==
    /\ Open /\ Dirty /\ ~committing
    /\ Gesture
    /\ committing' = TRUE
    /\ loads' = loads \cup {[of |-> "batch", db |-> d, table |-> table, at |-> Now,
                             ops |-> ToBatchOps, calm |-> calm]}
    /\ UNCHANGED <<table, data, pendingVars, browsing, historyVars>>

Changes(c) == {o.change : o \in c.ops}

Applied(c) ==
    /\ stored' = stored \cup (Changes(c) \cap PendingChanges)
    /\ expected' = expected \ Changes(c)

\* Mutant of BatchAnswered: the table is read from the store after the await.
BatchAnsweredLate(c) ==
    /\ c.of = "batch"
    /\ loads' = (loads \ {c}) \cup {[of |-> "reload", db |-> c.db, table |-> table, at |-> c.at]}
    /\ Applied(c)
    /\ UNCHANGED <<table, data, pendingVars, browsing, committing, calm, unsure>>

BatchAnswered(c) ==
    /\ c.of = "batch"
    /\ loads' = (loads \ {c}) \cup {[of |-> "reload", db |-> c.db, table |-> c.table, at |-> c.at]}
    /\ Applied(c)
    /\ UNCHANGED <<table, data, pendingVars, browsing, committing, calm, unsure>>

\* Mutant of BatchFailed: a commit leaves nothing pending however it ends.
BatchFailedForgetting(c) ==
    /\ c.of = "batch"
    /\ EmptyPending
    /\ committing' = FALSE
    /\ loads' = loads \ {c}
    /\ stored' = {}
    /\ UNCHANGED <<table, data, browsing, calm, expected, unsure>>

\* Refused by the server, or stored and the answer lost on the way.
BatchFailed(c) ==
    /\ c.of = "batch"
    /\ committing' = FALSE
    /\ loads' = loads \ {c}
    /\ \/ UNCHANGED <<expected, stored, unsure>>
       \/ Applied(c) /\ unsure' = TRUE
    /\ UNCHANGED <<table, data, pendingVars, browsing, calm>>

\* The last set of commit: everything that is pending by now goes.
Reloaded(c) ==
    /\ c.of = "reload"
    /\ \E p \in Pages : data' = [db |-> c.db, table |-> c.table, ids |-> p]
    /\ EmptyPending
    /\ committing' = FALSE
    /\ loads' = loads \ {c}
    /\ stored' = {} /\ unsure' = FALSE
    /\ UNCHANGED <<table, browsing, calm, expected>>

ReloadFailed(c) ==
    /\ c.of = "reload"
    /\ committing' = FALSE
    /\ loads' = loads \ {c}
    /\ unsure' = TRUE
    /\ UNCHANGED <<table, data, pendingVars, browsing, calm, expected, stored>>

----------------------------------------------------------------------------

ExplorerGesture(d) ==
    \/ \E t \in Tables : OpenTable(d, t)
    \/ SetPage(d) \/ Close \/ AddRow \/ ClearPending \/ Commit(d)
    \/ Open /\ \E s \in Shown : TypeInto(s.at, s.row) \/ ClickDelete(s.at, s.row)

ExplorerAnswer ==
    \E c \in loads :
        \/ Browsed(c) \/ BrowseFailed(c)
        \/ BatchAnswered(c) \/ BatchFailed(c)
        \/ Reloaded(c) \/ ReloadFailed(c)

=============================================================================
