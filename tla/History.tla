------------------------------- MODULE History -------------------------------
(***************************************************************************)
(* The query history of one attached database (internal/engine/history.go) *)
(* with its bounded channel, its worker goroutine and Database.Close.      *)
(*                                                                         *)
(* A history entry is its id (the order in which RecordQuery took its      *)
(* timestamp) and that timestamp; text, status and counters are left out.  *)
(* Every SQL statement on the history table is one step; the worker, the   *)
(* recording requests, the requests that pin and prune, and Close          *)
(* interleave between statements.  The pool has one connection, and an     *)
(* export keeps it until its client has read everything.                   *)
(***************************************************************************)
EXTENDS Integers, Sequences, FiniteSets, SequencesExt

CONSTANTS
    HistoryCap,   \* maxHistoryEntries
    ChanCap,      \* capacity of historyCh
    MaxTries,     \* attempts of writeHistory
    MaxQueries,   \* bound: queries recorded in a behaviour
    MaxTime       \* bound: last value of the millisecond clock

ASSUME HistoryCapAssumption == HistoryCap \in Nat
ASSUME ChanCapAssumption == ChanCap \in Nat \ {0}
ASSUME MaxTriesAssumption == MaxTries \in Nat \ {0}
ASSUME MaxQueriesAssumption == MaxQueries \in Nat
ASSUME MaxTimeAssumption == MaxTime \in Nat

VARIABLES
    now,      \* the clock, in milliseconds
    issued,   \* entries created so far
    pending,  \* entries stamped by RecordQuery and not yet offered to historyCh
    ch,       \* historyCh
    wpc,      \* where the worker stands
    sel,      \* the value of d.stopCh its select waits on
    hand,     \* the entry it is writing, a set of at most one
    tries,    \* failed attempts for that entry
    draining, \* whether it took the entry in the drain loop
    stop,     \* the stop channel: "open" or "closed"
    stopCh,   \* the field d.stopCh: "chan" or "nil"
    open,     \* whether d.db is open
    held,     \* whether an export holds the connection of d.db
    rows,     \* _system_query_history
    nextRow,  \* order of insertion; stands for rowid, which sorts the same way
    pruner,   \* a PruneHistory call: "idle" or "cap", between its two statements
    fresh     \* history variable: rows inserted or unpinned since the last cap prune

worker == <<wpc, sel, hand, tries, draining>>
table == <<rows, nextRow, fresh>>
pool == <<open, held>>
closing == <<stop, stopCh, pool>>
vars == <<now, issued, pending, ch, worker, closing, table, pruner>>

Ids == 1..MaxQueries
EntryType == [id: Ids, at: 0..MaxTime]
RowType == [id: Ids, at: 0..MaxTime, rowid: Nat, pinned: BOOLEAN]

Init ==
    /\ now = 0 /\ issued = 0 /\ pending = {} /\ ch = <<>>
    /\ wpc = "top" /\ sel = "chan" /\ hand = {} /\ tries = 0 /\ draining = FALSE
    /\ stop = "open" /\ stopCh = "chan" /\ open = TRUE /\ held = FALSE
    /\ rows = {} /\ nextRow = 0 /\ fresh = {}
    /\ pruner = "idle"

----------------------------------------------------------------------------
(* The connection of d.db. *)

\* Statements wait for it without a deadline; closing d.db wakes them with an error.
Usable == open /\ ~held
Waiting == open /\ held

\* openExport, and the end of its rows: when its client has read them or is gone.
OpenExport ==
    /\ Usable
    /\ held' = TRUE
    /\ UNCHANGED <<now, issued, pending, ch, worker, stop, stopCh, open, table, pruner>>

EndExport ==
    /\ held
    /\ held' = FALSE
    /\ UNCHANGED <<now, issued, pending, ch, worker, stop, stopCh, open, table, pruner>>

----------------------------------------------------------------------------
(* RecordQuery, called by every QueryCtx. *)

\* The entry gets its id and executed_at; the clock may tick or not.
Stamp ==
    /\ issued < MaxQueries
    /\ \E t \in {now, now + 1} :
          /\ t =< MaxTime
          /\ now' = t
          /\ pending' = pending \cup {[id |-> issued + 1, at |-> t]}
    /\ issued' = issued + 1
    /\ UNCHANGED <<ch, worker, closing, table, pruner>>

\* Mutant of Send: no default branch, the channel takes any number.
SendUnbounded(e) ==
    /\ e \in pending
    /\ pending' = pending \ {e}
    /\ ch' = Append(ch, e)
    /\ UNCHANGED <<now, issued, worker, closing, table, pruner>>

\* The non-blocking send: a full channel drops the entry.
Send(e) ==
    /\ e \in pending
    /\ pending' = pending \ {e}
    /\ ch' = IF Len(ch) < ChanCap THEN Append(ch, e) ELSE ch
    /\ UNCHANGED <<now, issued, worker, closing, table, pruner>>

----------------------------------------------------------------------------
(* historyWorker and writeHistory. *)

\* The select statement evaluates d.stopCh once, when it is reached.  Nothing
\* orders that read after Close's write: it may still return the channel.
EnterSelect ==
    /\ wpc = "top"
    /\ wpc' = "select"
    /\ sel' \in {"chan", stopCh}
    /\ UNCHANGED <<now, issued, pending, ch, hand, tries, draining, closing, table, pruner>>

\* Mutant of ReceiveStop: the worker returns without its drain loop.
StopWithoutDrain ==
    /\ wpc = "select"
    /\ sel = "chan"
    /\ stop = "closed"
    /\ wpc' = "stopped"
    /\ UNCHANGED <<now, issued, pending, ch, sel, hand, tries, draining, closing, table, pruner>>

\* A nil channel is never ready: only the channel it was can wake the worker.
ReceiveStop ==
    /\ wpc = "select"
    /\ sel = "chan"
    /\ stop = "closed"
    /\ wpc' = "drain"
    /\ UNCHANGED <<now, issued, pending, ch, sel, hand, tries, draining, closing, table, pruner>>

\* Take the next entry, in the select or in the drain loop.
Receive ==
    /\ wpc \in {"select", "drain"}
    /\ ch # <<>>
    /\ hand' = {Head(ch)}
    /\ ch' = Tail(ch)
    /\ tries' = 0
    /\ draining' = (wpc = "drain")
    /\ wpc' = "write"
    /\ UNCHANGED <<now, issued, pending, sel, closing, table, pruner>>

DrainDone ==
    /\ wpc = "drain"
    /\ ch = <<>>
    /\ wpc' = "stopped"
    /\ UNCHANGED <<now, issued, pending, ch, sel, hand, tries, draining, closing, table, pruner>>

\* writeHistory returns to the loop that called it.
Resume ==
    /\ wpc' = IF draining THEN "drain" ELSE "top"
    /\ hand' = {}
    /\ tries' = 0
    /\ UNCHANGED <<sel, draining>>

Written(id) == \E r \in rows : r.id = id

\* INSERT OR IGNORE.
Insert ==
    /\ wpc = "write"
    /\ Usable
    /\ \E e \in hand :
          IF Written(e.id)
          THEN UNCHANGED table
          ELSE /\ rows' = rows \cup {[id |-> e.id, at |-> e.at, rowid |-> nextRow, pinned |-> FALSE]}
               /\ nextRow' = nextRow + 1
               /\ fresh' = fresh \cup {e.id}
    /\ wpc' = "prune"
    /\ UNCHANGED <<now, issued, pending, ch, sel, hand, tries, draining, closing, pruner>>

\* Mutant of InsertFails: the last attempt starts over.
InsertFailsForever ==
    /\ wpc = "write"
    /\ ~Waiting
    /\ tries' = (tries + 1) % MaxTries
    /\ UNCHANGED <<now, issued, pending, ch, wpc, sel, hand, draining, closing, table, pruner>>

\* Mutant of InsertFails: the entry goes back to the channel and is tried again too.
InsertFailsRequeues ==
    /\ wpc = "write"
    /\ ~Waiting
    /\ ch' = IF Len(ch) < ChanCap THEN ch \o SetToSeq(hand) ELSE ch
    /\ IF tries + 1 < MaxTries
       THEN /\ tries' = tries + 1
            /\ UNCHANGED <<wpc, sel, hand, draining>>
       ELSE Resume
    /\ UNCHANGED <<now, issued, pending, closing, table, pruner>>

\* The insert fails (the file is locked, or the database was closed): sleep and
\* try again, and give the entry up after the last attempt.
InsertFails ==
    /\ wpc = "write"
    /\ ~Waiting
    /\ IF tries + 1 < MaxTries
       THEN /\ tries' = tries + 1
            /\ UNCHANGED <<wpc, sel, hand, draining>>
       ELSE Resume
    /\ UNCHANGED <<now, issued, pending, ch, closing, table, pruner>>

\* ORDER BY executed_at DESC, rowid DESC.
Newer(q, r) == q.at > r.at \/ (q.at = r.at /\ q.rowid > r.rowid)
Unpinned == {r \in rows : ~r.pinned}
\* Mutant of NewerUnpinned: pinned rows take up places under the cap.
NewerRows(r) == {q \in rows : Newer(q, r)}

NewerUnpinned(r) == {q \in Unpinned : Newer(q, r)}

\* Mutant of PruneToCap: one row too many stays.
PruneAboveCap ==
    /\ Usable
    /\ rows' = {r \in rows : r.pinned \/ Cardinality(NewerUnpinned(r)) =< HistoryCap}
    /\ fresh' = {}
    /\ UNCHANGED nextRow

\* DELETE ... WHERE is_pinned = 0 AND rowid NOT IN (the HistoryCap newest with
\* is_pinned = 0).
PruneToCap ==
    /\ Usable
    /\ rows' = {r \in rows : r.pinned \/ Cardinality(NewerUnpinned(r)) < HistoryCap}
    /\ fresh' = {}
    /\ UNCHANGED nextRow

PruneAfterInsert ==
    /\ wpc = "prune"
    /\ PruneToCap
    /\ Resume
    /\ UNCHANGED <<now, issued, pending, ch, closing, pruner>>

\* The failure of the prune is logged.
PruneAfterInsertFails ==
    /\ wpc = "prune"
    /\ ~Waiting
    /\ Resume
    /\ UNCHANGED <<now, issued, pending, ch, closing, table, pruner>>

----------------------------------------------------------------------------
(* Requests of the history panel. *)

\* SetPinned; an unknown id is an error and changes nothing.
SetPinned(id, pinned) ==
    /\ Usable
    /\ Written(id)
    /\ rows' = {IF r.id = id THEN [r EXCEPT !.pinned = pinned] ELSE r : r \in rows}
    /\ fresh' = IF pinned THEN fresh ELSE fresh \cup {id}
    /\ UNCHANGED <<now, issued, pending, ch, worker, closing, nextRow, pruner>>

\* Mutant of PruneByAge: is_pinned = 0 is missing.
PruneAnyByAge(cutoff) ==
    /\ pruner = "idle"
    /\ Usable
    /\ rows' = {r \in rows : r.at >= cutoff}
    /\ pruner' = "cap"
    /\ UNCHANGED <<now, issued, pending, ch, worker, closing, nextRow, fresh>>

\* PruneHistory with maxAgeDays > 0: first what is older than the cutoff.
PruneByAge(cutoff) ==
    /\ pruner = "idle"
    /\ Usable
    /\ rows' = {r \in rows : r.pinned \/ r.at >= cutoff}
    /\ pruner' = "cap"
    /\ UNCHANGED <<now, issued, pending, ch, worker, closing, nextRow, fresh>>

\* ... then, or at once with maxAgeDays = 0, what is above the cap.
PruneManually ==
    /\ pruner \in {"idle", "cap"}
    /\ PruneToCap
    /\ pruner' = "idle"
    /\ UNCHANGED <<now, issued, pending, ch, worker, closing>>

\* The second statement fails: the call returns its error.
PruneManuallyFails ==
    /\ pruner = "cap"
    /\ ~Waiting
    /\ pruner' = "idle"
    /\ UNCHANGED <<now, issued, pending, ch, worker, closing, table>>

----------------------------------------------------------------------------
(* Database.Close and the next Open. *)

CloseStop ==
    /\ stop = "open"
    /\ stop' = "closed"
    /\ UNCHANGED <<now, issued, pending, ch, worker, stopCh, pool, table, pruner>>

ClearStop ==
    /\ stop = "closed"
    /\ stopCh = "chan"
    /\ stopCh' = "nil"
    /\ UNCHANGED <<now, issued, pending, ch, worker, stop, pool, table, pruner>>

\* Nothing waits for the worker, and d.db.Close not for an export.
CloseDb ==
    /\ stopCh = "nil"
    /\ open
    /\ open' = FALSE
    /\ UNCHANGED <<now, issued, pending, ch, worker, stop, stopCh, held, table, pruner>>

\* The process is killed, or Close is done and the name is attached again: a
\* new Database with a new channel and worker.  A database in memory may be
\* empty; one in a file, or whose cache a connection still shares, is not.
Reopen ==
    /\ pending' = {} /\ ch' = <<>>
    /\ wpc' = "top" /\ sel' = "chan" /\ hand' = {} /\ tries' = 0 /\ draining' = FALSE
    /\ stop' = "open" /\ stopCh' = "chan" /\ open' = TRUE /\ held' = FALSE
    /\ rows' \in {rows, {}}
    /\ pruner' = "idle"
    /\ UNCHANGED <<now, issued, nextRow, fresh>>

----------------------------------------------------------------------------

WorkerLoop == EnterSelect \/ ReceiveStop \/ Receive \/ DrainDone

WorkerStatement == Insert \/ InsertFails \/ PruneAfterInsert \/ PruneAfterInsertFails

Panel ==
    \/ \E id \in Ids, pinned \in BOOLEAN : SetPinned(id, pinned)
    \/ \E cutoff \in 0..MaxTime : PruneByAge(cutoff)
    \/ PruneManually
    \/ PruneManuallyFails

Next ==
    \/ Stamp
    \/ \E e \in pending : Send(e)
    \/ WorkerLoop \/ WorkerStatement
    \/ Panel
    \/ OpenExport \/ EndExport
    \/ CloseStop \/ ClearStop \/ CloseDb
    \/ Reopen

\* The scheduler runs the worker goroutine and a Close that was begun.  Of those
\* that wait for the connection the pool serves one at random, so the worker is
\* not passed over for ever.  Nobody has to query, pin or close, any write may
\* fail, and an export may keep the connection for ever.
Spec ==
    /\ Init /\ [][Next]_vars
    /\ WF_vars(WorkerLoop) /\ SF_vars(WorkerStatement)
    /\ WF_vars(ClearStop) /\ WF_vars(CloseDb)

----------------------------------------------------------------------------
(* Properties. *)

TypeOK ==
    /\ now \in 0..MaxTime
    /\ issued \in 0..MaxQueries
    /\ pending \subseteq EntryType
    /\ ch \in Seq(EntryType)
    /\ Len(ch) =< ChanCap
    /\ wpc \in {"top", "select", "write", "prune", "drain", "stopped"}
    /\ sel \in {"chan", "nil"}
    /\ hand \subseteq EntryType
    /\ tries \in 0..(MaxTries - 1)
    /\ draining \in BOOLEAN
    /\ stop \in {"open", "closed"}
    /\ stopCh \in {"chan", "nil"}
    /\ open \in BOOLEAN /\ held \in BOOLEAN
    /\ rows \subseteq RowType
    /\ nextRow \in Nat
    /\ pruner \in {"idle", "cap"}
    /\ fresh \subseteq Ids

ChIds == {ch[i].id : i \in DOMAIN ch}
HandIds == {e.id : e \in hand}
PendingIds == {e.id : e \in pending}
RowIds == {r.id : r \in rows}

\* A query is recorded at most once, however often its insert is attempted: an
\* entry is in one place between RecordQuery and the table, and a query_id and
\* a rowid belong to one row.
OneCopy ==
    /\ \A i, j \in DOMAIN ch : ch[i].id = ch[j].id => i = j
    /\ PendingIds \cap (ChIds \cup HandIds \cup RowIds) = {}
    /\ ChIds \cap (HandIds \cup RowIds) = {}
    /\ wpc # "prune" => HandIds \cap RowIds = {}
    /\ \A r, q \in rows : (r.id = q.id \/ r.rowid = q.rowid) => r = q

\* maxHistoryEntries: apart from rows inserted or unpinned since the last cap
\* prune there are never more unpinned rows than the cap.  Pinned rows do not
\* use up places, and no interleaving of the worker's two statements with the
\* panel's lets rows pile up.
CapRespected == Cardinality({r \in Unpinned : r.id \notin fresh}) =< HistoryCap

EmptiedByReopen == Reopen /\ rows' = {}

\* "protects entry from pruning": a pinned row leaves the table only with the
\* whole database in memory, and changes only by being unpinned.
PinnedStay ==
    [][\A r \in rows : r.pinned /\ r \notin rows' => SetPinned(r.id, FALSE) \/ EmptiedByReopen]_vars

\* The cap takes the oldest: an unpinned row that is not too old for a TTL
\* purge goes only when HistoryCap unpinned rows are newer.
NewestStay ==
    [][\A r \in rows : r.id \notin RowIds' =>
          \/ Cardinality({q \in rows : ~q.pinned /\ Newer(q, r)}) >= HistoryCap
          \/ \E cutoff \in 0..MaxTime : r.at < cutoff /\ PruneByAge(cutoff)
          \/ EmptiedByReopen]_vars

\* The worker's loops: what is in the channel before the worker ends is taken out
\* of it, whether or not Close comes in between, unless an export keeps the
\* connection for ever and nobody closes the database.
HandledBesidesExports ==
    ([]<>~Waiting) => \A id \in Ids : (id \in ChIds /\ wpc # "stopped") ~> id \notin ChIds

\* After Close the worker does not go on for ever, also when an export has the
\* connection: it ends, or, when Close cleared d.stopCh before the worker came
\* back to its select, it is left waiting on nothing with an empty channel.
WorkerRests ==
    stop = "closed" ~> \/ wpc = "stopped"
                       \/ wpc = "select" /\ sel = "nil" /\ ch = <<>>
                       \/ stop = "open"

=============================================================================
