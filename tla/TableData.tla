------------------------------ MODULE TableData ------------------------------
(***************************************************************************)
(* The rows of one user table: browsing and batches                        *)
(* (internal/engine/data.go), single records by primary key                *)
(* (internal/api/rest.go) and exports (internal/engine/io.go).             *)
(*                                                                         *)
(* The pool has one connection (database.go, SetMaxOpenConns): conn is the *)
(* request whose transaction or open result holds it.  A statement outside *)
(* a transaction is one step taken while nobody does.                      *)
(***************************************************************************)
EXTENDS RowOps, SequencesExt

CONSTANTS
    Requests,           \* concurrent requests
    NoOne,              \* conn: the connection is free
    Batches,            \* the operations of batches, created records and cell updates
    Bodies,             \* the values of updated records
    Filters,            \* what filters let pass: sets of values of column "val"
    MaxPage,            \* bound: page asked for
    MaxPageSize,        \* 500
    DefaultPageSize     \* 50

ASSUME NoOneAssumption == NoOne \notin Requests
ASSUME BatchesAssumption == Batches \subseteq Seq(Op)
ASSUME BodiesAssumption == Bodies \subseteq Sets
ASSUME FiltersAssumption == Filters \subseteq SUBSET Vals
ASSUME PageAssumption ==
    /\ MaxPage \in Nat /\ MaxPageSize \in Nat \ {0}
    /\ DefaultPageSize \in 1..MaxPageSize

VARIABLES
    table,      \* the committed rows
    composite,  \* whether the primary key has two columns
    conn,       \* who holds the connection
    pc,         \* where each request stands
    want,       \* the operations it passes to Batch
    work,       \* its transaction: the tables before, between and after them
    record,     \* a record endpoint: the key it names, the values, the row id
    view,       \* a browse: what was asked for, counted and read
    sent,       \* an export: the rows written to the client
    moved       \* history variable: the row it looked up may stand for another
                \* record; the table changed since it was counted

batch == <<want, work>>
reading == <<view, sent>>
vars == <<table, composite, conn, pc, batch, record, reading, moved>>

NoRecord == [key |-> Bad, set |-> Nothing, row |-> 0]
NoView == [filter |-> {}, asked |-> 1, size |-> 1, page |-> 1, total |-> 0, rows |-> {}]

Init ==
    /\ composite \in BOOLEAN
    /\ table \in {t \in Tables : \A i \in DOMAIN t : Unique(t, i, t[i], composite)}
    /\ conn = NoOne
    /\ pc = [r \in Requests |-> "idle"]
    /\ want = [r \in Requests |-> <<>>] /\ work = [r \in Requests |-> <<>>]
    /\ record = [r \in Requests |-> NoRecord]
    /\ view = [r \in Requests |-> NoView]
    /\ sent = [r \in Requests |-> Nothing]
    /\ moved = [r \in Requests |-> FALSE]

\* Mutant of Free: statements do not wait for an open transaction or result.
FreeAlways == TRUE

Free == conn = NoOne

\* Mutant of Released: the connection of a failed batch is not given back.
ReleasedUnlessLast(r) == IF conn = r /\ pc[r] # "run" THEN NoOne ELSE conn

\* The deferred Rollback or Close gives the connection back.
Released(r) == IF conn = r THEN NoOne ELSE conn

\* The request is over; what it knew is gone.
Over(r) ==
    /\ pc' = [pc EXCEPT ![r] = "idle"]
    /\ want' = [want EXCEPT ![r] = <<>>]
    /\ work' = [work EXCEPT ![r] = <<>>]
    /\ record' = [record EXCEPT ![r] = NoRecord]
    /\ view' = [view EXCEPT ![r] = NoView]
    /\ sent' = [sent EXCEPT ![r] = Nothing]

\* What a change of the table means to the others: the ids in unseated no
\* longer stand for the same record.
Moves(r, unseated) ==
    moved' = [q \in Requests |->
                 /\ q # r
                 /\ \/ moved[q]
                    \/ IF pc[q] \in {"page", "answer"} THEN table' # table
                       ELSE record[q].row \in unseated]

Settle(r) == moved' = [moved EXCEPT ![r] = FALSE]

Go(r, from, to) == pc[r] = from /\ pc' = [pc EXCEPT ![r] = to]

----------------------------------------------------------------------------
(* Batches: handleBatchTable, handleUpdateCell, handleCreateRecord.         *)

AskBatch(r) ==
    /\ Go(r, "idle", "begin")
    /\ \E ops \in Batches : want' = [want EXCEPT ![r] = ops]
    /\ UNCHANGED <<table, composite, conn, work, record, reading, moved>>

Begin(r) ==
    /\ Free
    /\ Go(r, "begin", "run")
    /\ conn' = r
    /\ work' = [work EXCEPT ![r] = <<table>>]
    /\ UNCHANGED <<table, composite, want, record, reading, moved>>

\* The operation the transaction is at.
Running(r) == pc[r] = "run" /\ Len(work[r]) =< Len(want[r])
Outcome(r) == Outcomes(want[r][Len(work[r])], Last(work[r]), composite)

Execute(r) ==
    /\ Running(r)
    /\ \E t \in Outcome(r) : work' = [work EXCEPT ![r] = Append(@, t)]
    /\ UNCHANGED <<table, composite, conn, pc, want, record, reading, moved>>

\* Mutant of Refuse: what was executed before the failure is committed.
RefuseRest(r) ==
    /\ Running(r)
    /\ Outcome(r) = {}
    /\ conn' = NoOne
    /\ Over(r)
    /\ table' = Last(work[r])
    /\ Moves(r, {})
    /\ UNCHANGED composite

\* An operation fails: the error goes to the client and the rest is undone.
Refuse(r) ==
    /\ Running(r)
    /\ Outcome(r) = {}
    /\ conn' = Released(r)
    /\ Over(r)
    /\ Settle(r)
    /\ UNCHANGED <<table, composite>>

Commit(r) ==
    /\ pc[r] = "run" /\ Len(work[r]) > Len(want[r])
    /\ table' = Last(work[r])
    /\ conn' = Released(r)
    /\ Over(r)
    /\ Moves(r, {i \in Rows : \E n \in DOMAIN want[r] : Unseats(want[r][n], i)})
    /\ UNCHANGED composite

----------------------------------------------------------------------------
(* Records by primary key: handleGetRecord, handleUpdateRecord,             *)
(* handleDeleteRecord.                                                      *)

AskRecord(r) ==
    /\ pc[r] = "idle"
    /\ \E k \in Keys, set \in Bodies, to \in {"get", "lookup", "erase"} :
          /\ pc' = [pc EXCEPT ![r] = to]
          /\ record' = [record EXCEPT ![r] =
                           [key |-> k, set |-> IF to = "lookup" THEN set ELSE Nothing, row |-> 0]]
    /\ UNCHANGED <<table, composite, conn, batch, reading, moved>>

\* The record is read and answered, or it is not found.
GetRecord(r) ==
    /\ Free
    /\ pc[r] = "get"
    /\ Over(r)
    /\ Settle(r)
    /\ UNCHANGED <<table, composite, conn>>

\* Mutant of Found: the row id is the position of the record in the table.
FoundAt(k) == {Cardinality({j \in DOMAIN table : j =< i}) : i \in Named(table, k)}

\* SELECT rowid ... WHERE key = ...: the first of the rows.
Found(k) == Named(table, k)

\* The row id goes into a batch of one update, which begins in a later step.
LookUp(r) ==
    /\ Free
    /\ Go(r, "lookup", "begin")
    /\ \E i \in Found(record[r].key) :
          /\ record' = [record EXCEPT ![r].row = i]
          /\ want' = [want EXCEPT ![r] = <<[op |-> "update", row |-> i, set |-> record[r].set]>>]
    /\ Settle(r)
    /\ UNCHANGED <<table, composite, conn, work, reading>>

\* ERR_RECORD_NOT_FOUND
Miss(r) ==
    /\ Free
    /\ pc[r] = "lookup" /\ Found(record[r].key) = {}
    /\ Over(r)
    /\ Settle(r)
    /\ UNCHANGED <<table, composite, conn>>

\* One DELETE; not found if it deletes nothing.
DeleteRecord(r) ==
    /\ Free
    /\ pc[r] = "erase"
    /\ table' = Without(table, Named(table, record[r].key))
    /\ Over(r)
    /\ Moves(r, Named(table, record[r].key))
    /\ UNCHANGED <<composite, conn>>

----------------------------------------------------------------------------
(* Browse: handleBrowseTable, handleListRecords.                            *)

PageSize(n) == IF n < 1 \/ n > MaxPageSize THEN DefaultPageSize ELSE n

AskBrowse(r) ==
    /\ Go(r, "idle", "count")
    /\ \E page \in 0..MaxPage, n \in 0..MaxPageSize, F \in Filters :
          view' = [view EXCEPT ![r] = [NoView EXCEPT !.asked = IF page < 1 THEN 1 ELSE page,
                                                     !.size = PageSize(n), !.filter = F]]
    /\ UNCHANGED <<table, composite, conn, batch, record, sent, moved>>

\* buildWhere: the same condition in both statements.
Matching(F) == {i \in DOMAIN table : table[i].val \in F}

\* Mutant of Clamped: one page too many when the last one is full.
ClampedOver(asked, total, size) ==
    LET pageCount == total \div size + 1
    IN  IF asked > pageCount THEN pageCount ELSE asked

\* Mutant of Clamped: an empty table has no page.
ClampedToNone(asked, total, size) ==
    LET pageCount == (total + size - 1) \div size
    IN  IF asked > pageCount THEN pageCount ELSE asked

\* No page after the last one, and always a first.
Clamped(asked, total, size) ==
    LET pageCount == IF total = 0 THEN 1 ELSE (total + size - 1) \div size
    IN  IF asked > pageCount THEN pageCount ELSE asked

Count(r) ==
    /\ Free
    /\ Go(r, "count", "page")
    /\ LET total == Cardinality(Matching(view[r].filter))
       IN  view' = [view EXCEPT ![r].total = total,
                                ![r].page = Clamped(view[r].asked, total, view[r].size)]
    /\ Settle(r)
    /\ UNCHANGED <<table, composite, conn, batch, record, sent>>

\* LIMIT and OFFSET count the matching rows in the order of the row ids.
ReadPage(r) ==
    /\ Free
    /\ Go(r, "page", "answer")
    /\ LET M == Matching(view[r].filter)
           offset == (view[r].page - 1) * view[r].size
           Rank(i) == Cardinality({j \in M : j =< i})
       IN  view' = [view EXCEPT ![r].rows = {i \in M : Rank(i) \in offset + 1 .. offset + view[r].size}]
    /\ UNCHANGED <<table, composite, conn, batch, record, sent, moved>>

Answer(r) ==
    /\ pc[r] = "answer"
    /\ Over(r)
    /\ Settle(r)
    /\ UNCHANGED <<table, composite, conn>>

----------------------------------------------------------------------------
(* Export: ExportCSV, ExportJSON, handleExport.                             *)

AskExport(r) ==
    /\ Go(r, "idle", "export")
    /\ UNCHANGED <<table, composite, conn, batch, record, reading, moved>>

\* openExport: the open result keeps the connection.
OpenExport(r) ==
    /\ Free
    /\ Go(r, "export", "stream")
    /\ conn' = r
    /\ UNCHANGED <<table, composite, batch, record, reading, moved>>

\* The next row goes out once the client has read enough of those before.
SendRow(r) ==
    /\ pc[r] = "stream"
    /\ \E i \in DOMAIN table :
          /\ i \notin DOMAIN sent[r]
          /\ \A j \in DOMAIN table : j < i => j \in DOMAIN sent[r]
          /\ sent' = [sent EXCEPT ![r] = With(@, i, table[i])]
    /\ UNCHANGED <<table, composite, conn, pc, batch, record, view, moved>>

EndExport(r) ==
    /\ pc[r] = "stream" /\ DOMAIN table \subseteq DOMAIN sent[r]
    /\ conn' = Released(r)
    /\ Over(r)
    /\ Settle(r)
    /\ UNCHANGED <<table, composite>>

----------------------------------------------------------------------------

\* A statement fails (disk, a lock of another process, a detached database),
\* or the client of an export goes away.
Fail(r) ==
    /\ pc[r] # "idle"
    /\ conn' = Released(r)
    /\ Over(r)
    /\ Settle(r)
    /\ UNCHANGED <<table, composite>>

\* AlterColumn rebuilds the table in a transaction.
Rebuild ==
    /\ Free
    /\ table' \in Renumbered(table)
    /\ Moves(NoOne, Rows)
    /\ UNCHANGED <<composite, conn, pc, batch, record, reading>>

\* The process is killed and started again; SQLite undoes open transactions.
Crash ==
    /\ conn' = NoOne
    /\ pc' = [r \in Requests |-> "idle"]
    /\ want' = [r \in Requests |-> <<>>] /\ work' = [r \in Requests |-> <<>>]
    /\ record' = [r \in Requests |-> NoRecord]
    /\ view' = [r \in Requests |-> NoView]
    /\ sent' = [r \in Requests |-> Nothing]
    /\ moved' = [r \in Requests |-> FALSE]
    /\ UNCHANGED <<table, composite>>

\* What a request does for itself until it has answered, except to write to
\* the client of an export, who may stop reading.
Step(r) ==
    \/ Begin(r) \/ Execute(r) \/ Refuse(r) \/ Commit(r)
    \/ GetRecord(r) \/ LookUp(r) \/ Miss(r) \/ DeleteRecord(r)
    \/ Count(r) \/ ReadPage(r) \/ Answer(r)
    \/ OpenExport(r)

Act(r) ==
    \/ AskBatch(r) \/ AskRecord(r) \/ AskBrowse(r) \/ AskExport(r)
    \/ Step(r)
    \/ SendRow(r) \/ EndExport(r)
    \/ Fail(r)

Next == (\E r \in Requests : Act(r)) \/ Rebuild \/ Crash

\* database/sql picks one of those who wait at random, so a request that waits
\* while the connection comes free again and again gets it, almost surely.
Fairness == \A r \in Requests : SF_vars(Step(r))

Spec == Init /\ [][Next]_vars /\ Fairness

----------------------------------------------------------------------------
(* Properties. *)

States == {"idle", "begin", "run", "get", "lookup", "erase",
           "count", "page", "answer", "export", "stream"}
Views == [filter : SUBSET Vals, asked : 1..MaxPage \cup {1}, size : 1..MaxPageSize,
          page : 1..MaxPage \cup {1}, total : 0..MaxRow, rows : SUBSET Rows]

\* The table and what the requests hold of it are what the columns allow, and
\* exactly one request, or none, holds the connection.
TypeOK ==
    /\ table \in Tables /\ composite \in BOOLEAN
    /\ conn \in Requests \cup {NoOne}
    /\ pc \in [Requests -> States]
    /\ \A r \in Requests : pc[r] \in {"run", "stream"} <=> conn = r
    /\ want \in [Requests -> Seq(Op)]
    /\ work \in [Requests -> Seq(Tables)]
    /\ record \in [Requests -> [key : Keys \cup {Bad}, set : Sets, row : 0..MaxRow]]
    /\ view \in [Requests -> Views]
    /\ sent \in [Requests -> Tables]
    /\ moved \in [Requests -> BOOLEAN]

\* rest.go:184: the row id found for a key is used in a later transaction.
\* Until then it stands for the same record, whatever is inserted meanwhile,
\* unless that record was deleted or given another key, or the table rebuilt.
NamedRecord ==
    \A r \in Requests :
        record[r].row # 0 /\ ~moved[r] =>
            record[r].row \in DOMAIN table /\ table[record[r].row].key = record[r].key

\* Browse counts and reads in two statements.  If the table did not change in
\* between and since, a page is full or the last, the pages before it hold what
\* precedes it, a page beyond the last one is the last, and no page is empty
\* when rows match.
PageIsHonest ==
    \A r \in Requests :
        pc[r] = "answer" /\ ~moved[r] =>
            LET v == view[r]
                before == {i \in Matching(v.filter) : \A j \in v.rows : i < j}
                after == {i \in Matching(v.filter) : \A j \in v.rows : i > j}
            IN  /\ v.rows = {} => v.total = 0
                /\ v.rows # {} => Cardinality(before) = (v.page - 1) * v.size
                /\ Cardinality(v.rows) = v.size \/ after = {}
                /\ v.page # v.asked => v.page < v.asked /\ v.page * v.size >= v.total

\* A client that reads slowly still gets one state of the table: what was
\* sent is the first rows of the table as it is now.
ExportIsSnapshot ==
    \A r \in Requests :
        \A i \in DOMAIN sent[r] :
            /\ i \in DOMAIN table /\ sent[r][i] = table[i]
            /\ \A j \in DOMAIN table : j < i => j \in DOMAIN sent[r]

\* Batch (data.go:200): all of a batch or nothing, applied to the table of the
\* moment of its commit, as readers of the committed rows see it.
Atomic == INSTANCE AtomicTable WITH run <- work
IsAtomicTable == Atomic!Spec

\* One slow export stops every request of the database, and nothing else
\* does: if time and again no export is open, every request is answered.
AnsweredBesidesExports ==
    \A r \in Requests :
        []<>(\A q \in Requests : pc[q] # "stream") => (pc[r] # "idle" ~> pc[r] = "idle")

=============================================================================
