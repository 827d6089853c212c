------------------------------ MODULE CsvImport ------------------------------
(***************************************************************************)
(* ImportCSV (internal/engine/io.go): the rows of a file go into a table   *)
(* in transactions of batchSize rows, and the next transaction begins      *)
(* right after each commit, also after the last.                           *)
(*                                                                         *)
(* A row of the file is its primary key, or Bad when no strategy takes it  *)
(* (it does not parse, or breaks what OR IGNORE does not forgive), or      *)
(* Ignorable when it breaks NOT NULL, CHECK or a UNIQUE that is not the    *)
(* primary key, which OR IGNORE forgives.                                  *)
(* A row of the table is the number of the file row that wrote it last, 0  *)
(* for one that was there before the call.                                 *)
(*                                                                         *)
(* The pool has one connection, so an open transaction excludes all other  *)
(* statements; between a commit and the next BEGIN they get their turn.    *)
(***************************************************************************)
EXTENDS Integers, Sequences, FiniteSets, FiniteSetsExt

CONSTANTS
    Keys,       \* primary keys
    Bad,        \* a row that fails
    Ignorable,  \* a row that fails, but for OR IGNORE, which drops it
    FileLen,    \* bound: rows of a file
    BatchSize   \* batchSize, 1000

ASSUME BadAssumption == {Bad, Ignorable} \cap Keys = {} /\ Bad # Ignorable
ASSUME KeysAssumption == IsFiniteSet(Keys)
ASSUME FileLenAssumption == FileLen \in Nat
ASSUME BatchSizeAssumption == BatchSize \in Nat \ {0}

VARIABLES
    there,      \* whether the table exists
    stored,     \* the table: a function from the keys in it
    open,       \* whether the Database of the call is open
    cancelled,  \* whether the context of the call is cancelled
    pc,         \* where the call stands
    file,       \* rows of the file read so far; its end may come after any
    strategy,   \* duplicateStrategy; "keys" is overwrite with key columns only
    tx,         \* the transaction: "none", "active" or "lost" (rolled back under it)
    work,       \* the table as the transaction sees it
    batchRows,  \* rows executed since the last commit
    res,        \* the ImportResult
    before,     \* history variable: the table when the call began
    base,       \* history variable: rows read when the last commit was made
    touched     \* history variable: whether others wrote since the call began

table == <<there, stored>>
call == <<file, strategy, before>>
history == <<base, touched>>
progress == <<batchRows, res>>
vars == <<table, open, cancelled, pc, call, progress, tx, work, history>>

Strategies == {"fail", "skip", "overwrite", "keys"}
NoRows == [k \in {} |-> 0]
NoResult == [processed |-> 0, inserted |-> 0, skipped |-> 0, failed |-> 0]

Init ==
    /\ there \in BOOLEAN
    /\ \E K \in SUBSET Keys : stored = IF there THEN [k \in K |-> 0] ELSE NoRows
    /\ open = TRUE /\ cancelled = FALSE
    /\ pc = "idle"
    /\ file = <<>> /\ strategy = "fail" /\ before = stored
    /\ batchRows = 0 /\ res = NoResult
    /\ tx = "none" /\ work = NoRows /\ base = 0 /\ touched = FALSE

----------------------------------------------------------------------------
(* The call. *)

Call ==
    /\ pc \in {"idle", "done", "failed"}
    /\ strategy' \in Strategies
    /\ file' = <<>>
    /\ stored' = [k \in DOMAIN stored |-> 0]
    /\ before' = stored'
    /\ open' = TRUE /\ cancelled' = FALSE
    /\ batchRows' = 0 /\ res' = NoResult
    /\ base' = 0 /\ touched' = FALSE
    /\ pc' = "check"
    /\ UNCHANGED <<there, tx, work>>

\* Schema() has to list the table.
Check ==
    /\ pc = "check"
    /\ pc' = IF open /\ there THEN "begin" ELSE "failed"
    /\ UNCHANGED <<table, open, cancelled, call, progress, tx, work, history>>

\* BeginTx, for the first batch and after each commit.
Begin ==
    /\ pc = "begin"
    /\ open /\ ~cancelled
    /\ tx' = "active"
    /\ work' = stored
    /\ pc' = "row"
    /\ UNCHANGED <<table, open, cancelled, call, progress, history>>

\* The call returns an error, also when what it failed to begin is the
\* transaction after the last commit.
BeginFails ==
    /\ pc \in {"begin", "final"}
    /\ ~open \/ cancelled
    /\ pc' = "failed"
    /\ UNCHANGED <<table, open, cancelled, call, progress, tx, work, history>>

\* The reader returns the next row.
Read(k) == Len(file) < FileLen /\ file' = Append(file, k)

Rows == Keys \cup {Bad, Ignorable}

OrIgnore == strategy \in {"skip", "keys"}

\* A row that does not parse or whose INSERT fails; the import goes on.
RowFails ==
    /\ pc = "row"
    /\ \E k \in Rows :
          /\ Read(k)
          /\ \/ tx = "lost" \/ ~there
             \/ k = Bad
             \/ k = Ignorable /\ ~OrIgnore
             \/ k \in DOMAIN work /\ strategy = "fail"
    /\ res' = [res EXCEPT !.processed = @ + 1, !.failed = @ + 1]
    /\ UNCHANGED <<table, open, cancelled, pc, strategy, before, tx, work, batchRows, history>>

Written(k) == [j \in DOMAIN work \cup {k} |-> IF j = k THEN Len(file) + 1 ELSE work[j]]

\* Mutant of Execute: OR REPLACE, which also deletes a row with the same value
\* under another UNIQUE.
ExecuteReplacing(w) ==
    \E x \in Keys : work' = [j \in DOMAIN w \ {x} |-> w[j]] /\ UNCHANGED stored

\* Mutant of Execute: the statement does not run in the transaction.
ExecuteOutside(w) == work' = w /\ stored' = w

Execute(w) == work' = w /\ UNCHANGED stored

\* RowsAffected is asked for "skip" only.
Tally(ignored) ==
    IF ignored /\ strategy = "skip"
    THEN [res EXCEPT !.processed = @ + 1, !.skipped = @ + 1]
    ELSE [res EXCEPT !.processed = @ + 1, !.inserted = @ + 1]

\* A row whose INSERT succeeds: it is new, or it is ignored, or it updates.
RowTaken ==
    /\ pc = "row"
    /\ tx = "active" /\ there
    /\ \E k \in Keys \cup {Ignorable} :
          LET ignored == OrIgnore /\ k \in DOMAIN work \cup {Ignorable}
          IN  /\ Read(k)
              /\ k = Ignorable => OrIgnore
              /\ strategy = "fail" => k \notin DOMAIN work
              /\ Execute(IF ignored THEN work ELSE Written(k))
              /\ res' = Tally(ignored)
    /\ batchRows' = batchRows + 1
    /\ pc' = IF batchRows' >= BatchSize THEN "commit" ELSE "row"
    /\ UNCHANGED <<there, open, cancelled, strategy, before, tx, history>>

EndOfFile ==
    /\ pc = "row"
    /\ pc' = "last"
    /\ UNCHANGED <<table, open, cancelled, call, progress, tx, work, history>>

\* Mutant of Commit: batchRows is not reset.
CommitKeepsCount ==
    /\ pc \in {"commit", "last"}
    /\ tx = "active" /\ ~cancelled
    /\ stored' = work
    /\ base' = Len(file)
    /\ tx' = "none"
    /\ pc' = IF pc = "commit" THEN "begin" ELSE "final"
    /\ UNCHANGED <<there, open, cancelled, call, batchRows, res, work, touched>>

\* Mutant of Commit: the rows after the last whole batch are not committed.
CommitBatchesOnly ==
    /\ pc \in {"commit", "last"}
    /\ tx = "active" /\ ~cancelled
    /\ IF pc = "commit" THEN stored' = work /\ base' = Len(file) ELSE UNCHANGED <<stored, base>>
    /\ tx' = "none"
    /\ batchRows' = 0
    /\ pc' = IF pc = "commit" THEN "begin" ELSE "final"
    /\ UNCHANGED <<there, open, cancelled, call, res, work, touched>>

\* Commit after a whole batch, and once more at the end of the file.
Commit ==
    /\ pc \in {"commit", "last"}
    /\ tx = "active" /\ ~cancelled
    /\ stored' = work
    /\ base' = Len(file)
    /\ tx' = "none"
    /\ batchRows' = 0
    /\ pc' = IF pc = "commit" THEN "begin" ELSE "final"
    /\ UNCHANGED <<there, open, cancelled, call, res, work, touched>>

\* The transaction is gone, or the commit of something fails.
CommitFails ==
    /\ pc \in {"commit", "last"}
    /\ cancelled \/ work # stored
    /\ tx' = "none"
    /\ pc' = "failed"
    /\ UNCHANGED <<table, open, cancelled, call, progress, work, history>>

\* The transaction begun after the last commit is rolled back empty.
Finish ==
    /\ pc = "final"
    /\ open /\ ~cancelled
    /\ pc' = "done"
    /\ UNCHANGED <<table, open, cancelled, call, progress, tx, work, history>>

----------------------------------------------------------------------------
(* What happens to it. *)

Running == pc \notin {"idle", "done", "failed"}

\* The client of a synchronous import goes away: database/sql rolls back.
Cancel ==
    /\ Running
    /\ ~cancelled
    /\ cancelled' = TRUE
    /\ tx' = IF tx = "active" THEN "lost" ELSE tx
    /\ UNCHANGED <<table, open, pc, call, progress, work, history>>

\* Detach: the connection in use stays until it is given back, then no more.
Detach ==
    /\ Running
    /\ open
    /\ open' = FALSE
    /\ UNCHANGED <<table, cancelled, pc, call, progress, tx, work, history>>

\* The process is killed and started again.
Crash ==
    /\ Running
    /\ pc' = "idle"
    /\ tx' = "none"
    /\ UNCHANGED <<table, open, cancelled, call, progress, work, history>>

\* Other requests, whenever the connection is free.
OtherWrite ==
    /\ tx # "active"
    /\ \/ /\ there
          /\ \E k \in Keys :
                stored' \in {[j \in DOMAIN stored \cup {k} |-> IF j = k THEN 0 ELSE stored[j]],
                             [j \in DOMAIN stored \ {k} |-> stored[j]]}
          /\ UNCHANGED there
       \/ there' = ~there /\ stored' = NoRows
    /\ touched' = TRUE
    /\ UNCHANGED <<open, cancelled, pc, call, progress, tx, work, base>>

----------------------------------------------------------------------------

Next ==
    \/ Call \/ Check \/ Begin \/ BeginFails
    \/ RowFails \/ RowTaken \/ EndOfFile
    \/ Commit \/ CommitFails \/ Finish
    \/ Cancel \/ Detach \/ Crash
    \/ OtherWrite

Spec == Init /\ [][Next]_vars

----------------------------------------------------------------------------
(* Properties. *)

Tables == UNION {[K -> 0..FileLen] : K \in SUBSET Keys}
Results == [processed : 0..FileLen, inserted : 0..FileLen, skipped : 0..FileLen, failed : 0..FileLen]

TypeOK ==
    /\ there \in BOOLEAN /\ stored \in Tables /\ (~there => stored = NoRows)
    /\ open \in BOOLEAN /\ cancelled \in BOOLEAN
    /\ pc \in {"idle", "check", "begin", "row", "commit", "last", "final", "done", "failed"}
    /\ file \in Seq(Rows) /\ Len(file) =< FileLen
    /\ strategy \in Strategies
    /\ base \in 0..Len(file) /\ touched \in BOOLEAN
    /\ tx \in {"none", "active", "lost"}
    /\ work \in Tables /\ before \in Tables
    /\ batchRows \in 0..BatchSize
    /\ res \in Results

RowsOf(k, n) == {i \in 1..n : file[i] = k}

\* What the first n rows of the file make of the table, said without a loop:
\* a key keeps its first row, except that overwriting keeps its last.
Expected(n) ==
    [k \in DOMAIN before \cup {file[i] : i \in {j \in 1..n : file[j] \in Keys}} |->
        IF strategy = "overwrite" /\ RowsOf(k, n) # {} THEN Max(RowsOf(k, n))
        ELSE IF k \in DOMAIN before THEN before[k]
        ELSE Min(RowsOf(k, n))]

\* The rows among the first n that fail wherever the table stands.
Failing(n) == {i \in 1..n : file[i] = Bad \/ (file[i] = Ignorable /\ ~OrIgnore)}

\* Batches: whenever the call is stopped, by a crash, a cancelled request, a
\* detach or a failed commit, the table holds the effect of a prefix of the
\* file, and never part of a batch, unless others wrote to it too.
StoredIsPrefix ==
    there /\ ~touched => stored = Expected(base)

\* A call that returns no error has stored all it counted, so nothing it reports
\* is rolled back by the deferred Rollback; and when nobody else writes to the
\* table its counts are true of it: for "fail" and "skip" the rows inserted are
\* the keys that are new, and but for "fail" the failed ones are those that had to.
DoneIsTrue ==
    pc = "done" =>
        /\ base = Len(file)
        /\ ~touched =>
              /\ strategy \in {"fail", "skip"} =>
                    res.inserted = Cardinality(DOMAIN stored) - Cardinality(DOMAIN before)
              /\ strategy # "fail" => res.failed = Cardinality(Failing(Len(file)))

\* Other requests write to the table between two batches.  A commit changes
\* the rows of its own batch and loses nobody else's write.
NoLostUpdate ==
    [][Commit =>
          \A k \in Keys :
              \/ \E i \in (base + 1)..Len(file) : file[i] = k
              \/ /\ k \in DOMAIN stored <=> k \in DOMAIN stored'
                 /\ k \in DOMAIN stored => stored[k] = stored'[k]]_vars

=============================================================================
