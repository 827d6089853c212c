# Aeris: TLA+ models, model checking and proofs

Aeris is one executable: an HTTP server (`internal/api`) over an engine
(`internal/engine`) that attaches SQLite databases, and an embedded web client
(`web/src`). This directory models the stateful parts of both in TLA+, checks
them with TLC on small instances, and proves the most important results with
TLAPS for every value of the constants.

- [Inventory](#inventory)
- [Modules](#modules)
- [Runs](#runs)
- [Where code and text disagree](#where-code-and-text-disagree)
- [Fairness](#fairness)
- [Proofs](#proofs)
- [What is not modelled](#what-is-not-modelled)
- [Plan](#plan)

## Inventory

One `Database` (`database.go`) is a `*sql.DB` with **one** connection
(`SetMaxOpenConns(1)`), so a statement, or a transaction, excludes every other
one on the same database. Nothing else is serialised: each HTTP request is a
goroutine, and what a handler does between two statements interleaves with
every other handler, with the history worker and with import goroutines.

| component | source | state | operations | what is hard |
|---|---|---|---|---|
| Query result cache | `engine/cache.go` | LRU list, map, expiry times | Get, Set, Invalidate, QueryPaged | a fill overlaps a write; writes that never reach the cache; expiry and eviction keep two structures in step |
| Query execution | `engine/database.go` | none of its own | QueryCtx: classify, execute, then (deferred) record and invalidate | bookkeeping happens after the statement, in another step; failures skip it |
| Query history | `engine/history.go` | table, bounded channel, stop channel, worker goroutine | RecordQuery, worker, PruneHistory, SetPinned, Close | full channel, retries, two statements per write, Close racing the worker |
| Saved queries | `engine/history.go` | table | SaveQuery, DeleteSaved, ListSaved | count and insert are two statements |
| Schema operations | `engine/database.go`, `drop.go`, `alter.go`, `index.go`, `schema.go` | `sqlite_master` | Create, AddColumn, DropColumn, AlterColumn, DropTable, RenameTable, CreateIndex, DropIndex | checked against a schema that was read earlier |
| Migration ledger, catalog hash | `engine/migration.go`, `catalog.go` | ledger table, stored hash | recordMigration, updateCatalogHash, VerifyCatalog | three separate effects per schema change; `Schema()` is several statements; crash between them |
| CSV import | `engine/io.go` | one transaction, counters | ImportCSV | batches, failures of single rows, cancel, detach, crash |
| Import jobs | `engine/jobs.go`, `api/io.go` | registry, jobs | StartImport, Get, List | jobs are read without the lock |
| Table data, records | `engine/data.go`, `api/rest.go`, `api/data.go` | user tables | Browse, Batch, update and delete of a record | atomicity of a batch; a row id looked up in one statement and used in another; a page counted and read in two |
| Export | `engine/io.go` | an open result | ExportCSV, ExportJSON | holds the only connection for as long as its client takes to read |
| Table rebuild | `engine/alter.go` | user tables and their columns | AlterColumn with a type | copies what it read of the schema earlier; drops a table others refer to |
| Manager | `engine/manager.go` | name -> Database | Attach, Get, Detach, Close | handlers keep a Database that is closed meanwhile |
| API keys | `engine/auth.go`, `api/auth.go` | table | create, validate | none: a row and a look-up |
| Web client, databases and runs | `web/src/store/aeris.store.ts`, `ObjectTree.tsx`, `schema-builder.store.ts` | active database, its schema, result, abort controller | attach, select, change tables, run, cancel | answers out of order; a change that selects the database of its click again; a controller shared by overlapping runs |
| Web client, data explorer | `web/src/store/global-states/explorer.store.ts`, `utils/data-pending.util.ts`, `DataExplorer.tsx` | page of rows, pending changes | open, page, edit, add, delete, commit | edits during a commit; rows addressed by position; a database switched under an open table |

Calls go one way, from handlers to Manager to Database. The parts meet in shared state: the cache is
filled by `QueryPaged` and cleared by `QueryCtx`; the history channel is written by `QueryCtx` and
read by the worker; every schema operation ends in `recordMigration` and so in `updateCatalogHash`;
an import job runs `ImportCSV` on a `Database` that may be detached while it runs; exports, batches and
imports take turns at one connection; the explorer sends its batches to the database that is active when
its user clicks.

What makes each part correct is stated beside its module below; the hazards, with the line where each
one bites, are listed in `PROJECT.json`.

## Modules

| module | models | abstract specification |
|---|---|---|
| `QueryCache` | `cache.go`, `QueryCtx` and the writes that go round the cache | `ReadService`: a service without a cache |
| `History` | history table, channel, worker, pins and prunes, Close and the next Open | |
| `SavedQueries` | `SaveQuery`, `DeleteSaved` | |
| `SchemaLedger` | schema operations, ledger, catalog hash, verify | `AuditLog`: an append-only record of changes |
| `TableData`, over `RowOps` | Batch, cell and record endpoints, Browse, exports, on one connection | `AtomicTable`: a table that changes by whole batches |
| `TableRebuild` | AlterColumn's rebuild among other column changes, writes and foreign keys | |
| `CsvImport` | `ImportCSV` and what other requests do to it | |
| `Jobs` | the registry of jobs, their goroutines, polling | |
| `WebClient`, composing `AerisStore` and `ExplorerStore` in one `EventLoop` | the stores of the web client and the components that call them | |
| `QueryCacheProofs`, `HistoryProofs` (with the saved queries), `SchemaLedgerProofs`, `TableDataProofs`, `TableRebuildProofs`, `CsvImportProofs`, `JobsProofs`, `WebClientProofs` | theorems | |
| `MC...` | instances for TLC: symmetry, and the constants that a `.cfg` cannot express | |

Some definitions are introduced by a comment "Mutant of X". They are not part
of the models: each one is X with a plausible mistake, and replacing X by it
makes a named property fail. They document what each property protects against.

### QueryCache

The database contents are a version number `db`, one per committed mutation; the rows of a result are
the version they were read from; a statement is its own cache key (the SHA-256 of its text). `ll` is
the LRU list with its front first, `byKey` the keys of the map (which element a key points to is
determined by the list, and `ListMapAgree` says so). Ages count ticks since insertion, up to one more
than the TTL.

A request is `idle`, about to execute (`exec`), about to run its deferred invalidation (`inval`), or
holding rows that are to be stored (`fill`). `Get`, `Set` and `Invalidate` are one step each, being
one critical section of `cacheStore.mu`. One statement is one step because the pool has one
connection. Statements come in classes, since `isReadQuery` looks at the first word and not at
what the statement does: reads (`Selects`), recognised writes (`Dmls`, of which `Scripts` can fail half
way), `CteDmls` (a write that begins with WITH, or a writing PRAGMA) and `CteReturnings` (the same with
result columns). `DirectWrite` stands for all that commits without `QueryCtx`.

`marks` is a history variable of entries and held rows: "race" if an invalidation ran between the
read and the fill, "bypass" if a write after the read invalidated nothing.

- `ListMapAgree`: the two structures describe one set of at most `cacheMaxEntries` entries.
- `StaleHasCause`: an entry behind the database, with no invalidation pending, has a mark. This is
  the exact extent of what the cache gets wrong: no third cause exists.
- `EventuallyFresh`: expiry bounds the damage.
- `CoherentWhenQuiet`, `AnswersAreCurrent`: what the comments promise; they hold for one request
  at a time and recognised writes only.
- `DmlNotCached`: a statement that writes is not answered from the cache. It does not hold; see
  [Where code and text disagree](#where-code-and-text-disagree).

### History

An entry is its id and time stamp. The worker's position is `wpc`; `sel` is the value of
`d.stopCh` that its `select` evaluated. `Close` closes the channel and then sets the field to nil
without synchronisation, so a `select` reached after that may see either value; one that saw nil
never wakes up for the stop. Every write may fail (another process holds the file's lock, or the
database is closed); after `MaxTries` attempts the entry is given up. `held` says that an export has the
pool's connection (`OpenExport`, `EndExport`): meanwhile no statement of the worker or of the panel starts or
fails, since none has a deadline; closing the database wakes them with an error.

- `OneCopy`: an entry is in one place, and in the table once, across retries.
- `CapRespected`, `NewestStay`: at most `maxHistoryEntries` unpinned rows, except those inserted or
  unpinned since the last prune, and only older rows than these are pruned.
- `PinnedStay`: nothing prunes a pinned row.
- `HandledBesidesExports`: queued entries are taken out, unless an export keeps the connection for ever and
  nobody closes the database. `WorkerRests`: after Close the worker comes to rest, which includes the leak:
  waiting on a nil channel with nothing queued.

### SavedQueries

A saved query is its title (UNIQUE). A request that has passed the count is in `inserting`.
`LimitRespected` is what the error message says, true for one request at a time; `ExcessBounded` is what
the two statements guarantee otherwise.

### SchemaLedger

The schema maps tables to sets of columns, and its hash is the schema itself (the hash covers names,
types and keys; types and keys are left out). The table `_system_catalog` that holds the hash is
created on demand by the code and is always there in the model. A request is at its `ledger` insert, at
the `list` of tables, the `columns` of each table, `compare` or `store`. An API schema change has
`op` > 0, a verify 0. `torn` records that the schema changed after the request began to read it. `blamed`
records that the stored hash may differ from the schema for a reason: it was stored from a torn read, the
schema was changed by hand since, or a request failed; `missed` the changes whose request failed or
died before its ledger row. `AlterColumn` appears with its effect on the names of columns.

- `LedgerIsAuditLog`: refinement of `AuditLog`; entries follow their change, once, for ever.
- `HashHasCause`, `DriftHasCause`: the hash is wrong, and drift is reported, beside a schema change that has
  yet to store its hash, or after a torn read, a change by hand or a failure, and never otherwise.
- `EveryDdlLedgered`: every change is in the ledger, about to be entered, or missed for a failure.
- `NoDriftWhenQuiet`: what a test says of a schema change followed by a verify. It holds for one request at a
  time and not when two overlap.

### TableData

A table is a function from row ids to rows, a row its key and one other value. The key is a TEXT primary
key, so that SQLite keeps a row id of its own beside it, and `composite` says whether it has a second
column: `handleUpdateRecord` compares the first only. `RowOps` has the three operations of a batch with all
their outcomes (`Outcomes`: empty when it fails), the conversion of a value (`Usable`) and the row id a
new row gets: one that was freed may be given out again (`NextRows`).

`conn` is the pool's one connection. A batch holds it from `Begin` to `Commit` or `Refuse`, an export from
`OpenExport` to `EndExport`; everything else is a statement taken while it is free. `work` is the private
sequence of tables of a transaction. A record update is `LookUp` and then a batch like any other; a browse is
`Count`, `ReadPage` and `Answer`. `Fail` is any statement's failure, also that of an export whose client
went away, `Rebuild` what `AlterColumn` does to row ids, `Crash` the process.
The columns of the table are fixed, and one life of the `Database` is covered: `Detach` is in `CsvImport` and `History`.

- `IsAtomicTable`: the refinement of `AtomicTable`: a batch is applied as a whole to the table at its
  commit, or not at all.
- `NamedRecord`: the row id that was looked up still stands for the record, unless it was deleted,
  given another key, or renumbered by a rebuild (`moved`). This is the exact extent of the gap in
  `rest.go:184`; an insert alone never moves a record.
- `PageIsHonest`: if the table did not change between the two statements, pages are full, in order and
  within bounds, for every page and size asked for.
- `ExportIsSnapshot`: a slow export is still one state of the table.
- `AnsweredBesidesExports`: nothing but an open export keeps a request from being answered.

### TableRebuild

A parent and a child table with a reference to the parent's primary key; the columns of both can be
added, dropped and renamed by their own statements (the handlers' checks and SQLite's), rows inserted and
deleted with the reference enforced (`foreign_keys(1)` is in the DSN), and up to two `AlterColumn` requests
are between their `Schema()` (`AskAlter`) and their transaction (`Rebuild`). `stale` says that the table's
columns were changed in between. `Selected` is what SQLite makes of a double-quoted name that is no column:
a string. `Default` is the default of the referring column: ON DELETE SET DEFAULT is refused unless the
parent has it or it is NULL. NO ACTION is RESTRICT here, as no reference is deferred (`ColumnDef.SQL` writes
none). A dropped column takes its REFERENCES with it. Types are left out, since a value denotes the same under
every affinity and the CAST expression that the code computes is not used; so are NOT NULL, UNIQUE and the
defaults of other columns, DropTable and RenameTable. The ledger rows of these requests are in `SchemaLedger`.

- `RebuildKeepsRows`: a rebuild from a current schema keeps each row of its table with all columns but the
  one that is altered, and that one too unless it is renamed.
- `OrphansHaveCause`: through cascades, defaults, renames and rebuilds of the parent, the child keeps its
  reference and each of its rows refers to a parent row or to nothing, until the child itself was rebuilt or
  the column dropped (`unlinked`).
- `RenamedKeepsValues`: what the comments say of a column renamed and given a type; violated.

### CsvImport

A row of the file is its primary key, `Bad`, or `Ignorable` when it breaks NOT NULL, CHECK or a UNIQUE other than
the primary key: INSERT OR IGNORE drops that one (and "keys" still counts it as inserted), the other
strategies count it as failed. A stored row is the number of the file row that wrote it. Rows are read one by one and the file may end after any, so every file up to `FileLen` rows is
covered. `tx` is the transaction and `work` the table as it sees it. The first `Begin`
and the one after each commit are the same step; after the last commit it is part of `Finish` or
`BeginFails`. Strategy "keys" is "overwrite" for a file with key columns only, which the code turns
into INSERT OR IGNORE while still counting every row as inserted.

- `StoredIsPrefix`: stop it anywhere, and the table holds the effect of a prefix of the file,
  compared with a definition of that effect without a loop (`Expected`).
- `DoneIsTrue`: a call without an error has committed all it counted, and its counts are those of the
  rows in the table when nobody else wrote.
- `NoLostUpdate`: a commit does not undo what others wrote between two batches.

### Jobs

`job` is what a reader without the lock sees of a job's fields. The goroutine assigns them under the
lock, but readers encode after unlocking: the assignments become visible one by one in any order
(`unseen`), until `Unlock` orders them all before any later `Get`. `ImportCSV` runs under a background context
and waits for the pool's connection without a deadline: while an export of the same database holds it
(`blocked`), the import does not return.

- `LateIsConsistent`: a poll after the end is complete. `JobsEndBesidesExports`: every job ends, whoever holds
  the lock, unless an export keeps its connection for ever.
- `DoneHasResult`: what a test expects of every poll. It does not hold for one that overlaps the end of the job.

### WebClient

JavaScript runs one handler at a time, so an `async` function is its code up to the first `await`, a call in
flight, and one action for each answer that resumes it. Calls in flight form a set: they are answered in any
order, or fail, and the server may answer a browse with any page. `gestures` numbers what the user does
(`EventLoop`); a run, a change and a call are named by the number of the gesture they began with.

`AerisStore` has the database selected, the schema shown, and the runs of the editor with `queryAbort`.
`selectDb` has four callers: the select element of the header, which fires when its value changes; `attach`; and, as
`ChangeSchema` and `SchemaChanged`, the menu of the object tree (rename, drop, drop a column, index, import) and
`submit` of the schema builder, which select the database of their click when the server has answered,
also when it is the active one or another was selected since.
`ExplorerStore` has the open table, its page and the pending changes; one column stands for all of them, and
the number of a page for whatever rows it returns. `TypeInto` and `ClickDelete` model how `DataExplorer.tsx`
gets from the i-th row shown to a row id, `Shown` the rows that `applyEdits` leaves, each with its place. `WebClient` puts both
into the page of `App.tsx`: they share the database that is active at the moment of a click. Three actions of
the stores are called by no component (`detach`, `saveCell`, `removeInsert`) and are left out, as are the drafts
of a cell being typed and the API client's retry after a 401.

- `ResultIsNewest`: a result is never replaced by that of an older run, unless the older one was in flight
  when the finally of another cleared `queryAbort`.
- `SchemaIsActive`: once the read of a schema begun last (`latest`) is answered, the schema shown is that of the
  database selected, however many reads overlapped it. `overtaken` names what is excused: that read failed, an
  older one was answered after it, or it was the one of a run started in another database.
- `ChangesHitTheirRow`: a change reaches the row its user pointed at, in the table and database it was shown
  in. Its exceptions are the gaps of the code: rows hidden by a pending delete, a database switched
  under an open table, overlapping reads of pages.
- `PendingIsUnsaved`: pending and not yet stored are the same, except for changes made while a commit
  is awaited and batches that were stored by a commit that then failed.
- `HiddenRowsAreSkipped`: what a test says of `applyEdits`, without the first exception; violated.

## Runs

| run | instance | properties | result |
|---|---|---|---|
| `MCQueryCache_all` | 2 requests, 2 selects, 1 script, 1 RETURNING, 2 entries, TTL 1, 2 writes, writes round the cache | `TypeOK`, `ListMapAgree`, `StaleHasCause`, `EventuallyFresh` | holds |
| `MCQueryCache_serial` | 1 request, 3 selects (one oversized), 2 writes, 2 entries, 3 mutations | `CoherentWhenQuiet`, `AnswersAreCurrent` | holds |
| `MCHistory_all` | cap 1, channel 1, 2 tries, 2 queries, 1 tick, exports | `TypeOK`, `OneCopy`, `CapRespected`, `PinnedStay`, `NewestStay`, `HandledBesidesExports`, `WorkerRests` | holds |
| `MCSavedQueries_many` | 3 requests, 5 titles, limit 2 | `SavedTypeOK`, `ExcessBounded` | holds |
| `MCSchemaLedger_all` | 2 requests, 2 tables, 2 columns, 2 API changes, 1 manual change, failures and crashes | `TypeOK`, `HashHasCause`, `EveryDdlLedgered`, `DriftHasCause`, `LedgerIsAuditLog` | holds |
| `MCCsvImport_all` | 2 keys, bad and ignorable rows, files of 0 to 4 rows, batches of 2, other writers | `TypeOK`, `StoredIsPrefix`, `DoneIsTrue`, `NoLostUpdate` | holds |
| `MCJobs_all` | 2 requests, 2 jobs, exports | `LateIsConsistent`, `JobsEndBesidesExports` | holds |
| `MCTableData_all` | 2 requests, 2 keys, 2 values, 2 row ids, 4 batches (two of two operations), 1 filter, pages and sizes up to 2 | `TypeOK`, `NamedRecord`, `PageIsHonest`, `ExportIsSnapshot`, `AnsweredBesidesExports`, `IsAtomicTable` | holds |
| `MCWebClient_all` | 2 databases, 2 tables, pages of one or both of 2 rows, 5 gestures | `TypeOK`, `ChangesHitTheirRow`, `PendingIsUnsaved`, `SchemaIsActive`, `ResultIsNewest` | holds |
| `MCWebClient_hidden` | the same | `HiddenRowsAreSkipped` | violated |
| `MCTableRebuild_all` | 2 requests, 3 names, 2 keys, 3 column changes, 3 writes, default 1, ON DELETE CASCADE, SET NULL, SET DEFAULT and RESTRICT | `TypeOK`, `RebuildKeepsRows`, `OrphansHaveCause` | holds |
| `MCTableRebuild_renamed` | the same | `RenamedKeepsValues` | violated |

What each run shows:

- `MCQueryCache_all`: Two requests, selects, scripts, a WITH ... RETURNING and writes round the cache, a cache of two entries and its expiry: the cache's two structures agree, a stale entry has one of two causes, and expiry ends the staleness.
- `MCQueryCache_serial`: One request at a time and only recognised writes: the cache implements a service without a cache.
- `MCHistory_all`: The worker, recording requests, pins, prunes by cap and by age, exports that keep the connection, Close racing the worker's read of d.stopCh, and the next Open, in every interleaving.
- `MCSavedQueries_many`: Three concurrent requests at a limit of two: the excess stays below the number of requests.
- `MCSchemaLedger_all`: Two requests, every kind of schema change over two tables and two columns, changes by hand, failures and crashes: the ledger is an audit log and complete up to failures, and stored hash and reported drift have one of three causes.
- `MCCsvImport_all`: Calls of up to four rows in batches of two under every strategy, with rows that fail and rows that OR IGNORE drops, stopped by a cancel, a detach, a crash or a failed commit at any point, with other requests changing rows and dropping the table between batches: the table holds whole batches, the result is true of it, and nobody else's write is lost.
- `MCJobs_all`: Two requests starting and polling two jobs while their goroutines wait for exports and assign fields: only a poll that overlaps the end of a job may get an inconsistent answer, and every job ends unless an export keeps its connection for ever.
- `MCTableData_all`: Two requests of any kind (batches, records by key, pages, exports) share one connection, with failures, rebuilds and crashes: batches are atomic, a record update hits the record it looked up unless that moved, and an export is a snapshot that only its client can prolong.
- `MCWebClient_all`: Any five gestures on both stores of the web client, with up to as many calls in flight, answered in any order or failed: a change goes to the row it was made on, a pending change is one that is not stored, and result and schema are current, also when a change of tables selects its database again, each with its named exceptions.
- `MCWebClient_hidden`: One pending delete, then a change to a row below it: the change goes to the row above the one it was made on.
- `MCTableRebuild_all`: Two AlterColumn requests among column changes and writes of a parent and a child table, for ON DELETE CASCADE, SET NULL, SET DEFAULT and RESTRICT: a rebuild from a current schema keeps the rows, and children stay without orphans until their own table is rebuilt or loses its reference.
- `MCTableRebuild_renamed`: A column renamed and given a type in one request: every row holds the new name instead of its value.

The bounds. Two requests suffice for every race found here, since each is between one reader and one
writer of the same state; the cache has two entries for three or four cacheable statements so that
replacement, expiry and eviction all occur; the history has more queries than its cap, and a channel
smaller than the queries; imports have files that end on, before and after a batch boundary; the
ledger has two tables so that a schema read can be torn between them. Two row ids for two keys let a row id
be freed and given to another record, and two matching rows with pages of one make a second page that can
vanish between the statements of a browse. Five gestures are enough to select, open, change, commit and
change again, or to start three runs and switch twice. Three column changes are enough for a request that
reads the schema, another change in between, and a second rebuild; three writes for a parent, a child and
the deletion of one of them. `MaxWrites`, `MaxQueries`, `MaxTime`, `MaxDdls`, `MaxRaw`, `MaxJobs`, `FileLen`,
`MaxRow`, `MaxPage`, `MaxPageSize` and `MaxGestures` bound what the code leaves unbounded (`MaxPageSize` is 500 in
the code). The deadlock check is off where gestures or changes run out, in the runs of
`MCWebClient` and `MCTableRebuild`, and on everywhere else.

## Where code and text disagree

Each of these has a run whose counterexample shows it:

- **Rows below a hidden one** (`MCWebClient_hidden`, `DataExplorer.tsx:94`): `applyEdits` leaves the rows with a
  pending delete out, while the row id is taken by the position in what is left: after one pending delete, a
  change to any row below goes to the row before it.
- **A column renamed and given a type at once** (`MCTableRebuild_renamed`, `alter.go:160`): the copy selects the
  new name from the old table, which has no such column; SQLite reads it as a string, and every row holds
  the new name instead of its value.

These are seen by checking the property named, which does not hold, in the run named:

- A fill races a write (`cache.go:119`): rows read before a write are stored after its invalidation, and stay
  for up to `cacheTTL`. `CoherentWhenQuiet` with two requests.
- Writes that never reach the cache (`data.go:243`): Batch, imports and the schema operations do not
  invalidate, though `cache.go:93` says "DML/DDL invalidates entire cache". `CoherentWhenQuiet` with one request and
  writes round the cache.
- A write answered from the cache (`cache.go:118`): WITH ... INSERT ... RETURNING begins with WITH and has
  columns, so the same paged request again does not execute. `DmlNotCached` in `MCQueryCache_all`.
- A hash overwritten by an older one (`migration.go:63`): drift is reported after two concurrent schema
  changes. `NoDriftWhenQuiet` in `MCSchemaLedger_all` without failures and manual changes; `AloneNoDrift` proves
  it for one request at a time.
- A torn job (`api/io.go:108`): a job is encoded while its goroutine assigns its fields. `DoneHasResult` in `MCJobs_all`.

Others are exceptions that a property names, or follow from the reading of the code:

- A WITH ... INSERT without RETURNING is a further write the cache does not see (class `CteDmls`).
- The saved-query limit is counted and then used in a second statement; `ExcessBounded` says by how much
  it can be exceeded and `SerialLimit` that one request at a time respects it.
- Two concurrent schema changes can enter the ledger in the other order, though `migration.go:66` calls
  its listing reverse-chronological; `LedgerIsAuditLog` is what remains true.
- A change by hand that nobody has verified is hidden by the next schema change through the API, which
  stores a hash of both.
- A change whose ledger insert fails, or whose request dies before it, is missing from the ledger while
  the hash agrees: `EveryDdlLedgered` names exactly these.
- A worker that reaches its `select` after `Close` has cleared `d.stopCh` waits on a nil channel for ever:
  a goroutine leaks for each such Close. `WorkerRests` and `HandledBesidesExports` say that nothing queued is lost to it.
- A stalled client of an export stops every statement of the database, also the history worker and an import
  job: no `http.Server` timeout (`main.go:65`) and no deadline of theirs ends it. The three properties that end in
  `BesidesExports` say that nothing else stops them.
- A commit of the explorer empties everything that is pending when it ends, with the edits made while it was
  awaited; and one whose batch was stored and whose reload failed keeps it, to be stored again
  (`PendingIsUnsaved`).
- Save, paging and opening take the database of the moment, so pending changes of a table in one database go
  to the table of that name in another (`ChangesHitTheirRow`).
- Of overlapping runs in the editor, the finally of an aborted one clears the controller of the next
  (`ResultIsNewest`); of overlapping reads of a schema the last answer wins, and
  a change of tables makes the database of its click the active one again (`SchemaIsActive`).
- A column added between AlterColumn's `Schema()` and its transaction is lost with its data, and one dropped
  comes back filled with its name (`RebuildKeepsRows` holds for a current schema only).
- A rebuild drops the old table with foreign keys on: children of a parent are deleted, emptied or block it,
  and a rebuilt child has no REFERENCES (`OrphansHaveCause`); nor has a rebuilt table UNIQUE or DEFAULT.
- A rebuild may renumber row ids, and a row id looked up before it stands for another record then; so does one
  whose record was deleted and its number given to another (`NamedRecord`).
- With a composite key the record endpoints compare the first column: an update takes one of the matches, a
  delete all of them.
- The client's `pruneHistory` (`api.service.ts`) sends `maxAgeDays` in the body, `handlePruneHistory` reads the query.

## Fairness

- `QueryCache`: a request that was begun runs to its end (a goroutine is scheduled) and time passes.
  Nobody has to send requests.
- `History`: weak fairness of the worker's steps between statements, since the goroutine is scheduled, and of a
  `Close` that was begun; strong fairness of its statements, which wait for the pool's connection. Its inserts may
  fail for ever; nobody has to close, pin or query, or to end an export.
- `Jobs`: strong fairness of the return of `ImportCSV`, which reads a finite body but waits for the connection before
  each transaction; weak fairness of the rest of a goroutine and of a handler that has taken an id and registers
  its job. Weak fairness is enough for the lock since each holder releases it and jobs are finitely many.
- `TableData`: strong fairness of each request's own steps, since a step is enabled only while the connection
  is free. Writing to the client of an export is excluded: who reads may stop, and `AnsweredBesidesExports`
  assumes only that time and again no export is open.
- Strong fairness is what database/sql gives almost surely: it hands a connection that comes free to one of
  those who wait, picked at random and not in the order they came, so nobody is passed over for ever with a
  probability above zero.
- The other modules have no liveness property and no fairness. In `WebClient` no answer is ever certain, and
  `TableRebuild` and `CsvImport` describe requests that may fail at every statement.

## Proofs

**`QueryCacheProofs`**, from the assumptions on the constants of `QueryCache` only (the classes of
statements are disjoint, capacity positive). The inductive invariant is

    CacheInv == TypeOK /\ ListMapAgree /\ StaleHasCause /\ CallsHaveCause

`StaleHasCause` is not inductive: an entry enters the cache from the rows a request holds, so those rows
need a cause as well (`CallsHaveCause`), and `Set` and `Get` act on the right element only if list and
map agree. The lemmas `RemoveOne`, `PushNew`, `DropBack`, `Rewrite` say what the sequence operators of the
list do to its keys; `GetHitIs`, `GetMissIs`, `SetIs`, `BypassIs` lift them to the operations of the cache, and
`CacheStep` has one step per action. `CacheTypes`, `CacheWellFormed` and `StalenessExplained` follow for any
number of requests, statements and entries, and any TTL.

For one request at a time and recognised writes (`Serial`), `SerialInv` adds that every entry, and
every row held, is `Current` unless an invalidation is due. `SerialStep` shows from it that each step is a
step of `ReadService` or a stutter, which gives `SerialAnswersAreCurrent` (the refinement) and `SerialCoherence`.

**`SchemaLedgerProofs`**, from natural bounds only. The inductive invariant is

    LedgerInv == TypeOK /\ Numbered /\ Reading /\ HashHasCause /\ EveryDdlLedgered

`Numbered` says that a change waits for its ledger row in one request and is not in the ledger yet, which
makes `Record` a step of `AuditLog`. `Reading` says what a request has read of a schema that did
not change meanwhile: `Schema()` builds it up table by table, and when it is done the result is the
schema (`SameSchema`), so the hash that `Store` writes is right. `ResultsAreShaped` covers every
kind of schema change; `LocalStep` collects what the steps have in common that touch neither schema nor
ledger, and `ApplyStep` to `CrashStep` are one lemma per action. The theorems are `LedgerTypes`,
`HashIsExplained`, `LedgerIsComplete`, the action property `DriftIsExplained` and the refinement `LedgerRefinesLog`.
For one request at a time that no statement fails (`Alone`), `Unblamed` adds that without a change by hand neither
blame nor a torn read arises; of the causes `HashHasCause` lists, none is left between requests (`AloneNoDrift`).

**`HistoryProofs`**, from natural bounds, a channel that takes something and at least one attempt:

    HistoryInv == TypeOK /\ Filed /\ OneCopy /\ CapRespected

`Filed` orders ids and row ids, so that a new entry is in no queue and a new row has a number of its own.
`ShrinkStep` covers all steps that only take entries and rows away; five lemmas cover the others.
`CapRespected` needs a count: `NewerIsOrder` shows that two unpinned rows never have the same number of newer
ones, so what a prune leaves can be numbered below the cap (`PruneFits`). `RowsAreFinite` follows from `OneCopy`.
Theorems: `HistoryTypes`, `EntriesAreOnce`, `CapIsRespected`, and the action properties `PinnedRowsStay` and
`NewestRowsStay`.

The saved queries, the other table of `history.go`, are proved there too, from finite sets of requests and titles
and a positive limit: the inductive invariant is `SavedTypeOK /\ ExcessBounded`, where counting the requests in
progress along with the rows is what makes the bound inductive. `SavedTypes`, `ExcessIsBounded`, and `SerialLimit` for
one request at a time.

**`CsvImportProofs`**, from a finite set of keys and a positive batch size. `Expected` is said without a loop,
so the proof has to show what one more row does to it: `ExpectedSkips` for a row that changes nothing,
`ExpectedTakes` for one that is new or overwrites. That a key has a first row (`SomeFirst`) is an induction, taken
from the library as well-foundedness of inclusion on the sets `0..i`. The inductive invariant

    CsvInv == TypeOK /\ Placed /\ Counted /\ StoredIsPrefix /\ WorkIsPrefix
              /\ OwnRows /\ CountsHold

says of the open transaction what the properties say of the table: its view is the effect of all rows
read, differs from the table in its own batch only, and has the counts that were made. Theorems:
`ImportTypes`, `ImportStoresPrefix`, `ImportDoneIsTrue`, and the action property `ImportKeepsOthers`.

**`TableDataProofs`**, from finite sets of keys and values, for any requests and batches:

    TableInv == TypeOK /\ WorkIsRun /\ RunKeeps /\ Forgotten /\ NamedRecord /\ ExportIsSnapshot

`WorkIsRun` says that the private tables of a transaction are a run of its operations from the table that is
still there, because the transaction holds the connection: that is what makes `Commit` a step of `AtomicTable`.
`RunKeeps` says which row ids no run of it gives to another record, which carries `NamedRecord` through a
commit; `Forgotten` that a request that is over knows nothing. Theorems: `TableTypes`, `RecordsNamed`,
`ExportsAreSnapshots`, and the refinement `BatchesAreAtomic`.

`PagesAreHonest` needs to know what LIMIT and OFFSET cut out of a set. `Ranked` shows that the ranks of a finite
set of row ids are a bijection to `1..Cardinality`, by the library's pigeonhole (`FS_Injection`), so a page is the
rows whose ranks lie in an interval (`PageOfIs`), the rows before it are as many as their last rank (`Prefix`), and
`ClampedIs` bounds the page number. `PagesInv == TableInv /\ PagesAreRead` says that a request between its two
statements has counted what still matches, unless the table moved; `PagesHonest` is the arithmetic from there.

**`TableRebuildProofs`**, from the assumptions on names and NULL: `RebuildInv == TypeOK /\ SeenIsCurrent`, where
`SeenIsCurrent` says that what a request that is not stale has read is what the table has; it gives
`RebuildTypes` and the action property `RebuildsKeep`. `RefInv` adds `References`, from which `OrphansExplained` follows for
every action of the reference.

**`WebClientProofs`**, for any databases, tables, pages and number of gestures:
`AerisInv == Numbered /\ Ordered /\ Settled` says that calls carry numbers of past gestures, that the runs in flight
that were neither aborted nor lost are the one `queryAbort` belongs to and newer than the result shown, and that
the read begun last, while awaited, is of the database selected unless `overtaken` says otherwise; it gives `SchemaFollows` and the action property `NewestShown`.
`PendingInv == CommitInv /\ InsertsType` says which call in flight belongs to `committing` and what the changes in its
batch are; it gives `UnsavedStaysPending`. `ExplorerTypeOK` is the explorer's part of `TypeOK`: a change takes its
type from the page it was made on (`ChangeTyped`), which gives `ClientTypes`.

`RowsAreHit` rests on `HitsInv == Aligned /\ ChangesHitTheirRow`. While calm, `Aligned` keeps the calls in flight, the
page on the screen and the pending changes on one table of one database (`PendingOnTarget`): a change made
beside a hidden row is excused, and any other is pending for the row it was made on. The gestures preserve it by
`ShownPlaces`: with no row hidden, the i-th row shown is the i-th of the page, or the insert that follows it.
`SentOnTarget` takes it from the pending changes to the batch. `calm` cannot come back while older calls are in
flight, which is why `OpenTable` sets it only when there are none.

**`JobsProofs`**, for any finite set of requests and any number of jobs: `Get` takes the lock, the encoder does not.

    JobsInv == TypeOK /\ Registered /\ Assigning /\ LateIsCurrent

`Assigning` relates the fields to the assignments still unseen: before the goroutine locks the job is as made,
and once it has unlocked every field is what its outcome says (`Final`), for good. `LateIsCurrent` says that what a
late poll has encoded is what the job is now. That a job is never reset under such a poll needs `Registered`: a
request registers an id of its own, for which no goroutine runs. Theorems: `JobsTypes`, `LatePollsAreConsistent`.

Every invariant, action property and refinement that a passing run checks is a theorem of the modules above.
Model-checked only are the liveness properties, which depend on fairness and so on ENABLED, out of the prover's
reach: `EventuallyFresh`, `HandledBesidesExports`, `WorkerRests`, `JobsEndBesidesExports`, `AnsweredBesidesExports`.

## What is not modelled

See `components` in `PROJECT.json` for each part and its reason. In short: rows, types and
values of user data; access control; pure formatting, quoting and validation of strings; the SQL
engine itself, taken at its word that a statement is atomic and a committed one durable; and
the parts planned below. `Jobs` covers one life of the process: ids start again after a restart. Of the web
client the editor and history stores, the form of the schema builder and all rendering are left out; that
`submit` of the schema builder selects a database is in `AerisStore`. The advisor, the plan of a query and the API keys compute an answer from one read of a table or
of the schema and keep nothing in between.

## Plan

Done, in order of importance: `QueryCache`, `History`, `SavedQueries`, `SchemaLedger`, `CsvImport`, `Jobs`,
`TableData` with `AtomicTable`, `WebClient` with its two stores, and `TableRebuild`; all are proved as well as
checked.

Next:

1. `Pagination`: the page arithmetic of `QueryPaged` with its integer width, against a reference.
2. `Manager`: the registry with handles that outlive a Detach, and databases in memory that share a cache;
   it would compose with `CsvImport`, `History` and `Jobs`.
3. `TableRebuild` with UNIQUE and the defaults a rebuild loses, and with DropTable and RenameTable.
4. Proofs: for one request at a time, that a record update hits the record named and a fresh page is the one
   asked for, as `SerialCoherence`, `SerialLimit` and `AloneNoDrift` do for the cache, the saved queries and the ledger.
