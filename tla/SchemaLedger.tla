---------------------------- MODULE SchemaLedger ----------------------------
(***************************************************************************)
(* Schema changes, the migration ledger and the catalog hash of one        *)
(* attached database (internal/engine/migration.go, catalog.go and the     *)
(* schema operations of database.go, drop.go, alter.go and index.go).      *)
(*                                                                         *)
(* The schema is a function from the existing tables to their columns; a   *)
(* hash of it is the function itself.  Every SQL statement is one step.    *)
(* Schema() is several: it lists the tables and then asks for the columns  *)
(* of each, so a change in between leaves it with a mixture.               *)
(***************************************************************************)
EXTENDS Integers, Sequences, FiniteSets

CONSTANTS
    Clients,   \* concurrent requests
    Tables,    \* table names, numbers in the order of ORDER BY name
    Columns,   \* column names
    MaxDdls,   \* bound: schema changes through the API
    MaxRaw,    \* bound: schema changes through the query endpoint
    Faults     \* whether statements fail and the process is killed

ASSUME TablesAssumption == IsFiniteSet(Tables) /\ Tables \subseteq Nat
ASSUME BoundsAssumption == MaxDdls \in Nat /\ MaxRaw \in Nat
ASSUME FaultsAssumption == Faults \in BOOLEAN

VARIABLES
    shape,     \* the schema in sqlite_master
    ddls,      \* schema changes through the API so far; each is its number
    raws,      \* schema changes through the query endpoint so far
    ledger,    \* _system_schema_migrations, by sequence
    stored,    \* the schema_hash row of _system_catalog, a set of at most one
    blamed,    \* history variable: whether stored may differ from the schema for a reason
    missed,    \* history variable: changes whose request failed before its ledger row
    pc,        \* where each request stands
    task       \* the schema it is reading, and for what

hash == <<stored, blamed>>
vars == <<shape, ddls, raws, ledger, missed, hash, pc, task>>

NoTables == [t \in {} |-> {}]

NoTask == [op |-> 0, todo |-> {}, got |-> NoTables, torn |-> FALSE, drift |-> FALSE]

Init ==
    /\ shape = NoTables /\ ddls = 0 /\ raws = 0
    /\ ledger = <<>> /\ stored = {} /\ blamed = FALSE /\ missed = {}
    /\ pc = [c \in Clients |-> "idle"]
    /\ task = [c \in Clients |-> NoTask]

----------------------------------------------------------------------------
(* The schemas one statement can lead to from s.  The handlers read Schema() *)
(* first and refuse what it rules out; SQLite refuses the same.              *)

With(s, t, cols) == [u \in DOMAIN s \cup {t} |-> IF u = t THEN cols ELSE s[u]]

Without(s, t) == [u \in DOMAIN s \ {t} |-> s[u]]

\* Mutant of NonEmpty: a schema without columns is accepted.
AnyColumns == SUBSET Columns

NonEmpty == (SUBSET Columns) \ {{}}

Create(s) == {With(s, t, cols) : t \in Tables \ DOMAIN s, cols \in NonEmpty}

AddColumn(s) ==
    UNION {{[s EXCEPT ![t] = @ \cup {col}] : col \in Columns \ s[t]} : t \in DOMAIN s}

DropColumn(s) ==
    UNION {{[s EXCEPT ![t] = @ \ {col}] : col \in {x \in s[t] : s[t] # {x}}} : t \in DOMAIN s}

RenameColumn(s) ==
    UNION {{[s EXCEPT ![t] = (@ \ {old}) \cup {new}] : old \in s[t], new \in Columns \ s[t]} :
              t \in DOMAIN s}

DropTable(s) == {Without(s, t) : t \in DOMAIN s}

RenameTable(s) ==
    {With(Without(s, old), new, s[old]) : old \in DOMAIN s, new \in Tables \ DOMAIN s}

\* CreateIndex and DropIndex change nothing Schema() reports.
IndexDdl(s) == IF DOMAIN s = {} THEN {} ELSE {s}

Results(s) ==
    Create(s) \cup AddColumn(s) \cup DropColumn(s) \cup RenameColumn(s)
        \cup DropTable(s) \cup RenameTable(s) \cup IndexDdl(s)

----------------------------------------------------------------------------

Goto(c, label) == pc' = [pc EXCEPT ![c] = label]

Return(c) == Goto(c, "idle") /\ task' = [task EXCEPT ![c] = NoTask]

\* Requests that read part of a schema that is then changed.
Tear(t) == [c \in Clients |-> [t[c] EXCEPT !.torn = @ \/ pc[c] \in {"columns", "compare", "store"}]]

\* A schema operation of the API: the statement that changes the schema.
Apply(c) ==
    /\ pc[c] = "idle"
    /\ ddls < MaxDdls
    /\ shape' \in Results(shape)
    /\ ddls' = ddls + 1
    /\ task' = IF shape' = shape
               THEN [task EXCEPT ![c].op = ddls + 1]
               ELSE [Tear(task) EXCEPT ![c].op = ddls + 1]
    /\ Goto(c, "ledger")
    /\ UNCHANGED <<raws, ledger, missed, hash>>

\* Mutant of Record: the hash is not stored after the ledger row.
RecordOnly(c) ==
    /\ pc[c] = "ledger"
    /\ ledger' = Append(ledger, task[c].op)
    /\ Return(c)
    /\ UNCHANGED <<shape, ddls, raws, missed, hash>>

\* Mutant of Record: a change that leaves the hash alone is not entered.
RecordIfDrifted(c) ==
    /\ pc[c] = "ledger"
    /\ ledger' = IF stored = {shape} THEN ledger ELSE Append(ledger, task[c].op)
    /\ Goto(c, "list")
    /\ UNCHANGED <<shape, ddls, raws, missed, hash, task>>

\* recordMigration: the ledger row; updateCatalogHash follows either way.
Record(c) ==
    /\ pc[c] = "ledger"
    /\ ledger' = Append(ledger, task[c].op)
    /\ Goto(c, "list")
    /\ UNCHANGED <<shape, ddls, raws, missed, hash, task>>

\* Mutant of RecordFails: the row is there when the error comes, and it is tried again.
RecordRetried(c) ==
    /\ Faults
    /\ pc[c] = "ledger"
    /\ ledger' = Append(ledger, task[c].op)
    /\ UNCHANGED <<shape, ddls, raws, missed, hash, pc, task>>

RecordFails(c) ==
    /\ Faults
    /\ pc[c] = "ledger"
    /\ missed' = missed \cup {task[c].op}
    /\ Goto(c, "list")
    /\ UNCHANGED <<shape, ddls, raws, ledger, hash, task>>

\* VerifyCatalog, also for the reconcile endpoint; op 0 is no schema change.
Verify(c) ==
    /\ pc[c] = "idle"
    /\ Goto(c, "list")
    /\ UNCHANGED <<shape, ddls, raws, ledger, missed, hash, task>>

\* Schema(): the names ...
ListTables(c) ==
    /\ pc[c] = "list"
    /\ task' = [task EXCEPT ![c].todo = DOMAIN shape]
    /\ Goto(c, "columns")
    /\ UNCHANGED <<shape, ddls, raws, ledger, missed, hash>>

\* ... and the columns of each; a table dropped meanwhile has none.
ReadColumns(c) ==
    /\ pc[c] = "columns"
    /\ \E t \in task[c].todo :
          /\ \A u \in task[c].todo : t =< u
          /\ task' = [task EXCEPT ![c].todo = @ \ {t},
                                  ![c].got = With(@, t, IF t \in DOMAIN shape THEN shape[t] ELSE {})]
    /\ UNCHANGED <<shape, ddls, raws, ledger, missed, hash, pc>>

\* The schema is read: recordMigration stores its hash, VerifyCatalog first
\* compares it with the stored one.
SchemaRead(c) ==
    /\ pc[c] = "columns"
    /\ task[c].todo = {}
    /\ Goto(c, IF task[c].op = 0 THEN "compare" ELSE "store")
    /\ UNCHANGED <<shape, ddls, raws, ledger, missed, hash, task>>

\* Mutant of Compare: a missing stored hash counts as drift.
CompareMissing(c) ==
    /\ pc[c] = "compare"
    /\ task' = [task EXCEPT ![c].drift = stored # {task[c].got}]
    /\ Goto(c, "store")
    /\ UNCHANGED <<shape, ddls, raws, ledger, missed, hash>>

Compare(c) ==
    /\ pc[c] = "compare"
    /\ task' = [task EXCEPT ![c].drift = stored # {} /\ stored # {task[c].got}]
    /\ Goto(c, "store")
    /\ UNCHANGED <<shape, ddls, raws, ledger, missed, hash>>

\* Any error of the read of the stored hash counts as a missing hash.
CompareFails(c) ==
    /\ Faults
    /\ pc[c] = "compare"
    /\ task' = [task EXCEPT ![c].drift = FALSE]
    /\ Goto(c, "store")
    /\ UNCHANGED <<shape, ddls, raws, ledger, missed, hash>>

\* INSERT OR REPLACE of the hash.
Store(c) ==
    /\ pc[c] = "store"
    /\ stored' = {task[c].got}
    /\ blamed' = task[c].torn
    /\ Return(c)
    /\ UNCHANGED <<shape, ddls, raws, ledger, missed>>

\* A statement of Schema() or the store fails: the hash stays as it was.
HashFails(c) ==
    /\ Faults
    /\ pc[c] \in {"list", "columns", "store"}
    /\ blamed' = TRUE
    /\ Return(c)
    /\ UNCHANGED <<shape, ddls, raws, ledger, missed, stored>>

\* DDL typed into the query editor: QueryCtx knows neither ledger nor hash.
RawDdl ==
    /\ raws < MaxRaw
    /\ shape' \in Results(shape) \ {shape}
    /\ raws' = raws + 1
    /\ task' = Tear(task)
    /\ blamed' = TRUE
    /\ UNCHANGED <<ddls, ledger, missed, stored, pc>>

\* The process is killed; the database file is as the last statement left it.
Crash ==
    /\ Faults
    /\ missed' = missed \cup {task[c].op : c \in {d \in Clients : pc[d] = "ledger"}}
    /\ pc' = [c \in Clients |-> "idle"]
    /\ task' = [c \in Clients |-> NoTask]
    /\ blamed' = TRUE
    /\ UNCHANGED <<shape, ddls, raws, ledger, stored>>

Request(c) ==
    \/ Apply(c) \/ Record(c) \/ RecordFails(c)
    \/ Verify(c)
    \/ ListTables(c) \/ ReadColumns(c) \/ SchemaRead(c)
    \/ Compare(c) \/ CompareFails(c) \/ Store(c) \/ HashFails(c)

Next == (\E c \in Clients : Request(c)) \/ RawDdl \/ Crash

Spec == Init /\ [][Next]_vars

----------------------------------------------------------------------------
(* Properties. *)

Schemas == UNION {[S -> SUBSET Columns] : S \in SUBSET Tables}

Tasks == [op : 0..MaxDdls, todo : SUBSET Tables, got : Schemas, torn : BOOLEAN, drift : BOOLEAN]

TypeOK ==
    /\ shape \in Schemas /\ \A t \in DOMAIN shape : shape[t] # {}
    /\ ddls \in 0..MaxDdls /\ raws \in 0..MaxRaw
    /\ ledger \in Seq(1..MaxDdls)
    /\ stored \subseteq Schemas /\ Cardinality(stored) =< 1
    /\ missed \subseteq 1..ddls
    /\ blamed \in BOOLEAN
    /\ pc \in [Clients -> {"idle", "ledger", "list", "columns", "compare", "store"}]
    /\ task \in [Clients -> Tasks]

\* "append-only ledger": however requests interleave and wherever they stop,
\* an entry stands for a change that was made before, no change is entered
\* twice and no entry is rewritten.
Log == INSTANCE AuditLog WITH applied <- 1..ddls
LedgerIsAuditLog == Log!Spec

\* A schema change whose hash, once stored, will be that of the schema.
StoreDue(c) == pc[c] # "idle" /\ task[c].op # 0 /\ ~task[c].torn

\* updateCatalogHash: when the stored hash is not that of the schema, a schema
\* change is about to store the right one, or it was put there by a request that read
\* the schema while it changed, or the schema was changed by hand since, or a
\* request failed.
HashHasCause ==
    stored \subseteq {shape} \/ blamed \/ \E c \in Clients : StoreDue(c)

\* VerifyCatalog reports drift for one of those reasons and no other: a schema
\* change is under way beside it, the schema changed while it was read, or the
\* stored hash was wrong before.
DriftHasCause ==
    [][\A c \in Clients :
          Compare(c) /\ task'[c].drift =>
              task[c].torn \/ blamed \/ \E d \in Clients \ {c} : StoreDue(d)]_vars

Quiet == \A c \in Clients : pc[c] = "idle"

\* "expected no drift after create": when every request has returned and
\* nothing was changed by hand, the next verify finds no drift.
NoDriftWhenQuiet == Quiet /\ raws = 0 => stored \subseteq {shape}

\* "ledger for every schema mutation": a change through the API is in the ledger
\* as soon as its request has returned, unless the statement that enters it
\* failed or the process died before it.
EveryDdlLedgered ==
    \A n \in 1..ddls :
        \/ \E i \in DOMAIN ledger : ledger[i] = n
        \/ \E c \in Clients : pc[c] = "ledger" /\ task[c].op = n
        \/ n \in missed

=============================================================================
