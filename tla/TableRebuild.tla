----------------------------- MODULE TableRebuild -----------------------------
(***************************************************************************)
(* AlterColumn's table rebuild (internal/engine/alter.go) among the other  *)
(* column changes and the writes of one database: a parent table and a     *)
(* child table with a column that references the parent's primary key.     *)
(*                                                                         *)
(* AlterColumn reads the schema, and later, in one transaction on the only *)
(* connection, creates a table from what it read, copies the rows, drops   *)
(* the old table and takes its name.  Types are left out: a value is what  *)
(* it denotes, which no affinity changes on the way through the copy.  The *)
(* ledger rows of these operations are modelled in SchemaLedger.           *)
(***************************************************************************)
EXTENDS Integers, FiniteSets

CONSTANTS
    Clients,    \* concurrent AlterColumn requests
    Names,      \* names a column may have
    Id, Ref,    \* the primary keys and the reference, when the tables are created
    Keys,       \* primary keys that are inserted
    Null,       \* SQL NULL, and no request
    Default,    \* the DEFAULT of the column that references
    MaxDdls,    \* bound: column changes
    MaxWrites   \* bound: inserts and deletes

ASSUME NamesAssumption == {Id, Ref} \subseteq Names /\ Id # Ref
ASSUME NullAssumption == Null \notin Names \cup Keys \cup [col : Names, target : Names]
ASSUME DefaultAssumption == Default \in Keys \cup {Null}
ASSUME BoundsAssumption == MaxDdls \in Nat /\ MaxWrites \in Nat

Tables == {"parent", "child"}

\* A column that does not exist is read as a string: see Selected.
Values == Keys \cup Names \cup {Null}

\* NO ACTION refuses what RESTRICT refuses, as no reference is deferred.
Actions == {"CASCADE", "SET NULL", "SET DEFAULT", "RESTRICT"}

VARIABLES
    cols,      \* the columns of each table
    pk,        \* its primary key
    rows,      \* its rows, functions from its columns to values
    fk,        \* the reference of child: its column and its target, Null when it has none
    onDelete,  \* the action of the reference
    task,      \* what each AlterColumn is asked and what it read of the schema
    ddls, writes,
    unlinked   \* history: what took the reference of child away, {"rebuild", "drop"} at most

tables == <<cols, pk, rows, fk>>
vars == <<tables, onDelete, task, ddls, writes, unlinked>>

Init ==
    /\ cols = [t \in Tables |-> {Id, Ref}]
    /\ pk = [t \in Tables |-> Id]
    /\ rows = [t \in Tables |-> {}]
    /\ fk = [col |-> Ref, target |-> Id]
    /\ onDelete \in Actions
    /\ task = [c \in Clients |-> Null]
    /\ ddls = 0 /\ writes = 0
    /\ unlinked = {}

----------------------------------------------------------------------------
(* Foreign keys, as SQLite enforces them with foreign_keys(1). *)

\* The reference can be enforced; otherwise writes to either table fail.
Matched == fk # Null => fk.target = pk["parent"]

KeysOf(t) == {r[pk[t]] : r \in rows[t]}

\* The child rows that refer to one of the parent's keys ks.
Referring(ks) == IF fk = Null \/ ~Matched THEN {} ELSE {r \in rows["child"] : r[fk.col] \in ks}

Reset == IF onDelete = "SET DEFAULT" THEN Default ELSE Null

\* What deleting the parent rows with keys ks leaves of the child.
AfterDelete(ks) ==
    (rows["child"] \ Referring(ks))
      \cup {[r EXCEPT ![fk.col] = Reset] :
                r \in {q \in Referring(ks) : onDelete \in {"SET NULL", "SET DEFAULT"}}}

\* No child row refers to a deleted key, then or by its default.
Allowed(ks) ==
    Referring(ks) # {} =>
        /\ onDelete # "RESTRICT"
        /\ Reset \in (KeysOf("parent") \ ks) \cup {Null}

----------------------------------------------------------------------------
(* Writes through the query endpoint and the batches. *)

Write == writes < MaxWrites /\ writes' = writes + 1

Filled(t, k, v) ==
    [n \in cols[t] |-> IF n = pk[t] THEN k
                       ELSE IF t = "child" /\ fk # Null /\ n = fk.col THEN v ELSE k]

Insert(t) ==
    /\ Write
    /\ t = "child" => Matched
    /\ \E k \in Keys \ KeysOf(t), v \in (Keys \cap KeysOf("parent")) \cup {Null} :
          rows' = [rows EXCEPT ![t] = @ \cup {Filled(t, k, v)}]
    /\ UNCHANGED <<cols, pk, fk, onDelete, task, ddls, unlinked>>

DeleteParent ==
    /\ Write
    /\ Matched
    /\ \E r \in rows["parent"] :
          /\ Allowed({r[pk["parent"]]})
          /\ rows' = [parent |-> rows["parent"] \ {r}, child |-> AfterDelete({r[pk["parent"]]})]
    /\ UNCHANGED <<cols, pk, fk, onDelete, task, ddls, unlinked>>

----------------------------------------------------------------------------
(* Column changes of one statement: the handlers read the schema first and *)
(* refuse what SQLite refuses.                                             *)

Ddl == ddls < MaxDdls /\ ddls' = ddls + 1

\* The requests that have read a schema of t that is then changed.
Outdate(t) ==
    [c \in Clients |-> IF task[c] # Null /\ task[c].table = t THEN [task[c] EXCEPT !.stale = TRUE]
                                                              ELSE task[c]]

AddColumn(t, n) ==
    /\ Ddl
    /\ n \notin cols[t]
    /\ cols' = [cols EXCEPT ![t] = @ \cup {n}]
    /\ rows' = [rows EXCEPT ![t] = {[m \in cols[t] \cup {n} |-> IF m = n THEN Null ELSE r[m]] : r \in @}]
    /\ task' = Outdate(t)
    /\ UNCHANGED <<pk, fk, onDelete, writes, unlinked>>

\* The primary key and the last column stay; a column takes its REFERENCES with it.
DropColumn(t, n) ==
    /\ Ddl
    /\ n \in cols[t] \ {pk[t]}
    /\ cols' = [cols EXCEPT ![t] = @ \ {n}]
    /\ rows' = [rows EXCEPT ![t] = {[m \in cols[t] \ {n} |-> r[m]] : r \in @}]
    /\ IF t = "child" /\ fk # Null /\ n = fk.col
       THEN fk' = Null /\ unlinked' = unlinked \cup {"drop"}
       ELSE UNCHANGED <<fk, unlinked>>
    /\ task' = Outdate(t)
    /\ UNCHANGED <<pk, onDelete, writes>>

Renamed(S, old, new) == (S \ {old}) \cup {new}

IsOr(x, old, new) == IF x = old THEN new ELSE x

\* AlterColumn without a type: ALTER TABLE ... RENAME COLUMN, references included.
RenameColumn(t, old, new) ==
    /\ Ddl
    /\ old \in cols[t] /\ new \notin cols[t]
    /\ cols' = [cols EXCEPT ![t] = Renamed(@, old, new)]
    /\ pk' = [pk EXCEPT ![t] = IsOr(@, old, new)]
    /\ rows' = [rows EXCEPT ![t] =
                  {[m \in Renamed(cols[t], old, new) |-> r[IsOr(m, new, old)]] : r \in @}]
    /\ fk' = IF fk = Null THEN Null
             ELSE IF t = "child" THEN [fk EXCEPT !.col = IsOr(@, old, new)]
             ELSE [fk EXCEPT !.target = IsOr(@, old, new)]
    /\ task' = Outdate(t)
    /\ UNCHANGED <<onDelete, writes, unlinked>>

----------------------------------------------------------------------------
(* AlterColumn with a type. *)

\* Schema(), and the table and the column are in it.
AskAlter(c, t, n, new) ==
    /\ task[c] = Null
    /\ Ddl
    /\ n \in cols[t]
    /\ task' = [task EXCEPT ![c] = [table |-> t, col |-> n, newName |-> new,
                                    seen |-> cols[t], key |-> pk[t], stale |-> FALSE]]
    /\ UNCHANGED <<tables, onDelete, writes, unlinked>>

\* "n" in the SELECT of copySQL: a double-quoted name that is no column of the
\* old table is a string literal to SQLite.
Selected(r, n) == IF n \in DOMAIN r THEN r[n] ELSE n

NewCols(a) == Renamed(a.seen, a.col, a.newName)

\* Mutant of NewKey: PRIMARY KEY goes to the column's old name.
NewKeyOld(a) == a.key

NewKey(a) == IsOr(a.key, a.col, a.newName)

\* Mutant of AfterDrop: foreign keys are off while the old table is dropped.
AfterDropUnlinked(t) == rows["child"]

\* DROP TABLE deletes the rows first, with all that does to the child.
AfterDrop(t) == IF t = "parent" THEN AfterDelete(KeysOf(t)) ELSE rows["child"]

\* Mutant of Copied: every column is copied from the first.
CopiedFromKey(a) == {[n \in NewCols(a) |-> r[pk[a.table]]] : r \in rows[a.table]}

\* copySQL: colList selects the changed column by its new name.
Copied(a) == {[n \in NewCols(a) |-> Selected(r, n)] : r \in rows[a.table]}

\* CREATE and INSERT ... SELECT succeed: no column twice and no key twice.
Copies(a) ==
    /\ a.newName \notin a.seen \ {a.col}
    /\ \A r, q \in rows[a.table] : Selected(r, NewKey(a)) = Selected(q, NewKey(a)) => r = q

Done(c) == task' = [Outdate(task[c].table) EXCEPT ![c] = Null]

\* Begin to Commit.  The columns of the new table have a type, PRIMARY KEY and
\* NOT NULL and nothing else: the child's reference is gone with the old one.
Rebuild(c) ==
    /\ task[c] # Null
    /\ LET a == task[c]
           t == a.table
       IN  /\ Copies(a)
           /\ t = "parent" => Allowed(KeysOf("parent"))
           /\ rows' = [rows EXCEPT !["child"] = AfterDrop(t), ![t] = Copied(a)]
           /\ cols' = [cols EXCEPT ![t] = NewCols(a)]
           /\ pk' = [pk EXCEPT ![t] = NewKey(a)]
           /\ IF t = "child" THEN fk' = Null /\ unlinked' = unlinked \cup {"rebuild"}
                             ELSE UNCHANGED <<fk, unlinked>>
    /\ Done(c)
    /\ UNCHANGED <<onDelete, ddls, writes>>

\* Any statement of it fails, or the process dies: the transaction is rolled back.
RebuildFails(c) ==
    /\ task[c] # Null
    /\ task' = [task EXCEPT ![c] = Null]
    /\ UNCHANGED <<tables, onDelete, ddls, writes, unlinked>>

----------------------------------------------------------------------------

Next ==
    \/ DeleteParent
    \/ \E t \in Tables : Insert(t)
    \/ \E t \in Tables, n \in Names : AddColumn(t, n) \/ DropColumn(t, n)
    \/ \E t \in Tables, n, m \in Names : RenameColumn(t, n, m)
    \/ \E c \in Clients, t \in Tables, n, m \in Names : AskAlter(c, t, n, m)
    \/ \E c \in Clients : Rebuild(c) \/ RebuildFails(c)

Spec == Init /\ [][Next]_vars

----------------------------------------------------------------------------
(* Properties. *)

Tasks ==
    [table : Tables, col : Names, newName : Names, seen : SUBSET Names, key : Names,
     stale : BOOLEAN]

TypeOK ==
    /\ cols \in [Tables -> SUBSET Names]
    /\ pk \in [Tables -> Names] /\ \A t \in Tables : pk[t] \in cols[t]
    /\ DOMAIN rows = Tables /\ \A t \in Tables : rows[t] \subseteq [cols[t] -> Values]
    /\ fk = Null \/ (fk \in [col : Names, target : Names] /\ fk.col \in cols["child"])
    /\ onDelete \in Actions
    /\ \A c \in Clients : task[c] = Null \/ task[c] \in Tasks
    /\ ddls \in 0..MaxDdls /\ writes \in 0..MaxWrites
    /\ unlinked \subseteq {"rebuild", "drop"}

\* Every row of t is there after the step too, as far as the columns ns tell.
RowsKept(t, ns) ==
    \A r \in rows[t] : \E q \in rows'[t] : \A n \in ns : n \in DOMAIN q /\ q[n] = r[n]

\* A rebuild keeps every row with all its columns but the changed one, which it
\* keeps too when it does not rename it, unless the columns of the table were
\* changed after its Schema().
RebuildKeepsRows ==
    [][\A c \in Clients :
          task[c] # Null /\ Rebuild(c) /\ ~task[c].stale =>
             LET a == task[c]
             IN  RowsKept(a.table, {n \in cols[a.table] : n # a.col \/ a.newName = a.col})]_vars

\* "Copy data with type coercion": under its new name a column (here one that
\* is not the primary key) that is renamed and given a type holds what it held.
RenamedKeepsValues ==
    [][\A c \in Clients :
          task[c] # Null /\ Rebuild(c) /\ ~task[c].stale /\ task[c].col # task[c].key =>
             LET a == task[c]
             IN  \A r \in rows[a.table] : \E q \in rows'[a.table] : q[a.newName] = r[a.col]]_vars

\* foreign_keys(1): a child row refers to a parent row or to nothing, through
\* cascades, defaults, renames, and rebuilds of the parent that fail or empty the
\* child, until the child itself was rebuilt or the column that refers dropped.
OrphansHaveCause ==
    unlinked = {} =>
        /\ fk # Null
        /\ \A r \in rows["child"] : r[fk.col] \in KeysOf("parent") \cup {Null}

=============================================================================
