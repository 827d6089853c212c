-------------------------------- MODULE RowOps --------------------------------
(***************************************************************************)
(* What one statement does to the rows of a user table: the operations of  *)
(* a batch (internal/engine/data.go) and what SQLite makes of them.        *)
(*                                                                         *)
(* A table is a function from row ids to rows.  The primary key is column  *)
(* "key", which is not the row id, or, if composite, both columns.         *)
(***************************************************************************)
EXTENDS Integers, Sequences, FiniteSets

CONSTANTS
    Keys,       \* values of column "key", the first of the primary key
    Vals,       \* values of column "val"
    Bad,        \* a value of the wrong type, or for a column there is not
    MaxRow      \* bound: row ids; an insert beyond fails (disk full)

ASSUME BadAssumption == Bad \notin Keys \cup Vals
ASSUME MaxRowAssumption == MaxRow \in Nat

Rows == 1..MaxRow
Row == [key : Keys, val : Vals]
Tables == UNION {[R -> Row] : R \in SUBSET Rows}

\* BatchOp: rowId and values, a function from the columns that are given.
Sets == UNION {[C -> Keys \cup Vals \cup {Bad}] : C \in SUBSET {"key", "val"}}
Op == [op : {"insert", "update", "delete", "other"}, row : 0..MaxRow, set : Sets]

\* No columns given; no rows.
Nothing == [x \in {} |-> Bad]

Without(t, R) == [i \in DOMAIN t \ R |-> t[i]]
With(t, i, row) == [j \in DOMAIN t \cup {i} |-> IF j = i THEN row ELSE t[j]]

\* The row, the values it is given replaced.
Changed(row, set) ==
    [key |-> IF "key" \in DOMAIN set THEN set["key"] ELSE row.key,
     val |-> IF "val" \in DOMAIN set THEN set["val"] ELSE row.val]

\* The primary key of row i would stay unique.
Unique(t, i, row, composite) ==
    \A j \in DOMAIN t \ {i} : t[j].key = row.key => composite /\ t[j].val # row.val

\* The next row id is the largest plus one: that of a deleted row is used
\* again if no row is left above it.
NextRows(t) ==
    {i \in Rows : (\A j \in DOMAIN t : j < i) /\ (i = 1 \/ i - 1 \in DOMAIN t)}

\* Values are given, for columns there are, and coerce converts them.
Usable(set) ==
    /\ DOMAIN set # {}
    /\ "key" \in DOMAIN set => set["key"] \in Keys
    /\ "val" \in DOMAIN set => set["val"] \in Vals

batchInsert(t, set, composite) ==
    IF Usable(set) /\ DOMAIN set = {"key", "val"}
    THEN LET row == [key |-> set["key"], val |-> set["val"]]
         IN  {With(t, i, row) : i \in {j \in NextRows(t) : Unique(t, j, row, composite)}}
    ELSE {}

\* A row that is not there is an error of an update, not of a delete.
batchUpdate(t, i, set, composite) ==
    IF i \in DOMAIN t /\ Usable(set) /\ Unique(t, i, Changed(t[i], set), composite)
    THEN {With(t, i, Changed(t[i], set))}
    ELSE {}

\* The table after an operation; none if the operation fails.
Outcomes(op, t, composite) ==
    CASE op.op = "insert" -> batchInsert(t, op.set, composite)
      [] op.op = "update" -> batchUpdate(t, op.row, op.set, composite)
      [] op.op = "delete" -> {Without(t, {op.row})}
      [] op.op = "other" -> {}

\* The rows with this key: the handlers compare the first key column only.
Named(t, k) == {i \in DOMAIN t : t[i].key = k}

\* The rebuild of AlterColumn copies the rows without their row ids: they
\* are numbered again, in their order.
Renumbered(t) ==
    {[i \in DOMAIN f |-> t[f[i]]] :
        f \in {g \in UNION {[1..n -> DOMAIN t] : n \in 0..MaxRow} :
                  /\ \A i, j \in DOMAIN g : i < j => g[i] < g[j]
                  /\ \A i \in DOMAIN t : \E j \in DOMAIN g : g[j] = i}}

\* The row stands for another record, or for none, after this operation.
Unseats(op, i) == op.row = i /\ (op.op = "delete" \/ (op.op = "update" /\ "key" \in DOMAIN op.set))

=============================================================================
