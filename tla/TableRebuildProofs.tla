-------------------------- MODULE TableRebuildProofs --------------------------
(***************************************************************************)
(* Theorems about AlterColumn's table rebuild, for any number of requests, *)
(* names and keys, and every ON DELETE action.                             *)
(***************************************************************************)
EXTENDS TableRebuild, TLAPS

\* A request has read a primary key among the columns, and, while it is not
\* stale, the columns and the key the table has.
SeenIsCurrent ==
    \A c \in Clients : task[c] # Null =>
        /\ task[c].key \in task[c].seen
        /\ ~task[c].stale => task[c].seen = cols[task[c].table] /\ task[c].key = pk[task[c].table]

RebuildInv == TypeOK /\ SeenIsCurrent

LEMMA RenamedIs ==
    ASSUME NEW S, NEW old \in S, NEW new, new \notin S
    PROVE  \A m \in Renamed(S, old, new) : IsOr(m, new, old) \in S
BY DEF Renamed, IsOr

LEMMA OutdateIs ==
    ASSUME TypeOK, NEW t \in Tables
    PROVE  \A c \in Clients :
              /\ Outdate(t)[c] = Null \/ Outdate(t)[c] \in Tasks
              /\ Outdate(t)[c] # Null => task[c] # Null
              /\ task[c] # Null => /\ Outdate(t)[c].table = task[c].table
                                   /\ Outdate(t)[c].seen = task[c].seen
                                   /\ Outdate(t)[c].key = task[c].key
                                   /\ ~Outdate(t)[c].stale => ~task[c].stale /\ task[c].table # t
<1> SUFFICES ASSUME NEW c \in Clients
             PROVE  /\ Outdate(t)[c] = Null \/ Outdate(t)[c] \in Tasks
                    /\ Outdate(t)[c] # Null => task[c] # Null
                    /\ task[c] # Null => /\ Outdate(t)[c].table = task[c].table
                                         /\ Outdate(t)[c].seen = task[c].seen
                                         /\ Outdate(t)[c].key = task[c].key
                                         /\ ~Outdate(t)[c].stale => ~task[c].stale /\ task[c].table # t
  OBVIOUS
<1>1. Outdate(t)[c] = IF task[c] # Null /\ task[c].table = t THEN [task[c] EXCEPT !.stale = TRUE]
                                                             ELSE task[c]
  BY DEF Outdate
<1>2. CASE task[c] = Null
  BY <1>1, <1>2
<1>3. CASE task[c] # Null
  <2>1. task[c] \in Tasks
    BY <1>3 DEF TypeOK
  <2> DEFINE a == task[c]
             b == [a EXCEPT !.stale = TRUE]
  <2>2. /\ b \in Tasks /\ b.table = a.table /\ b.seen = a.seen /\ b.key = a.key /\ b.stale
    BY <2>1 DEF Tasks
  <2> HIDE DEF b
  <2>3. Outdate(t)[c] = IF a.table = t THEN b ELSE a
    BY <1>1, <1>3 DEF b
  <2> QED BY <1>3, <2>1, <2>2, <2>3
<1> QED BY <1>2, <1>3

-----------------------------------------------------------------------------
(* What SQLite's foreign keys and a rebuild make of the rows. *)

LEMMA ReferringIs ==
    \A ks : /\ Referring(ks) \subseteq rows["child"]
            /\ Referring(ks) # {} => fk # Null
BY DEF Referring

LEMMA AfterDeleteTyped ==
    ASSUME TypeOK, NEW ks
    PROVE  AfterDelete(ks) \subseteq [cols["child"] -> Values]
<1>1. rows["child"] \subseteq [cols["child"] -> Values]
  BY DEF TypeOK, Tables
<1>2. \A r \in Referring(ks) : [r EXCEPT ![fk.col] = Reset] \in [cols["child"] -> Values]
  BY <1>1, ReferringIs, DefaultAssumption DEF Values, Reset
<1> QED BY <1>1, <1>2 DEF AfterDelete

LEMMA CopiedTyped ==
    ASSUME TypeOK, NEW a \in Tasks
    PROVE  Copied(a) \subseteq [NewCols(a) -> Values]
<1>1. NewCols(a) \subseteq Names
  BY DEF Tasks, NewCols, Renamed
<1>2. \A r \in rows[a.table], n \in NewCols(a) : Selected(r, n) \in Values
  <2> SUFFICES ASSUME NEW r \in rows[a.table], NEW n \in NewCols(a)
               PROVE  Selected(r, n) \in Values
    OBVIOUS
  <2>1. r \in [cols[a.table] -> Values]
    BY DEF TypeOK, Tasks
  <2>2. n \in Values
    BY <1>1 DEF Values
  <2> QED BY <2>1, <2>2 DEF Selected
<1> QED BY <1>2 DEF Copied

LEMMA RebuildStart == Init => RebuildInv
<1> SUFFICES ASSUME Init PROVE RebuildInv
  OBVIOUS
<1>1. cols = [t \in Tables |-> {Id, Ref}] /\ pk = [t \in Tables |-> Id] /\ rows = [t \in Tables |-> {}]
  BY DEF Init
<1>2. fk \in [col : Names, target : Names] /\ fk.col \in cols["child"]
  BY <1>1, NamesAssumption DEF Init, Tables
<1>3. onDelete \in Actions /\ ddls \in 0..MaxDdls /\ writes \in 0..MaxWrites /\ unlinked \subseteq {"rebuild", "drop"}
  BY BoundsAssumption DEF Init
<1>4. \A c \in Clients : task[c] = Null
  BY DEF Init
<1>5. TypeOK
  BY <1>1, <1>2, <1>3, <1>4, NamesAssumption DEF TypeOK
<1> QED BY <1>4, <1>5 DEF RebuildInv, SeenIsCurrent

-----------------------------------------------------------------------------
(* RebuildInv, action by action. *)

\* The columns of t are changed by a statement of ALTER TABLE.
LEMMA ColumnsChanged ==
    ASSUME RebuildInv, NEW t \in Tables, Ddl, task' = Outdate(t),
           UNCHANGED <<onDelete, writes>>, unlinked' \subseteq {"rebuild", "drop"},
           NEW S \in SUBSET Names, NEW k \in S, NEW R, R \subseteq [S -> Values],
           cols' = [cols EXCEPT ![t] = S], pk' = [pk EXCEPT ![t] = k],
           rows' = [rows EXCEPT ![t] = R],
           fk' = Null \/ (fk' \in [col : Names, target : Names] /\ fk'.col \in cols'["child"])
    PROVE  RebuildInv'
<1>1. TypeOK
  BY DEF RebuildInv
<1>2. /\ cols' \in [Tables -> SUBSET Names] /\ pk' \in [Tables -> Names]
      /\ \A s \in Tables : pk'[s] \in cols'[s]
      /\ DOMAIN rows' = Tables /\ \A s \in Tables : rows'[s] \subseteq [cols'[s] -> Values]
  BY <1>1 DEF TypeOK
<1>3. ddls' \in 0..MaxDdls
  BY <1>1, BoundsAssumption DEF TypeOK, Ddl
<1>4. \A c \in Clients : task'[c] = Null \/ task'[c] \in Tasks
  BY <1>1, OutdateIs
<1>5. TypeOK'
  BY <1>1, <1>2, <1>3, <1>4 DEF TypeOK
<1>6. SeenIsCurrent'
  <2> SUFFICES ASSUME NEW c \in Clients, task'[c] # Null
               PROVE  /\ task'[c].key \in task'[c].seen
                      /\ ~task'[c].stale => /\ task'[c].seen = cols'[task'[c].table]
                                            /\ task'[c].key = pk'[task'[c].table]
    BY DEF SeenIsCurrent
  <2>1. task[c] # Null
    BY <1>1, OutdateIs
  <2>2. /\ task'[c].table = task[c].table /\ task'[c].seen = task[c].seen /\ task'[c].key = task[c].key
        /\ ~task'[c].stale => ~task[c].stale /\ task[c].table # t
    BY <1>1, <2>1, OutdateIs
  <2>3. task[c].table \in Tables
    BY <1>1, <2>1 DEF TypeOK, Tasks
  <2> QED BY <1>1, <2>1, <2>2, <2>3 DEF RebuildInv, SeenIsCurrent, TypeOK
<1> QED BY <1>5, <1>6 DEF RebuildInv

LEMMA WriteKeeps ==
    ASSUME RebuildInv, Write, UNCHANGED <<cols, pk, fk, onDelete, task, ddls, unlinked>>,
           DOMAIN rows' = Tables, \A t \in Tables : rows'[t] \subseteq [cols[t] -> Values]
    PROVE  RebuildInv'
<1>1. TypeOK /\ SeenIsCurrent
  BY DEF RebuildInv
<1>2. writes' \in 0..MaxWrites
  BY <1>1, BoundsAssumption DEF TypeOK, Write
<1>3. TypeOK'
  BY <1>1, <1>2 DEF TypeOK
<1>4. SeenIsCurrent'
  BY <1>1 DEF SeenIsCurrent
<1> QED BY <1>3, <1>4 DEF RebuildInv

LEMMA InsertStep == \A t \in Tables : RebuildInv /\ Insert(t) => RebuildInv'
<1> SUFFICES ASSUME NEW t \in Tables, RebuildInv, Insert(t) PROVE RebuildInv'
  OBVIOUS
<1>1. PICK k \in Keys \ KeysOf(t), v \in (Keys \cap KeysOf("parent")) \cup {Null} :
         rows' = [rows EXCEPT ![t] = @ \cup {Filled(t, k, v)}]
  BY DEF Insert
<1>2. Filled(t, k, v) \in [cols[t] -> Values]
  BY DEF Filled, Values
<1>3. TypeOK
  BY DEF RebuildInv
<1>4. DOMAIN rows' = Tables /\ \A s \in Tables : rows'[s] \subseteq [cols[s] -> Values]
  BY <1>1, <1>2, <1>3 DEF TypeOK
<1> QED BY <1>4, WriteKeeps DEF Insert

LEMMA DeleteStep == RebuildInv /\ DeleteParent => RebuildInv'
<1> SUFFICES ASSUME RebuildInv, DeleteParent PROVE RebuildInv'
  OBVIOUS
<1>1. PICK r \in rows["parent"] :
         rows' = [parent |-> rows["parent"] \ {r}, child |-> AfterDelete({r[pk["parent"]]})]
  BY DEF DeleteParent
<1>2. TypeOK
  BY DEF RebuildInv
<1>3. AfterDelete({r[pk["parent"]]}) \subseteq [cols["child"] -> Values]
  BY <1>2, AfterDeleteTyped
<1>4. DOMAIN rows' = Tables /\ \A s \in Tables : rows'[s] \subseteq [cols[s] -> Values]
  <2>1. rows["parent"] \subseteq [cols["parent"] -> Values]
    BY <1>2 DEF TypeOK, Tables
  <2>2. /\ DOMAIN rows' = {"parent", "child"}
        /\ rows'["parent"] = rows["parent"] \ {r} /\ rows'["child"] = AfterDelete({r[pk["parent"]]})
    BY <1>1
  <2> QED BY <1>3, <2>1, <2>2 DEF Tables
<1> QED BY <1>4, WriteKeeps DEF DeleteParent

LEMMA AddStep ==
    \A t \in Tables, n \in Names : RebuildInv /\ AddColumn(t, n) => RebuildInv'
<1> SUFFICES ASSUME NEW t \in Tables, NEW n \in Names, RebuildInv, AddColumn(t, n)
             PROVE  RebuildInv'
  OBVIOUS
<1> DEFINE S == cols[t] \cup {n}
           R == {[m \in cols[t] \cup {n} |-> IF m = n THEN Null ELSE r[m]] : r \in rows[t]}
<1>1. TypeOK
  BY DEF RebuildInv
<1>2. S \in SUBSET Names /\ pk[t] \in S
  BY <1>1 DEF TypeOK
<1>3. R \subseteq [S -> Values]
  BY <1>1 DEF TypeOK, Values
<1>4. /\ cols' = [cols EXCEPT ![t] = S] /\ pk' = [pk EXCEPT ![t] = pk[t]]
      /\ rows' = [rows EXCEPT ![t] = R]
  BY <1>1 DEF AddColumn, TypeOK
<1>5. fk' = Null \/ (fk' \in [col : Names, target : Names] /\ fk'.col \in cols'["child"])
  BY <1>1, <1>4 DEF AddColumn, TypeOK, Tables
<1>6. unlinked' \subseteq {"rebuild", "drop"}
  BY <1>1 DEF AddColumn, TypeOK
<1> HIDE DEF S, R
<1> QED BY <1>2, <1>3, <1>4, <1>5, <1>6, ColumnsChanged DEF AddColumn

LEMMA DropStep ==
    \A t \in Tables, n \in Names : RebuildInv /\ DropColumn(t, n) => RebuildInv'
<1> SUFFICES ASSUME NEW t \in Tables, NEW n \in Names, RebuildInv, DropColumn(t, n)
             PROVE  RebuildInv'
  OBVIOUS
<1> DEFINE S == cols[t] \ {n}
           R == {[m \in cols[t] \ {n} |-> r[m]] : r \in rows[t]}
<1>1. TypeOK
  BY DEF RebuildInv
<1>2. S \in SUBSET Names /\ pk[t] \in S
  BY <1>1 DEF TypeOK, DropColumn
<1>3. R \subseteq [S -> Values]
  BY <1>1 DEF TypeOK
<1>4. /\ cols' = [cols EXCEPT ![t] = S] /\ pk' = [pk EXCEPT ![t] = pk[t]]
      /\ rows' = [rows EXCEPT ![t] = R]
  BY <1>1 DEF DropColumn, TypeOK
<1>5. fk' = Null \/ (fk' \in [col : Names, target : Names] /\ fk'.col \in cols'["child"])
  <2>1. CASE t = "child" /\ fk # Null /\ n = fk.col
    BY <2>1 DEF DropColumn
  <2>2. CASE ~(t = "child" /\ fk # Null /\ n = fk.col)
    <3>1. fk' = fk
      BY <2>2 DEF DropColumn
    <3>2. fk # Null => fk.col \in cols'["child"]
      BY <1>1, <1>4, <2>2 DEF TypeOK, Tables
    <3> QED BY <1>1, <3>1, <3>2 DEF TypeOK
  <2> QED BY <2>1, <2>2
<1>6. unlinked' \subseteq {"rebuild", "drop"}
  BY <1>1 DEF DropColumn, TypeOK
<1> HIDE DEF S, R
<1> QED BY <1>2, <1>3, <1>4, <1>5, <1>6, ColumnsChanged DEF DropColumn

LEMMA RenameStep ==
    \A t \in Tables, n, m \in Names : RebuildInv /\ RenameColumn(t, n, m) => RebuildInv'
<1> SUFFICES ASSUME NEW t \in Tables, NEW old \in Names, NEW new \in Names,
                    RebuildInv, RenameColumn(t, old, new)
             PROVE  RebuildInv'
  OBVIOUS
<1> DEFINE S == Renamed(cols[t], old, new)
           k == IsOr(pk[t], old, new)
           R == {[m \in Renamed(cols[t], old, new) |-> r[IsOr(m, new, old)]] : r \in rows[t]}
<1>1. TypeOK
  BY DEF RebuildInv
<1>2. old \in cols[t] /\ new \notin cols[t]
  BY DEF RenameColumn
<1>3. S \in SUBSET Names /\ k \in S
  BY <1>1 DEF TypeOK, Renamed, IsOr
<1>4. R \subseteq [S -> Values]
  BY <1>1, <1>2, RenamedIs DEF TypeOK
<1>5. /\ cols' = [cols EXCEPT ![t] = S] /\ pk' = [pk EXCEPT ![t] = k]
      /\ rows' = [rows EXCEPT ![t] = R]
  BY <1>1 DEF RenameColumn, TypeOK
<1>6. fk' = Null \/ (fk' \in [col : Names, target : Names] /\ fk'.col \in cols'["child"])
  <2>1. CASE fk = Null
    BY <2>1 DEF RenameColumn
  <2>2. CASE fk # Null /\ t = "child"
    <3>1. fk' = [fk EXCEPT !.col = IsOr(fk.col, old, new)] /\ fk \in [col : Names, target : Names]
          /\ fk.col \in cols["child"]
      BY <1>1, <2>2 DEF RenameColumn, TypeOK
    <3>2. cols'["child"] = Renamed(cols["child"], old, new)
      BY <1>1, <1>5, <2>2 DEF TypeOK
    <3> QED BY <3>1, <3>2 DEF IsOr, Renamed
  <2>3. CASE fk # Null /\ t # "child"
    <3>1. fk' = [fk EXCEPT !.target = IsOr(fk.target, old, new)] /\ fk \in [col : Names, target : Names]
          /\ fk.col \in cols["child"]
      BY <1>1, <2>3 DEF RenameColumn, TypeOK
    <3>2. cols'["child"] = cols["child"]
      BY <1>1, <1>5, <2>3 DEF TypeOK, Tables
    <3> QED BY <3>1, <3>2 DEF IsOr
  <2> QED BY <2>1, <2>2, <2>3
<1>7. unlinked' \subseteq {"rebuild", "drop"}
  BY <1>1 DEF RenameColumn, TypeOK
<1> HIDE DEF S, k, R
<1> QED BY <1>3, <1>4, <1>5, <1>6, <1>7, ColumnsChanged DEF RenameColumn

LEMMA AskStep ==
    \A c \in Clients, t \in Tables, n, new \in Names :
        RebuildInv /\ AskAlter(c, t, n, new) => RebuildInv'
<1> SUFFICES ASSUME NEW c \in Clients, NEW t \in Tables, NEW n \in Names, NEW new \in Names,
                    RebuildInv, AskAlter(c, t, n, new)
             PROVE  RebuildInv'
  OBVIOUS
<1> DEFINE a == [table |-> t, col |-> n, newName |-> new, seen |-> cols[t], key |-> pk[t], stale |-> FALSE]
<1>1. TypeOK /\ SeenIsCurrent
  BY DEF RebuildInv
<1>2. a \in Tasks /\ a.seen = cols[a.table] /\ a.key = pk[a.table] /\ a.key \in a.seen
  BY <1>1 DEF Tasks, TypeOK
<1> HIDE DEF a
<1>3. task' = [task EXCEPT ![c] = a] /\ UNCHANGED <<tables, onDelete, writes, unlinked>>
  BY DEF AskAlter, a
<1>4. \A b \in Clients : task'[b] = task[b] \/ task'[b] = a
  BY <1>3
<1>5. ddls' \in 0..MaxDdls
  BY <1>1, BoundsAssumption DEF AskAlter, Ddl, TypeOK
<1>6. \A b \in Clients : task'[b] = Null \/ task'[b] \in Tasks
  BY <1>1, <1>2, <1>4 DEF TypeOK
<1>7. TypeOK'
  BY <1>1, <1>3, <1>5, <1>6 DEF TypeOK, tables
<1>8. SeenIsCurrent'
  BY <1>1, <1>2, <1>3, <1>4 DEF SeenIsCurrent, tables
<1> QED BY <1>7, <1>8 DEF RebuildInv

LEMMA FailStep == \A c \in Clients : RebuildInv /\ RebuildFails(c) => RebuildInv'
<1> SUFFICES ASSUME NEW c \in Clients, RebuildInv, RebuildFails(c) PROVE RebuildInv'
  OBVIOUS
<1>1. TypeOK /\ SeenIsCurrent
  BY DEF RebuildInv
<1>2. task' = [task EXCEPT ![c] = Null] /\ UNCHANGED <<tables, onDelete, ddls, writes, unlinked>>
  BY DEF RebuildFails
<1>3. \A b \in Clients : task'[b] = task[b] \/ task'[b] = Null
  BY <1>2
<1>4. TypeOK'
  BY <1>1, <1>2, <1>3 DEF TypeOK, tables
<1>5. SeenIsCurrent'
  BY <1>1, <1>2, <1>3 DEF SeenIsCurrent, tables
<1> QED BY <1>4, <1>5 DEF RebuildInv

\* What the transaction leaves.
LEMMA RebuildIs ==
    ASSUME TypeOK, NEW c \in Clients, Rebuild(c)
    PROVE  /\ task[c] \in Tasks
           /\ cols' = [cols EXCEPT ![task[c].table] = NewCols(task[c])]
           /\ pk' = [pk EXCEPT ![task[c].table] = NewKey(task[c])]
           /\ DOMAIN rows' = Tables
           /\ rows'[task[c].table] = Copied(task[c])
           /\ task[c].table = "parent" =>
                 /\ rows'["child"] = AfterDelete(KeysOf("parent"))
                 /\ fk' = fk
                 /\ Allowed(KeysOf("parent"))
           /\ task[c].table = "child" =>
                 /\ rows'["parent"] = rows["parent"]
                 /\ fk' = Null
           /\ task[c].table = "parent" => unlinked' = unlinked
           /\ task[c].table = "child" => unlinked' = unlinked \cup {"rebuild"}
           /\ task' = [Outdate(task[c].table) EXCEPT ![c] = Null]
           /\ UNCHANGED <<onDelete, ddls, writes>>
<1> DEFINE a == task[c]
<1>1. a \in Tasks /\ a.table \in Tables
  BY DEF Rebuild, TypeOK, Tasks
<1>2. /\ rows' = [rows EXCEPT !["child"] = AfterDrop(a.table), ![a.table] = Copied(a)]
      /\ cols' = [cols EXCEPT ![a.table] = NewCols(a)] /\ pk' = [pk EXCEPT ![a.table] = NewKey(a)]
      /\ fk' = IF a.table = "child" THEN Null ELSE fk
      /\ unlinked' = IF a.table = "child" THEN unlinked \cup {"rebuild"} ELSE unlinked
      /\ a.table = "parent" => Allowed(KeysOf("parent"))
      /\ task' = [Outdate(a.table) EXCEPT ![c] = Null]
      /\ UNCHANGED <<onDelete, ddls, writes>>
  BY DEF Rebuild, Done
<1> HIDE DEF a
<1>3. DOMAIN rows = Tables
  BY DEF TypeOK
<1>4. DOMAIN rows' = Tables /\ rows'[a.table] = Copied(a)
  BY <1>1, <1>2, <1>3
<1>5. a.table = "parent" => rows'["child"] = AfterDelete(KeysOf("parent"))
  BY <1>2, <1>3 DEF AfterDrop, Tables
<1>6. a.table = "child" => rows'["parent"] = rows["parent"]
  BY <1>2, <1>3 DEF Tables
<1> QED BY <1>1, <1>2, <1>4, <1>5, <1>6 DEF a

LEMMA RebuildStep == \A c \in Clients : RebuildInv /\ Rebuild(c) => RebuildInv'
<1> SUFFICES ASSUME NEW c \in Clients, RebuildInv, Rebuild(c) PROVE RebuildInv'
  OBVIOUS
<1> DEFINE a == task[c]
           t == task[c].table
<1>1. TypeOK /\ SeenIsCurrent
  BY DEF RebuildInv
<1>2. /\ a \in Tasks /\ t \in Tables
      /\ cols' = [cols EXCEPT ![t] = NewCols(a)] /\ pk' = [pk EXCEPT ![t] = NewKey(a)]
      /\ DOMAIN rows' = Tables /\ rows'[t] = Copied(a)
      /\ t = "parent" => rows'["child"] = AfterDelete(KeysOf("parent")) /\ fk' = fk
      /\ t = "child" => rows'["parent"] = rows["parent"] /\ fk' = Null
      /\ unlinked' \subseteq unlinked \cup {"rebuild"} /\ task' = [Outdate(t) EXCEPT ![c] = Null]
      /\ UNCHANGED <<onDelete, ddls, writes>>
  BY <1>1, RebuildIs DEF Tasks, Tables
<1>3. NewCols(a) \in SUBSET Names /\ NewKey(a) \in Names
  BY <1>2 DEF Tasks, NewCols, NewKey, Renamed, IsOr
<1>n. NewKey(a) \in NewCols(a)
  BY <1>1 DEF SeenIsCurrent, Rebuild, NewKey, NewCols, Renamed, IsOr
<1>4. /\ cols' \in [Tables -> SUBSET Names] /\ pk' \in [Tables -> Names]
      /\ \A s \in Tables : pk'[s] \in cols'[s]
  BY <1>1, <1>2, <1>3, <1>n DEF TypeOK
<1>5. \A s \in Tables : rows'[s] \subseteq [cols'[s] -> Values]
  <2>1. rows'[t] \subseteq [cols'[t] -> Values]
    BY <1>1, <1>2, CopiedTyped DEF TypeOK
  <2>2. CASE t = "parent"
    BY <1>1, <1>2, <2>1, <2>2, AfterDeleteTyped DEF TypeOK, Tables
  <2>3. CASE t = "child"
    BY <1>1, <1>2, <2>1, <2>3 DEF TypeOK, Tables
  <2> QED BY <1>2, <2>2, <2>3 DEF Tables
<1>6. fk' = Null \/ (fk' \in [col : Names, target : Names] /\ fk'.col \in cols'["child"])
  BY <1>1, <1>2 DEF TypeOK, Tables
<1>7. \A b \in Clients : task'[b] = Null \/ (b # c /\ task'[b] = Outdate(t)[b])
  BY <1>2 DEF Outdate
<1>8. \A b \in Clients : task'[b] = Null \/ task'[b] \in Tasks
  BY <1>1, <1>2, <1>7, OutdateIs
<1>9. TypeOK'
  BY <1>1, <1>2, <1>4, <1>5, <1>6, <1>8 DEF TypeOK
<1>10. SeenIsCurrent'
  <2> SUFFICES ASSUME NEW b \in Clients, task'[b] # Null
               PROVE  /\ task'[b].key \in task'[b].seen
                      /\ ~task'[b].stale => /\ task'[b].seen = cols'[task'[b].table]
                                            /\ task'[b].key = pk'[task'[b].table]
    BY DEF SeenIsCurrent
  <2>1. task'[b] = Outdate(t)[b]
    BY <1>7
  <2>2. task[b] # Null
    BY <1>1, <1>2, <2>1, OutdateIs
  <2>3. /\ ~task'[b].stale => ~task[b].stale /\ task[b].table # t
        /\ task'[b].table = task[b].table /\ task'[b].seen = task[b].seen /\ task'[b].key = task[b].key
    BY <1>1, <1>2, <2>1, <2>2, OutdateIs
  <2>4. task[b].table \in Tables
    BY <1>1, <2>2 DEF TypeOK, Tasks
  <2> QED BY <1>1, <1>2, <2>2, <2>3, <2>4 DEF SeenIsCurrent, TypeOK
<1> QED BY <1>9, <1>10 DEF RebuildInv

LEMMA RebuildInvStep == RebuildInv /\ [Next]_vars => RebuildInv'
<1> SUFFICES ASSUME RebuildInv, [Next]_vars PROVE RebuildInv'
  OBVIOUS
<1>1. CASE UNCHANGED vars
  BY <1>1 DEF RebuildInv, TypeOK, SeenIsCurrent, vars, tables
<1> QED BY <1>1, DeleteStep, InsertStep, AddStep, DropStep, RenameStep, AskStep, RebuildStep, FailStep
        DEF Next

LEMMA RebuildAlways == Spec => []RebuildInv
<1>1. Init => RebuildInv
  BY RebuildStart
<1> QED BY <1>1, RebuildInvStep, PTL DEF Spec

\* Every row has the columns of its table, whatever schema a rebuild was made from.
THEOREM RebuildTypes == Spec => []TypeOK
<1>1. RebuildInv => TypeOK
  BY DEF RebuildInv
<1> QED BY <1>1, RebuildAlways, PTL

-----------------------------------------------------------------------------
(* What a rebuild keeps. *)

LEMMA CurrentRebuildKeeps ==
    ASSUME RebuildInv, NEW c \in Clients, task[c] # Null, Rebuild(c), ~task[c].stale
    PROVE  RowsKept(task[c].table,
                    {n \in cols[task[c].table] : n # task[c].col \/ task[c].newName = task[c].col})
<1> DEFINE a == task[c]
<1>1. TypeOK /\ a.seen = cols[a.table] /\ a.table \in Tables
  BY DEF RebuildInv, SeenIsCurrent, TypeOK, Tasks
<1>2. rows'[a.table] = Copied(a)
  BY <1>1, RebuildIs
<1> SUFFICES ASSUME NEW r \in rows[a.table]
             PROVE  \E q \in Copied(a) : \A n \in cols[a.table] :
                       n # a.col \/ a.newName = a.col => n \in DOMAIN q /\ q[n] = r[n]
  BY <1>2 DEF RowsKept
<1> DEFINE q == [n \in NewCols(a) |-> Selected(r, n)]
<1>3. q \in Copied(a)
  BY DEF Copied
<1>4. DOMAIN r = cols[a.table]
  BY <1>1 DEF TypeOK
<1>5. ASSUME NEW n \in cols[a.table], n # a.col \/ a.newName = a.col
      PROVE  n \in DOMAIN q /\ q[n] = r[n]
  <2>1. n \in NewCols(a)
    BY <1>1, <1>5 DEF NewCols, Renamed
  <2> QED BY <1>4, <1>5, <2>1 DEF Selected
<1> QED BY <1>3, <1>5

\* AlterColumn with a current schema keeps the rows, and what they hold but for the
\* column it changes.
THEOREM RebuildsKeep == Spec => RebuildKeepsRows
<1>1. RebuildInv /\ [Next]_vars =>
         [\A c \in Clients :
             task[c] # Null /\ Rebuild(c) /\ ~task[c].stale =>
                LET a == task[c]
                IN  RowsKept(a.table, {n \in cols[a.table] : n # a.col \/ a.newName = a.col})]_vars
  BY CurrentRebuildKeeps
<1> QED BY <1>1, RebuildAlways, PTL DEF Spec, RebuildKeepsRows

-----------------------------------------------------------------------------
(* References. *)

\* As long as the child has its reference, the column is not its key and the reference
\* is honoured; when a rebuild of the parent took the referenced key away, no child refers
\* to anything.
References ==
    unlinked = {} =>
        /\ fk # Null /\ fk.col # pk["child"]
        /\ \A r \in rows["child"] : r[fk.col] \in KeysOf("parent") \cup {Null}
        /\ ~Matched => \A r \in rows["child"] : r[fk.col] = Null

RefInv == RebuildInv /\ References

LEMMA RefStart == Init => References
BY NamesAssumption, NullAssumption DEF Init, References, Matched, Tables

\* A delete of parent rows with the keys ks, by a statement or by DROP TABLE.
LEMMA DeleteKeepsReferences ==
    ASSUME RefInv, unlinked = {}, Matched, NEW ks, Allowed(ks), onDelete \in Actions
    PROVE  \A r \in AfterDelete(ks) :
              r[fk.col] = Null \/ (r[fk.col] \in KeysOf("parent") /\ r[fk.col] \notin ks)
<1>1. TypeOK /\ fk # Null /\ fk.col \in cols["child"]
  BY DEF RefInv, References, RebuildInv, TypeOK
<1>2. \A r \in rows["child"] : r[fk.col] \in KeysOf("parent") \cup {Null}
  BY DEF RefInv, References
<1>3. Referring(ks) = {r \in rows["child"] : r[fk.col] \in ks}
  BY <1>1 DEF Referring
<1> SUFFICES ASSUME NEW r \in AfterDelete(ks)
             PROVE  r[fk.col] = Null \/ (r[fk.col] \in KeysOf("parent") /\ r[fk.col] \notin ks)
  OBVIOUS
<1>4. CASE r \in rows["child"] \ Referring(ks)
  BY <1>2, <1>3, <1>4
<1>5. CASE r \notin rows["child"] \ Referring(ks)
  <2>1. PICK q \in Referring(ks) : r = [q EXCEPT ![fk.col] = Reset]
    BY <1>5 DEF AfterDelete
  <2>2. Reset \in (KeysOf("parent") \ ks) \cup {Null}
    BY <2>1 DEF Allowed
  <2>3. q \in [cols["child"] -> Values]
    BY <1>1, <1>3 DEF TypeOK, Tables
  <2> QED BY <1>1, <2>1, <2>3, <2>2
<1> QED BY <1>4, <1>5

\* A step that leaves the keys of the parent and the references of the child as they are.
LEMMA ReferencesStay ==
    ASSUME References, unlinked' = {} => unlinked = {},
           UNCHANGED <<cols, pk, fk>>, rows["parent"] \subseteq rows'["parent"],
           rows'["child"] \subseteq rows["child"]
    PROVE  References'
<1>1. KeysOf("parent") \subseteq KeysOf("parent")'
  BY DEF KeysOf
<1> QED BY <1>1 DEF References, Matched

\* A step that adds, drops or renames columns: key and reference hold what they held.
LEMMA SameReferences ==
    ASSUME References, unlinked = {}, unlinked' = {},
           fk' # Null, fk'.col # pk'["child"], Matched => Matched',
           \A r \in rows'["child"] : \E q \in rows["child"] : r[fk'.col] = q[fk.col],
           \A q \in rows["parent"] : \E r \in rows'["parent"] : r[pk'["parent"]] = q[pk["parent"]]
    PROVE  References'
<1>1. KeysOf("parent") \subseteq KeysOf("parent")'
  BY DEF KeysOf
<1> QED BY <1>1 DEF References

LEMMA InsertKeepsReferences ==
    \A t \in Tables : RefInv /\ Insert(t) => References'
<1> SUFFICES ASSUME NEW t \in Tables, RefInv, Insert(t) PROVE References'
  OBVIOUS
<1>1. PICK k \in Keys \ KeysOf(t), v \in (Keys \cap KeysOf("parent")) \cup {Null} :
         rows' = [rows EXCEPT ![t] = @ \cup {Filled(t, k, v)}]
  BY DEF Insert
<1>2. TypeOK /\ References /\ UNCHANGED <<cols, pk, fk, unlinked>>
  BY DEF RefInv, RebuildInv, Insert
<1>3. CASE t = "parent"
  <2>1. rows["parent"] \subseteq rows'["parent"] /\ rows'["child"] = rows["child"]
    BY <1>1, <1>2, <1>3 DEF TypeOK, Tables
  <2> QED BY <1>2, <2>1, ReferencesStay
<1>4. CASE t = "child"
  <2> SUFFICES ASSUME unlinked = {} PROVE References'
    BY <1>2 DEF References
  <2>1. rows'["parent"] = rows["parent"] /\ rows'["child"] = rows["child"] \cup {Filled(t, k, v)}
    BY <1>1, <1>2, <1>4 DEF TypeOK, Tables
  <2>2. fk # Null /\ fk.col # pk["child"] /\ fk.col \in cols["child"]
    BY <1>2 DEF References, TypeOK
  <2>3. Filled(t, k, v)[fk.col] = v
    BY <1>4, <2>2 DEF Filled
  <2>4. KeysOf("parent")' = KeysOf("parent")
    BY <1>2, <2>1 DEF KeysOf
  <2>5. Matched /\ Matched'
    BY <1>2, <1>4 DEF Insert, Matched
  <2> QED BY <1>2, <2>1, <2>2, <2>3, <2>4, <2>5 DEF References
<1> QED BY <1>3, <1>4 DEF Tables

LEMMA DeleteParentKeepsReferences == RefInv /\ DeleteParent => References'
<1> SUFFICES ASSUME RefInv, DeleteParent, unlinked = {} PROVE References'
  BY DEF References, DeleteParent
<1>1. PICK p \in rows["parent"] :
         /\ Allowed({p[pk["parent"]]})
         /\ rows' = [parent |-> rows["parent"] \ {p}, child |-> AfterDelete({p[pk["parent"]]})]
  BY DEF DeleteParent
<1> DEFINE ks == {p[pk["parent"]]}
<1>2. Matched /\ Matched' /\ UNCHANGED <<cols, pk, fk, unlinked>>
  BY DEF DeleteParent, Matched
<1>3. onDelete \in Actions
  BY DEF RefInv, RebuildInv, TypeOK
<1>4. \A r \in rows'["child"] :
         r[fk.col] = Null \/ (r[fk.col] \in KeysOf("parent") /\ r[fk.col] \notin ks)
  BY <1>1, <1>2, <1>3, DeleteKeepsReferences
<1>5. \A x \in KeysOf("parent") \ ks : x \in KeysOf("parent")'
  BY <1>1, <1>2 DEF KeysOf
<1> QED BY <1>2, <1>4, <1>5 DEF RefInv, References

LEMMA AddKeepsReferences ==
    \A t \in Tables, n \in Names : RefInv /\ AddColumn(t, n) => References'
<1> SUFFICES ASSUME NEW t \in Tables, NEW n \in Names, RefInv, AddColumn(t, n), unlinked = {}
             PROVE  References'
  BY DEF References, AddColumn
<1>1. TypeOK /\ References /\ UNCHANGED <<pk, fk, unlinked>> /\ n \notin cols[t]
  BY DEF RefInv, RebuildInv, AddColumn
<1>2. rows' = [rows EXCEPT ![t] = {[m \in cols[t] \cup {n} |-> IF m = n THEN Null ELSE r[m]] : r \in rows[t]}]
  BY DEF AddColumn
<1>3. \A s \in Tables : \A r \in rows'[s] : \E q \in rows[s] : \A m \in cols[s] : r[m] = q[m]
  BY <1>1, <1>2 DEF TypeOK
<1>4. \A s \in Tables : \A q \in rows[s] : \E r \in rows'[s] : \A m \in cols[s] : r[m] = q[m]
  <2> SUFFICES ASSUME NEW s \in Tables, NEW q \in rows[s]
               PROVE  \E r \in rows'[s] : \A m \in cols[s] : r[m] = q[m]
    OBVIOUS
  <2>1. CASE s # t
    BY <1>1, <1>2, <2>1 DEF TypeOK
  <2>2. CASE s = t
    <3> DEFINE r == [m \in cols[t] \cup {n} |-> IF m = n THEN Null ELSE q[m]]
    <3>1. r \in rows'[s]
      BY <1>1, <1>2, <2>2 DEF TypeOK
    <3>2. \A m \in cols[s] : r[m] = q[m]
      BY <1>1, <2>2
    <3> QED BY <3>1, <3>2
  <2> QED BY <2>1, <2>2
<1>5. fk.col \in cols["child"] /\ pk["parent"] \in cols["parent"]
  BY <1>1 DEF TypeOK, References, Tables
<1>6. Matched => Matched'
  BY <1>1 DEF Matched
<1> QED BY <1>1, <1>3, <1>4, <1>5, <1>6, SameReferences DEF References, Tables

LEMMA DropKeepsReferences ==
    \A t \in Tables, n \in Names : RefInv /\ DropColumn(t, n) => References'
<1> SUFFICES ASSUME NEW t \in Tables, NEW n \in Names, RefInv, DropColumn(t, n), unlinked' = {}
             PROVE  References'
  BY DEF References
<1>1. TypeOK /\ References /\ pk' = pk
  BY DEF RefInv, RebuildInv, DropColumn
<1>2. ~(t = "child" /\ fk # Null /\ n = fk.col) /\ unlinked = {} /\ UNCHANGED <<fk, unlinked>>
  BY DEF DropColumn
<1>3. rows' = [rows EXCEPT ![t] = {[m \in cols[t] \ {n} |-> r[m]] : r \in rows[t]}]
  BY DEF DropColumn
<1> DEFINE kept(s) == IF s = t THEN cols[t] \ {n} ELSE cols[s]
<1>4. \A s \in Tables : \A r \in rows'[s] : \E q \in rows[s] : \A m \in kept(s) : r[m] = q[m]
  BY <1>1, <1>3 DEF TypeOK
<1>5. \A s \in Tables : \A q \in rows[s] : \E r \in rows'[s] : \A m \in kept(s) : r[m] = q[m]
  <2> SUFFICES ASSUME NEW s \in Tables, NEW q \in rows[s]
               PROVE  \E r \in rows'[s] : \A m \in kept(s) : r[m] = q[m]
    OBVIOUS
  <2>1. CASE s # t
    BY <1>1, <1>3, <2>1 DEF TypeOK
  <2>2. CASE s = t
    <3> DEFINE r == [m \in cols[t] \ {n} |-> q[m]]
    <3>1. r \in rows'[s]
      BY <1>1, <1>3, <2>2 DEF TypeOK
    <3>2. \A m \in kept(s) : r[m] = q[m]
      BY <1>1, <2>2
    <3> QED BY <3>1, <3>2
  <2> QED BY <2>1, <2>2
<1>6. fk.col \in kept("child") /\ pk["parent"] \in kept("parent")
  BY <1>1, <1>2 DEF TypeOK, References, Tables, DropColumn
<1>7. Matched => Matched'
  BY <1>1, <1>2 DEF Matched
<1> HIDE DEF kept
<1> QED BY <1>1, <1>2, <1>4, <1>5, <1>6, <1>7, SameReferences DEF References, Tables

LEMMA RenameKeepsReferences ==
    \A t \in Tables, n, m \in Names : RefInv /\ RenameColumn(t, n, m) => References'
<1> SUFFICES ASSUME NEW t \in Tables, NEW old \in Names, NEW new \in Names, RefInv,
                    RenameColumn(t, old, new), unlinked = {}
             PROVE  References'
  BY DEF References, RenameColumn
<1>1. TypeOK /\ References /\ unlinked' = unlinked
  BY DEF RefInv, RebuildInv, RenameColumn
<1>2. /\ fk # Null /\ fk \in [col : Names, target : Names] /\ fk.col \in cols["child"]
      /\ fk.col # pk["child"] /\ pk["child"] \in cols["child"] /\ pk["parent"] \in cols["parent"]
      /\ old \in cols[t] /\ new \notin cols[t]
  BY <1>1 DEF TypeOK, References, Tables, RenameColumn
<1>3. /\ pk' = [pk EXCEPT ![t] = IsOr(pk[t], old, new)]
      /\ rows' = [rows EXCEPT ![t] =
                    {[m \in Renamed(cols[t], old, new) |-> r[IsOr(m, new, old)]] : r \in rows[t]}]
      /\ fk' = IF t = "child" THEN [fk EXCEPT !.col = IsOr(fk.col, old, new)]
               ELSE [fk EXCEPT !.target = IsOr(fk.target, old, new)]
  BY <1>2 DEF RenameColumn
<1>4. fk' \in [col : Names, target : Names]
  BY <1>2, <1>3 DEF IsOr
<1>5. fk' # Null
  BY <1>4, NullAssumption
<1> DEFINE N(m) == IsOr(m, old, new)
<1>6. \A m \in cols[t] : N(m) \in Renamed(cols[t], old, new) /\ IsOr(N(m), new, old) = m
  BY <1>2 DEF IsOr, Renamed
<1>7. \A r \in rows'[t] : \E q \in rows[t] : \A m \in cols[t] : r[N(m)] = q[m]
  <2> SUFFICES ASSUME NEW r \in rows'[t]
               PROVE  \E q \in rows[t] : \A m \in cols[t] : r[N(m)] = q[m]
    OBVIOUS
  <2>1. PICK q \in rows[t] : r = [m \in Renamed(cols[t], old, new) |-> q[IsOr(m, new, old)]]
    BY <1>1, <1>3 DEF TypeOK
  <2> QED BY <1>6, <2>1
<1>8. \A q \in rows[t] : \E r \in rows'[t] : \A m \in cols[t] : r[N(m)] = q[m]
  <2> SUFFICES ASSUME NEW q \in rows[t]
               PROVE  \E r \in rows'[t] : \A m \in cols[t] : r[N(m)] = q[m]
    OBVIOUS
  <2> DEFINE r == [m \in Renamed(cols[t], old, new) |-> q[IsOr(m, new, old)]]
  <2>1. r \in rows'[t]
    BY <1>1, <1>3 DEF TypeOK
  <2> QED BY <1>6, <2>1
<1> HIDE DEF N
<1>9. CASE t = "child"
  <2>1. fk'.col = N(fk.col) /\ fk'.target = fk.target /\ pk'["child"] = N(pk["child"])
        /\ pk'["parent"] = pk["parent"] /\ rows'["parent"] = rows["parent"]
    BY <1>1, <1>2, <1>3, <1>9 DEF TypeOK, Tables, N
  <2>2. fk'.col # pk'["child"]
    BY <1>2, <1>9, <2>1 DEF N, IsOr
  <2>3. Matched => Matched'
    BY <1>2, <1>5, <2>1 DEF Matched
  <2>4. \A r \in rows'["child"] : \E q \in rows["child"] : r[fk'.col] = q[fk.col]
    BY <1>2, <1>7, <1>9, <2>1
  <2> QED BY <1>1, <1>5, <2>1, <2>2, <2>3, <2>4, SameReferences
<1>10. CASE t = "parent"
  <2>1. fk'.col = fk.col /\ fk'.target = N(fk.target) /\ pk'["parent"] = N(pk["parent"])
        /\ pk'["child"] = pk["child"] /\ rows'["child"] = rows["child"]
    BY <1>1, <1>2, <1>3, <1>10 DEF TypeOK, Tables, N
  <2>2. Matched => Matched'
    BY <1>2, <2>1 DEF Matched
  <2>3. \A q \in rows["parent"] : \E r \in rows'["parent"] : r[pk'["parent"]] = q[pk["parent"]]
    BY <1>2, <1>8, <1>10, <2>1
  <2> QED BY <1>1, <1>2, <1>5, <2>1, <2>2, <2>3, SameReferences
<1> QED BY <1>9, <1>10 DEF Tables

LEMMA RebuildKeepsReferences ==
    \A c \in Clients : RefInv /\ Rebuild(c) => References'
<1> SUFFICES ASSUME NEW c \in Clients, RefInv, Rebuild(c), unlinked' = {}
             PROVE  References'
  BY DEF References
<1>1. TypeOK /\ References /\ onDelete \in Actions
  BY DEF RefInv, RebuildInv, TypeOK
<1>2. task[c].table = "parent" /\ unlinked = {}
  BY <1>1, RebuildIs DEF Tasks, Tables
<1>3. /\ rows'["child"] = AfterDelete(KeysOf("parent")) /\ fk' = fk
      /\ Allowed(KeysOf("parent")) /\ pk'["child"] = pk["child"]
  BY <1>1, <1>2, RebuildIs DEF TypeOK, Tables
<1>4. \A r \in rows'["child"] : r[fk.col] = Null
  <2>1. CASE Matched
    BY <1>1, <1>2, <1>3, <2>1, DeleteKeepsReferences
  <2>2. CASE ~Matched
    <3>1. Referring(KeysOf("parent")) = {}
      BY <2>2 DEF Referring
    <3>2. rows'["child"] = rows["child"]
      BY <1>3, <3>1 DEF AfterDelete
    <3> QED BY <1>1, <1>2, <2>2, <3>2 DEF References
  <2> QED BY <2>1, <2>2
<1> QED BY <1>1, <1>2, <1>3, <1>4 DEF References

LEMMA ReferencesStep == RefInv /\ [Next]_vars => References'
<1> SUFFICES ASSUME RefInv, [Next]_vars PROVE References'
  OBVIOUS
<1>1. CASE UNCHANGED vars \/ (\E c \in Clients : RebuildFails(c))
           \/ (\E c \in Clients, t \in Tables, n, m \in Names : AskAlter(c, t, n, m))
  <2>1. UNCHANGED <<tables, unlinked>>
    BY <1>1 DEF vars, RebuildFails, AskAlter
  <2> QED BY <2>1, ReferencesStay DEF RefInv, tables
<1> QED BY <1>1, DeleteParentKeepsReferences, InsertKeepsReferences, AddKeepsReferences,
           DropKeepsReferences, RenameKeepsReferences, RebuildKeepsReferences
        DEF Next

\* Deletes, renames and rebuilds of the parent leave no orphans, though a rebuild
\* takes the key away that children refer to.
THEOREM OrphansExplained == Spec => []OrphansHaveCause
<1>1. Init => RefInv
  BY RebuildStart, RefStart DEF RefInv
<1>2. RefInv /\ [Next]_vars => RefInv'
  BY RebuildInvStep, ReferencesStep DEF RefInv
<1>3. RefInv => OrphansHaveCause
  BY DEF RefInv, References, OrphansHaveCause
<1> QED BY <1>1, <1>2, <1>3, PTL DEF Spec

=============================================================================
