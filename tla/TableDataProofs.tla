--------------------------- MODULE TableDataProofs ---------------------------
(***************************************************************************)
(* Theorems of TableData, for any requests, rows, batches and page sizes.  *)
(***************************************************************************)
EXTENDS TableData, SequenceTheorems, FiniteSetTheorems, TLAPS

----------------------------------------------------------------------------
(* The operations. *)

LEMMA TableShape ==
    ASSUME NEW t \in Tables
    PROVE  /\ DOMAIN t \subseteq Rows
           /\ t \in [DOMAIN t -> Row]
           /\ \A i \in DOMAIN t : t[i] \in Row
BY DEF Tables

LEMMA WithTyped ==
    ASSUME NEW t \in Tables, NEW i \in Rows, NEW row \in Row
    PROVE  With(t, i, row) \in Tables
<1>1. DOMAIN t \cup {i} \in SUBSET Rows BY DEF Tables
<1>2. With(t, i, row) \in [DOMAIN t \cup {i} -> Row] BY DEF With, Tables
<1> QED BY <1>1, <1>2 DEF Tables

LEMMA WithoutTyped ==
    ASSUME NEW t \in Tables, NEW R
    PROVE  Without(t, R) \in Tables
<1>1. DOMAIN t \ R \in SUBSET Rows BY DEF Tables
<1>2. Without(t, R) \in [DOMAIN t \ R -> Row] BY DEF Without, Tables
<1> QED BY <1>1, <1>2 DEF Tables

LEMMA ChangedTyped ==
    ASSUME NEW row \in Row, NEW set, Usable(set)
    PROVE  Changed(row, set) \in Row
BY DEF Changed, Usable, Row

\* An operation makes a table of a table.
LEMMA OutcomeTyped ==
    ASSUME NEW op \in Op, NEW t \in Tables, NEW c, NEW u \in Outcomes(op, t, c)
    PROVE  u \in Tables
<1>1. CASE op.op = "insert"
  <2>1. u \in batchInsert(t, op.set, c) BY <1>1 DEF Outcomes
  <2>2. PICK i \in NextRows(t) : u = With(t, i, [key |-> op.set["key"], val |-> op.set["val"]])
    BY <2>1 DEF batchInsert
  <2>3. [key |-> op.set["key"], val |-> op.set["val"]] \in Row
    BY <2>1 DEF batchInsert, Usable, Row
  <2> QED BY <2>2, <2>3, WithTyped DEF NextRows
<1>2. CASE op.op = "update"
  <2>1. u \in batchUpdate(t, op.row, op.set, c) BY <1>2 DEF Outcomes
  <2>2. op.row \in DOMAIN t /\ Usable(op.set) /\ u = With(t, op.row, Changed(t[op.row], op.set))
    BY <2>1 DEF batchUpdate
  <2> QED BY <2>2, TableShape, ChangedTyped, WithTyped
<1>3. CASE op.op = "delete" BY <1>3, WithoutTyped DEF Outcomes
<1>4. CASE op.op = "other" BY <1>4 DEF Outcomes
<1> QED BY <1>1, <1>2, <1>3, <1>4 DEF Op

\* A row keeps its key unless the operation is about it: the row id of an
\* insert is not in use.
LEMMA OutcomeKeeps ==
    ASSUME NEW op \in Op, NEW t \in Tables, NEW c, NEW u \in Outcomes(op, t, c),
           NEW i \in DOMAIN t, ~Unseats(op, i)
    PROVE  i \in DOMAIN u /\ u[i].key = t[i].key
<1>1. CASE op.op = "insert"
  <2>1. u \in batchInsert(t, op.set, c) BY <1>1 DEF Outcomes
  <2>2. PICK j \in NextRows(t) : u = With(t, j, [key |-> op.set["key"], val |-> op.set["val"]])
    BY <2>1 DEF batchInsert
  <2>3. i # j BY <2>2, TableShape DEF NextRows, Rows
  <2> QED BY <2>2, <2>3 DEF With
<1>2. CASE op.op = "update"
  <2>1. u \in batchUpdate(t, op.row, op.set, c) BY <1>2 DEF Outcomes
  <2>2. u = With(t, op.row, Changed(t[op.row], op.set))
    BY <2>1 DEF batchUpdate
  <2>3. CASE i = op.row BY <1>2, <2>2, <2>3 DEF Unseats, With, Changed
  <2>4. CASE i # op.row BY <2>2, <2>4 DEF With
  <2> QED BY <2>3, <2>4
<1>3. CASE op.op = "delete"
  <2>1. u = Without(t, {op.row}) BY <1>3 DEF Outcomes
  <2>2. i # op.row BY <1>3 DEF Unseats
  <2> QED BY <2>1, <2>2 DEF Without
<1>4. CASE op.op = "other" BY <1>4 DEF Outcomes
<1> QED BY <1>1, <1>2, <1>3, <1>4 DEF Op

LEMMA RenumberedTyped ==
    ASSUME NEW t \in Tables, NEW u \in Renumbered(t)
    PROVE  u \in Tables
<1>1. PICK n \in 0..MaxRow : \E f \in [1..n -> DOMAIN t] : u = [i \in DOMAIN f |-> t[f[i]]]
  BY DEF Renumbered
<1>2. u \in [1..n -> Row] BY <1>1, TableShape
<1>3. 1..n \in SUBSET Rows BY MaxRowAssumption DEF Rows
<1> QED BY <1>2, <1>3 DEF Tables

LEMMA NothingTyped == Nothing \in Tables /\ Nothing \in Sets /\ DOMAIN Nothing = {}
<1>1. Nothing \in [{} -> Row] BY DEF Nothing
<1>2. Nothing \in [{} -> Keys \cup Vals \cup {Bad}] BY DEF Nothing
<1>3. {} \in SUBSET Rows /\ {} \in SUBSET {"key", "val"} OBVIOUS
<1>4. DOMAIN Nothing = {} BY DEF Nothing
<1> QED BY <1>1, <1>2, <1>3, <1>4 DEF Tables, Sets

----------------------------------------------------------------------------
(* The inductive invariant. *)

\* A transaction has gone from the committed table through the outcomes of the
\* operations so far: nobody else can commit while it holds the connection.
Outcomed(r) ==
    pc[r] = "run" =>
        /\ Len(work[r]) \in 1..Len(want[r]) + 1
        /\ work[r][1] = table
        /\ \A n \in 1..Len(work[r]) - 1 :
              work[r][n + 1] \in Outcomes(want[r][n], work[r][n], composite)

WorkIsRun == \A r \in Requests : Outcomed(r)

\* The rows that no operation so far was about have their keys still.
Keeps(r) ==
    pc[r] = "run" =>
        \A i \in DOMAIN table :
            (\A m \in 1..Len(work[r]) - 1 : ~Unseats(want[r][m], i)) =>
                /\ i \in DOMAIN work[r][Len(work[r])]
                /\ work[r][Len(work[r])][i].key = table[i].key

RunKeeps == \A r \in Requests : Keeps(r)

\* What a request is not using, it has forgotten.
Forgets(r) ==
    /\ pc[r] \notin {"begin", "run"} => want[r] = <<>> /\ record[r].row = 0
    /\ pc[r] # "run" => work[r] = <<>>
    /\ pc[r] # "stream" => DOMAIN sent[r] = {}

Forgotten == \A r \in Requests : Forgets(r)

TableInv ==
    /\ TypeOK
    /\ WorkIsRun
    /\ RunKeeps
    /\ Forgotten
    /\ NamedRecord
    /\ ExportIsSnapshot

----------------------------------------------------------------------------
(* Types. *)

LEMMA OverTyped ==
    ASSUME TypeOK, NEW r \in Requests, Over(r)
    PROVE  /\ pc' \in [Requests -> States] /\ pc'[r] = "idle"
           /\ \A q \in Requests \ {r} : pc'[q] = pc[q]
           /\ want' \in [Requests -> Seq(Op)]
           /\ work' \in [Requests -> Seq(Tables)]
           /\ record' \in [Requests -> [key : Keys \cup {Bad}, set : Sets, row : 0..MaxRow]]
           /\ view' \in [Requests -> Views]
           /\ sent' \in [Requests -> Tables]
<1>1. NoRecord \in [key : Keys \cup {Bad}, set : Sets, row : 0..MaxRow]
  BY NothingTyped, MaxRowAssumption DEF NoRecord
<1>2. NoView \in Views BY PageAssumption, MaxRowAssumption DEF NoView, Views
<1>3. <<>> \in Seq(Op) /\ <<>> \in Seq(Tables) OBVIOUS
<1> QED BY <1>1, <1>2, <1>3, NothingTyped DEF TypeOK, Over, States

LEMMA MovesTyped ==
    ASSUME TypeOK, NEW r, NEW U, Moves(r, U)
    PROVE  moved' \in [Requests -> BOOLEAN]
BY DEF TypeOK, Moves

LEMMA SettleTyped ==
    ASSUME TypeOK, NEW r \in Requests, Settle(r)
    PROVE  moved' \in [Requests -> BOOLEAN]
BY DEF TypeOK, Settle

\* A request that is over has given the connection back, if it had it.
LEMMA OverHolds ==
    ASSUME TypeOK, NEW r \in Requests, Over(r), conn' = Released(r)
    PROVE  /\ conn' \in Requests \cup {NoOne}
           /\ \A q \in Requests : pc'[q] \in {"run", "stream"} <=> conn' = q
BY OverTyped, NoOneAssumption DEF TypeOK, Released, States

LEMMA ClampedTyped ==
    ASSUME NEW asked \in 1..MaxPage \cup {1}, NEW total \in Nat, NEW size \in Nat \ {0}
    PROVE  Clamped(asked, total, size) \in 1..MaxPage \cup {1}
<1> DEFINE pageCount == IF total = 0 THEN 1 ELSE (total + size - 1) \div size
<1>1. pageCount \in Nat /\ pageCount >= 1
  <2>1. CASE total = 0 BY <2>1
  <2>2. CASE total # 0
    <3>1. (total + size - 1) \div size \in Int BY SMT
    <3>2. (total + size - 1) \div size >= 1 BY <2>2, SMT
    <3> QED BY <2>2, <3>1, <3>2
  <2> QED BY <2>1, <2>2
<1>2. Clamped(asked, total, size) = IF asked > pageCount THEN pageCount ELSE asked BY DEF Clamped
<1> QED BY <1>1, <1>2, PageAssumption

LEMMA ViewTyped ==
    ASSUME NEW v \in Views,
           NEW F \in SUBSET Vals, NEW asked \in 1..MaxPage \cup {1}, NEW size \in 1..MaxPageSize,
           NEW total \in 0..MaxRow, NEW page \in 1..MaxPage \cup {1}, NEW R \in SUBSET Rows
    PROVE  /\ [v EXCEPT !.asked = asked, !.size = size, !.filter = F] \in Views
           /\ [v EXCEPT !.total = total, !.page = page] \in Views
           /\ [v EXCEPT !.rows = R] \in Views
<1>1. [v EXCEPT !.asked = asked, !.size = size, !.filter = F] \in Views BY Zenon DEF Views
<1>2. [v EXCEPT !.total = total, !.page = page] \in Views BY Zenon DEF Views
<1>3. [v EXCEPT !.rows = R] \in Views BY Zenon DEF Views
<1> QED BY <1>1, <1>2, <1>3

LEMMA TypeInit == Init => TypeOK
<1> SUFFICES ASSUME Init PROVE TypeOK OBVIOUS
<1>1. NoRecord \in [key : Keys \cup {Bad}, set : Sets, row : 0..MaxRow]
  BY NothingTyped, MaxRowAssumption DEF NoRecord
<1>2. NoView \in Views BY PageAssumption, MaxRowAssumption DEF NoView, Views
<1>3. <<>> \in Seq(Op) /\ <<>> \in Seq(Tables) OBVIOUS
<1> QED BY <1>1, <1>2, <1>3, NothingTyped, NoOneAssumption DEF Init, TypeOK, States

LEMMA TypeStep ==
    ASSUME TypeOK, WorkIsRun, [Next]_vars
    PROVE  TypeOK'
<1> USE DEF batch, reading
<1>1. ASSUME NEW r \in Requests, AskBatch(r) PROVE TypeOK'
  BY <1>1, BatchesAssumption, NoOneAssumption DEF AskBatch, Go, TypeOK, States
<1>2. ASSUME NEW r \in Requests, AskRecord(r) PROVE TypeOK'
  <2>1. PICK k \in Keys, set \in Bodies, to \in {"get", "lookup", "erase"} :
          /\ pc' = [pc EXCEPT ![r] = to]
          /\ record' = [record EXCEPT ![r] =
                           [key |-> k, set |-> IF to = "lookup" THEN set ELSE Nothing, row |-> 0]]
    BY <1>2 DEF AskRecord
  <2>2. [key |-> k, set |-> IF to = "lookup" THEN set ELSE Nothing, row |-> 0]
           \in [key : Keys \cup {Bad}, set : Sets, row : 0..MaxRow]
    BY BodiesAssumption, NothingTyped, MaxRowAssumption
  <2> QED BY <1>2, <2>1, <2>2 DEF AskRecord, TypeOK, States
<1>3. ASSUME NEW r \in Requests, AskBrowse(r) PROVE TypeOK'
  <2>1. PICK page \in 0..MaxPage, n \in 0..MaxPageSize, F \in Filters :
          view' = [view EXCEPT ![r] = [NoView EXCEPT !.asked = IF page < 1 THEN 1 ELSE page,
                                                     !.size = PageSize(n), !.filter = F]]
    BY <1>3 DEF AskBrowse
  <2>2. PageSize(n) \in 1..MaxPageSize BY PageAssumption DEF PageSize
  <2>3. NoView \in Views BY PageAssumption, MaxRowAssumption DEF NoView, Views
  <2>4. [NoView EXCEPT !.asked = IF page < 1 THEN 1 ELSE page, !.size = PageSize(n), !.filter = F] \in Views
    <3>1. (IF page < 1 THEN 1 ELSE page) \in 1..MaxPage \cup {1} BY PageAssumption
    <3>2. F \in SUBSET Vals /\ 1 \in 1..MaxPage \cup {1} /\ 0 \in 0..MaxRow /\ {} \in SUBSET Rows
      BY FiltersAssumption, MaxRowAssumption
    <3> HIDE DEF PageSize
    <3> QED BY <2>2, <2>3, <3>1, <3>2, ViewTyped
  <2> QED BY <1>3, <2>1, <2>4 DEF AskBrowse, Go, TypeOK, States
<1>4. ASSUME NEW r \in Requests, AskExport(r) PROVE TypeOK'
  BY <1>4 DEF AskExport, Go, TypeOK, States
<1>5. ASSUME NEW r \in Requests, Begin(r) PROVE TypeOK'
  <2>1. <<table>> \in Seq(Tables) BY DEF TypeOK
  <2> QED BY <1>5, <2>1, NoOneAssumption DEF Begin, Free, Go, TypeOK, States
<1>6. ASSUME NEW r \in Requests, Execute(r) PROVE TypeOK'
  <2>1. PICK t \in Outcome(r) : work' = [work EXCEPT ![r] = Append(@, t)] BY <1>6 DEF Execute
  <2>2. work[r] \in Seq(Tables) /\ want[r] \in Seq(Op) BY DEF TypeOK
  <2>3. Len(work[r]) \in 1..Len(want[r]) BY <1>6, <2>2 DEF Execute, Running, WorkIsRun, Outcomed
  <2>4. want[r][Len(work[r])] \in Op /\ work[r][Len(work[r])] \in Tables BY <2>2, <2>3
  <2>5. t \in Tables BY <2>4, OutcomeTyped DEF Outcome, Last
  <2>6. Append(work[r], t) \in Seq(Tables) BY <2>2, <2>5
  <2> QED BY <1>6, <2>1, <2>6 DEF Execute, TypeOK
<1>7. ASSUME NEW r \in Requests, Refuse(r) PROVE TypeOK'
  BY <1>7, OverTyped, OverHolds, SettleTyped DEF Refuse, TypeOK
<1>8. ASSUME NEW r \in Requests, Commit(r) PROVE TypeOK'
  <2>1. work[r] \in Seq(Tables) /\ Len(work[r]) >= 1 BY <1>8 DEF Commit, TypeOK, WorkIsRun, Outcomed
  <2>2. Last(work[r]) \in Tables BY <2>1 DEF Last
  <2> QED BY <1>8, <2>2, OverTyped, OverHolds, MovesTyped DEF Commit, TypeOK
<1>9. ASSUME NEW r \in Requests, GetRecord(r) \/ Miss(r) \/ Answer(r) PROVE TypeOK'
  <2>1. /\ Over(r) /\ Settle(r) /\ UNCHANGED <<table, composite, conn>>
        /\ pc[r] \notin {"run", "stream"}
    BY <1>9 DEF GetRecord, Miss, Answer
  <2> QED BY <2>1, OverTyped, SettleTyped DEF TypeOK, States
<1>10. ASSUME NEW r \in Requests, LookUp(r) PROVE TypeOK'
  <2>1. PICK i \in Found(record[r].key) :
          /\ record' = [record EXCEPT ![r].row = i]
          /\ want' = [want EXCEPT ![r] = <<[op |-> "update", row |-> i, set |-> record[r].set]>>]
    BY <1>10 DEF LookUp
  <2>2. i \in Rows BY TableShape DEF Found, Named, TypeOK
  <2>3. [op |-> "update", row |-> i, set |-> record[r].set] \in Op
    BY <2>2, MaxRowAssumption DEF Op, TypeOK, Rows
  <2>4. <<[op |-> "update", row |-> i, set |-> record[r].set]>> \in Seq(Op) BY <2>3
  <2>5. [record[r] EXCEPT !.row = i] \in [key : Keys \cup {Bad}, set : Sets, row : 0..MaxRow]
    <3>1. record[r] \in [key : Keys \cup {Bad}, set : Sets, row : 0..MaxRow] BY DEF TypeOK
    <3>2. i \in 0..MaxRow BY <2>2, MaxRowAssumption DEF Rows
    <3> QED BY <3>1, <3>2, Zenon
  <2>6. moved' \in [Requests -> BOOLEAN] BY <1>10, SettleTyped DEF LookUp
  <2> QED BY <1>10, <2>1, <2>4, <2>5, <2>6 DEF LookUp, Go, TypeOK, States
<1>11. ASSUME NEW r \in Requests, DeleteRecord(r) PROVE TypeOK'
  <2>1. table' \in Tables BY <1>11, WithoutTyped DEF DeleteRecord, TypeOK
  <2> QED BY <1>11, <2>1, OverTyped, MovesTyped DEF DeleteRecord, TypeOK, States
<1>12. ASSUME NEW r \in Requests, Count(r) PROVE TypeOK'
  <2> DEFINE total == Cardinality(Matching(view[r].filter))
             page == Clamped(view[r].asked, total, view[r].size)
  <2>1. Matching(view[r].filter) \subseteq Rows BY TableShape DEF Matching, TypeOK
  <2>2. total \in 0..MaxRow
    <3>1. IsFiniteSet(Rows) /\ Cardinality(Rows) = MaxRow
      BY FS_Interval, MaxRowAssumption DEF Rows
    <3>2. total \in Nat /\ total =< MaxRow
      BY <2>1, <3>1, FS_Subset, FS_CardinalityType, MaxRowAssumption
    <3> QED BY <3>2, MaxRowAssumption
  <2>3. view[r] \in Views BY DEF TypeOK
  <2>4. page \in 1..MaxPage \cup {1}
    BY <2>2, <2>3, ClampedTyped, PageAssumption, MaxRowAssumption DEF Views
  <2>5. view' = [view EXCEPT ![r] = [view[r] EXCEPT !.total = total, !.page = page]]
    BY <1>12 DEF Count, TypeOK
  <2>6. [view[r] EXCEPT !.total = total, !.page = page] \in Views
    <3>1. {} \in SUBSET Vals /\ {} \in SUBSET Rows /\ 1 \in 1..MaxPageSize BY PageAssumption
    <3>2. 1 \in 1..MaxPage \cup {1} OBVIOUS
    <3> HIDE DEF total, page
    <3> QED BY <2>2, <2>3, <2>4, <3>1, <3>2, ViewTyped
  <2>7. moved' \in [Requests -> BOOLEAN] BY <1>12, SettleTyped DEF Count
  <2>8. Go(r, "count", "page") /\ UNCHANGED <<table, composite, conn, batch, record, sent>>
    BY <1>12 DEF Count
  <2> HIDE DEF total, page
  <2> QED BY <2>5, <2>6, <2>7, <2>8 DEF Go, TypeOK, States
<1>13. ASSUME NEW r \in Requests, ReadPage(r) PROVE TypeOK'
  <2>1. PICK R : R \subseteq Rows /\ view' = [view EXCEPT ![r].rows = R]
    BY <1>13, TableShape DEF ReadPage, Matching, TypeOK
  <2>2. [view[r] EXCEPT !.rows = R] \in Views
    <3>1. 1 \in 1..MaxPageSize /\ 0 \in 0..MaxRow /\ {} \in SUBSET Vals
      BY PageAssumption, MaxRowAssumption
    <3>2. view[r] \in Views BY DEF TypeOK
    <3>3. 1 \in 1..MaxPage \cup {1} OBVIOUS
    <3> QED BY <2>1, <3>1, <3>2, <3>3, ViewTyped
  <2> QED BY <1>13, <2>1, <2>2 DEF ReadPage, Go, TypeOK, States
<1>14. ASSUME NEW r \in Requests, OpenExport(r) PROVE TypeOK'
  BY <1>14, NoOneAssumption DEF OpenExport, Free, Go, TypeOK, States
<1>15. ASSUME NEW r \in Requests, SendRow(r) PROVE TypeOK'
  <2>1. PICK i \in DOMAIN table : sent' = [sent EXCEPT ![r] = With(@, i, table[i])]
    BY <1>15 DEF SendRow
  <2>2. With(sent[r], i, table[i]) \in Tables BY TableShape, WithTyped DEF TypeOK
  <2> QED BY <1>15, <2>1, <2>2 DEF SendRow, TypeOK
<1>16. ASSUME NEW r \in Requests, EndExport(r) \/ Fail(r) PROVE TypeOK'
  BY <1>16, OverTyped, OverHolds, SettleTyped DEF EndExport, Fail, TypeOK
<1>17. ASSUME Rebuild PROVE TypeOK'
  BY <1>17, RenumberedTyped, MovesTyped DEF Rebuild, TypeOK
<1>18. ASSUME Crash PROVE TypeOK'
  <2>1. NoRecord \in [key : Keys \cup {Bad}, set : Sets, row : 0..MaxRow]
    BY NothingTyped, MaxRowAssumption DEF NoRecord
  <2>2. NoView \in Views BY PageAssumption, MaxRowAssumption DEF NoView, Views
  <2>3. <<>> \in Seq(Op) /\ <<>> \in Seq(Tables) OBVIOUS
  <2> QED BY <1>18, <2>1, <2>2, <2>3, NothingTyped, NoOneAssumption DEF Crash, TypeOK, States
<1>19. ASSUME UNCHANGED vars PROVE TypeOK' BY <1>19 DEF vars, TypeOK
<1> QED BY <1>1, <1>2, <1>3, <1>4, <1>5, <1>6, <1>7, <1>8, <1>9, <1>10, <1>11, <1>12, <1>13,
           <1>14, <1>15, <1>16, <1>17, <1>18, <1>19 DEF Next, Act, Step

----------------------------------------------------------------------------
(* One request's step leaves the others where they are, and changes the     *)
(* table only when none of them is in a transaction or an export.           *)

LEMMA OverOthers ==
    ASSUME TypeOK, NEW r \in Requests, Over(r), NEW q \in Requests \ {r}
    PROVE  /\ pc'[q] = pc[q] /\ want'[q] = want[q] /\ work'[q] = work[q]
           /\ record'[q] = record[q] /\ sent'[q] = sent[q]
BY DEF TypeOK, Over

LEMMA OthersKeep ==
    ASSUME TypeOK, NEW r \in Requests, Act(r), NEW q \in Requests \ {r}
    PROVE  /\ pc'[q] = pc[q] /\ want'[q] = want[q] /\ work'[q] = work[q]
           /\ record'[q] = record[q] /\ sent'[q] = sent[q]
           /\ composite' = composite
           /\ pc[q] \in {"run", "stream"} => table' = table
           /\ moved[q] => moved'[q]
<1> USE DEF batch, reading
<1>1. CASE AskBatch(r) \/ AskRecord(r) \/ AskBrowse(r) \/ AskExport(r)
  BY <1>1 DEF AskBatch, AskRecord, AskBrowse, AskExport, Go, TypeOK
<1>2. CASE Begin(r) \/ Execute(r) \/ OpenExport(r) \/ SendRow(r)
  BY <1>2 DEF Begin, Execute, OpenExport, SendRow, Go, TypeOK
<1>3. CASE LookUp(r) BY <1>3 DEF LookUp, Go, Settle, TypeOK
<1>4. CASE Count(r) \/ ReadPage(r)
  BY <1>4 DEF Count, ReadPage, Go, Settle, TypeOK
<1>5. CASE Refuse(r) \/ GetRecord(r) \/ Miss(r) \/ Answer(r) \/ EndExport(r) \/ Fail(r)
  BY <1>5, OverOthers DEF Refuse, GetRecord, Miss, Answer, EndExport, Fail, Settle, TypeOK
<1>6. CASE Commit(r)
  <2>1. pc[q] \notin {"run", "stream"} BY <1>6 DEF Commit, TypeOK
  <2> QED BY <1>6, <2>1, OverOthers DEF Commit, Moves, TypeOK
<1>7. CASE DeleteRecord(r)
  <2>1. pc[q] \notin {"run", "stream"} BY <1>7, NoOneAssumption DEF DeleteRecord, Free, TypeOK
  <2> QED BY <1>7, <2>1, OverOthers DEF DeleteRecord, Moves, TypeOK
<1> QED BY <1>1, <1>2, <1>3, <1>4, <1>5, <1>6, <1>7, Act(r) DEF Act, Step

\* Nothing that a request holds survives Over.
LEMMA OverOwn ==
    ASSUME TypeOK, NEW r \in Requests, Over(r)
    PROVE  /\ Outcomed(r)' /\ Keeps(r)' /\ Forgets(r)'
           /\ pc'[r] = "idle" /\ record'[r].row = 0 /\ want'[r] = <<>> /\ work'[r] = <<>>
           /\ DOMAIN sent'[r] = {}
<1>1. pc'[r] = "idle" /\ record'[r] = NoRecord /\ want'[r] = <<>> /\ work'[r] = <<>> /\ sent'[r] = Nothing
  BY DEF Over, TypeOK
<1>2. record'[r].row = 0 BY <1>1 DEF NoRecord
<1> QED BY <1>1, <1>2, NothingTyped DEF Outcomed, Keeps, Forgets

\* The steps that end a request.
LEMMA Overs ==
    ASSUME NEW r \in Requests,
           \/ Refuse(r) \/ Commit(r) \/ GetRecord(r) \/ Miss(r) \/ DeleteRecord(r)
           \/ Answer(r) \/ EndExport(r) \/ Fail(r)
    PROVE  Over(r)
BY DEF Refuse, Commit, GetRecord, Miss, DeleteRecord, Answer, EndExport, Fail

----------------------------------------------------------------------------
(* The steps of a request on its own transaction. *)

LEMMA OwnStep ==
    ASSUME TableInv, NEW r \in Requests, Act(r)
    PROVE  Outcomed(r)' /\ Keeps(r)' /\ Forgets(r)'
<1> USE DEF batch, reading
<1>0. TypeOK /\ Outcomed(r) /\ Keeps(r) /\ Forgets(r)
  BY DEF TableInv, WorkIsRun, RunKeeps, Forgotten
<1>1. CASE \/ Refuse(r) \/ Commit(r) \/ GetRecord(r) \/ Miss(r) \/ DeleteRecord(r)
           \/ Answer(r) \/ EndExport(r) \/ Fail(r)
  BY <1>0, <1>1, Overs, OverOwn
<1>2. CASE AskBatch(r) \/ AskBrowse(r) \/ AskExport(r) \/ Count(r) \/ ReadPage(r)
  <2>1. pc'[r] \in {"begin", "count", "export", "page", "answer"} /\ pc[r] \notin {"begin", "run", "stream"}
    BY <1>0, <1>2 DEF AskBatch, AskBrowse, AskExport, Count, ReadPage, Go, TypeOK
  <2>2. UNCHANGED <<work, record, sent>> /\ (pc'[r] # "begin" => want' = want)
    BY <1>0, <1>2 DEF AskBatch, AskBrowse, AskExport, Count, ReadPage, Go, TypeOK
  <2> QED BY <1>0, <2>1, <2>2 DEF Outcomed, Keeps, Forgets
<1>3. CASE AskRecord(r)
  <2>1. pc[r] = "idle" /\ pc'[r] \in {"get", "lookup", "erase"} /\ record'[r].row = 0
    BY <1>0, <1>3 DEF AskRecord, TypeOK
  <2> QED BY <1>0, <1>3, <2>1 DEF AskRecord, Outcomed, Keeps, Forgets
<1>4. CASE LookUp(r)
  <2>1. pc[r] = "lookup" /\ pc'[r] = "begin" BY <1>0, <1>4 DEF LookUp, Go, TypeOK
  <2> QED BY <1>0, <1>4, <2>1 DEF LookUp, Outcomed, Keeps, Forgets
<1>5. CASE OpenExport(r)
  <2>1. pc[r] = "export" /\ pc'[r] = "stream" BY <1>0, <1>5 DEF OpenExport, Go, TypeOK
  <2> QED BY <1>0, <1>5, <2>1 DEF OpenExport, Outcomed, Keeps, Forgets
<1>6. CASE SendRow(r)
  BY <1>0, <1>6 DEF SendRow, Outcomed, Keeps, Forgets
<1>7. CASE Begin(r)
  <2>1. pc[r] = "begin" /\ pc'[r] = "run" /\ work'[r] = <<table>> /\ table' = table /\ want'[r] = want[r]
    BY <1>0, <1>7 DEF Begin, Go, TypeOK
  <2>2. want[r] \in Seq(Op) BY <1>0 DEF TypeOK
  <2>3. Len(work'[r]) = 1 /\ work'[r][1] = table BY <2>1
  <2>4. Outcomed(r)' BY <2>1, <2>2, <2>3 DEF Outcomed
  <2>5. Keeps(r)' BY <2>1, <2>3 DEF Keeps
  <2>6. Forgets(r)' BY <1>0, <1>7, <2>1 DEF Begin, Forgets
  <2> QED BY <2>4, <2>5, <2>6
<1>8. CASE Execute(r)
  <2>1. pc[r] = "run" /\ Len(work[r]) =< Len(want[r]) BY <1>8 DEF Execute, Running
  <2>2. work[r] \in Seq(Tables) /\ want[r] \in Seq(Op) BY <1>0 DEF TypeOK
  <2> DEFINE n == Len(work[r])
  <2>3. n \in 1..Len(want[r]) BY <1>0, <2>1, <2>2 DEF Outcomed
  <2>4. PICK t \in Outcomes(want[r][n], work[r][n], composite) : work'[r] = Append(work[r], t)
    BY <1>0, <1>8 DEF Execute, Outcome, Last, TypeOK
  <2>5. /\ Len(work'[r]) = n + 1
        /\ work'[r][n + 1] = t
        /\ \A m \in 1..n : work'[r][m] = work[r][m]
    BY <2>2, <2>3, <2>4
  <2>6. UNCHANGED <<table, composite, pc, want, record, sent>> BY <1>8 DEF Execute
  <2>7. Outcomed(r)'
    <3>1. \A m \in 1..n : work'[r][m + 1] \in Outcomes(want[r][m], work'[r][m], composite)
      <4> TAKE m \in 1..n
      <4>1. CASE m = n BY <2>3, <2>4, <2>5, <4>1
      <4>2. CASE m # n
        <5>1. m \in 1..n - 1 /\ m + 1 \in 1..n BY <2>3, <4>2
        <5>2. work[r][m + 1] \in Outcomes(want[r][m], work[r][m], composite)
          BY <1>0, <2>1, <5>1 DEF Outcomed
        <5> QED BY <2>5, <5>1, <5>2
      <4> QED BY <4>1, <4>2
    <3>2. n + 1 \in 1..Len(want[r]) + 1 /\ work'[r][1] = table
      BY <1>0, <2>1, <2>2, <2>3, <2>5 DEF Outcomed
    <3>3. (n + 1) - 1 = n BY <2>3
    <3> HIDE DEF n
    <3> QED BY <2>5, <2>6, <3>1, <3>2, <3>3 DEF Outcomed
  <2>8. Keeps(r)'
    <3> SUFFICES ASSUME NEW i \in DOMAIN table, \A m \in 1..n : ~Unseats(want[r][m], i)
                 PROVE  i \in DOMAIN t /\ t[i].key = table[i].key
      BY <2>3, <2>5, <2>6 DEF Keeps
    <3>1. i \in DOMAIN work[r][n] /\ work[r][n][i].key = table[i].key
      BY <1>0, <2>1, <2>3 DEF Keeps
    <3>2. want[r][n] \in Op /\ work[r][n] \in Tables /\ ~Unseats(want[r][n], i) BY <2>2, <2>3
    <3> HIDE DEF n
    <3> QED BY <2>4, <3>1, <3>2, OutcomeKeeps
  <2>9. Forgets(r)' BY <1>0, <2>1, <2>6 DEF Forgets
  <2> QED BY <2>7, <2>8, <2>9
<1> QED BY <1>1, <1>2, <1>3, <1>4, <1>5, <1>6, <1>7, <1>8, Act(r) DEF Act, Step

LEMMA OtherStep ==
    ASSUME TableInv, NEW r \in Requests, Act(r), NEW q \in Requests \ {r}
    PROVE  Outcomed(q)' /\ Keeps(q)' /\ Forgets(q)'
<1>1. TypeOK /\ Outcomed(q) /\ Keeps(q) /\ Forgets(q)
  BY DEF TableInv, WorkIsRun, RunKeeps, Forgotten
<1>2. /\ pc'[q] = pc[q] /\ want'[q] = want[q] /\ work'[q] = work[q] /\ composite' = composite
      /\ record'[q] = record[q] /\ sent'[q] = sent[q]
      /\ pc[q] = "run" => table' = table
  BY <1>1, OthersKeep
<1>3. Outcomed(q)' BY <1>1, <1>2 DEF Outcomed
<1>4. Keeps(q)' BY <1>1, <1>2 DEF Keeps
<1>5. Forgets(q)' BY <1>1, <1>2 DEF Forgets
<1> QED BY <1>3, <1>4, <1>5

----------------------------------------------------------------------------
(* The named record and the export. *)

\* A row that a commit or a deletion removes or gives another key to is among
\* those its request unseats.
LEMMA CommitUnseats ==
    ASSUME TableInv, NEW r \in Requests, Commit(r), NEW i \in DOMAIN table,
           i \notin {j \in Rows : \E n \in DOMAIN want[r] : Unseats(want[r][n], j)}
    PROVE  i \in DOMAIN table' /\ table'[i].key = table[i].key
<1>1. TypeOK /\ Outcomed(r) /\ Keeps(r) BY DEF TableInv, WorkIsRun, RunKeeps
<1>2. pc[r] = "run" /\ Len(work[r]) > Len(want[r]) /\ table' = work[r][Len(work[r])]
  BY DEF Commit, Last
<1>3. work[r] \in Seq(Tables) /\ want[r] \in Seq(Op) BY <1>1 DEF TypeOK
<1>4. Len(work[r]) - 1 = Len(want[r]) BY <1>1, <1>2, <1>3 DEF Outcomed
<1>5. i \in Rows BY <1>1, TableShape DEF TypeOK
<1>6. \A m \in 1..Len(work[r]) - 1 : ~Unseats(want[r][m], i) BY <1>3, <1>4, <1>5
<1> QED BY <1>1, <1>2, <1>6 DEF Keeps

LEMMA DeleteUnseats ==
    ASSUME NEW r \in Requests, DeleteRecord(r), NEW i \in DOMAIN table,
           i \notin Named(table, record[r].key)
    PROVE  i \in DOMAIN table' /\ table'[i].key = table[i].key
BY DEF DeleteRecord, Without

LEMMA TableChanges ==
    ASSUME NEW r \in Requests, Act(r), table' # table
    PROVE  Commit(r) \/ DeleteRecord(r)
BY Act(r), table' # table DEF Act, Step, AskBatch, AskRecord, AskBrowse, AskExport, Begin, Execute, Refuse, GetRecord,
       LookUp, Miss, Count, ReadPage, Answer, OpenExport, SendRow, EndExport, Fail

LEMMA NamedStep ==
    ASSUME TableInv, NEW r \in Requests, Act(r)
    PROVE  NamedRecord'
<1> SUFFICES ASSUME NEW q \in Requests, record'[q].row # 0, ~moved'[q]
             PROVE  record'[q].row \in DOMAIN table' /\ table'[record'[q].row].key = record'[q].key
  BY DEF NamedRecord
<1>0. TypeOK /\ NamedRecord /\ Forgets(q) BY DEF TableInv, Forgotten
<1>1. CASE q # r
  <2>1. record'[q] = record[q] /\ ~moved[q] BY <1>0, <1>1, OthersKeep
  <2> DEFINE i == record[q].row
  <2>2. i \in DOMAIN table /\ table[i].key = record[q].key BY <1>0, <2>1 DEF NamedRecord
  <2>3. pc[q] \notin {"page", "answer"} BY <1>0, <2>1 DEF Forgets
  <2>4. CASE table' = table BY <2>1, <2>2, <2>4
  <2>5. CASE table' # table
    <3>1. CASE Commit(r)
      <4>1. i \notin {j \in Rows : \E n \in DOMAIN want[r] : Unseats(want[r][n], j)}
        BY <1>1, <2>3, <3>1 DEF Commit, Moves
      <4> QED BY <2>1, <2>2, <3>1, <4>1, CommitUnseats
    <3>2. CASE DeleteRecord(r)
      <4>1. i \notin Named(table, record[r].key) BY <1>1, <2>3, <3>2 DEF DeleteRecord, Moves
      <4> QED BY <2>1, <2>2, <3>2, <4>1, DeleteUnseats
    <3> QED BY <2>5, <3>1, <3>2, TableChanges
  <2> QED BY <2>4, <2>5
<1>2. CASE q = r
  <2>1. ~Over(r) BY <1>0, <1>2, OverOwn
  <2>2. CASE LookUp(r)
    BY <1>0, <1>2, <2>2 DEF LookUp, Found, Named, TypeOK
  <2>3. CASE AskRecord(r) BY <1>0, <1>2, <2>3 DEF AskRecord, TypeOK
  <2>4. CASE Count(r)
    <3>1. pc[r] = "count" BY <2>4 DEF Count, Go
    <3> QED BY <1>0, <1>2, <2>4, <3>1 DEF Count, Forgets
  <2>5. CASE \/ AskBatch(r) \/ AskBrowse(r) \/ AskExport(r) \/ Begin(r) \/ Execute(r)
             \/ ReadPage(r) \/ OpenExport(r) \/ SendRow(r)
    <3>1. UNCHANGED <<table, record, moved>>
      BY <2>5 DEF AskBatch, AskBrowse, AskExport, Begin, Execute, ReadPage, OpenExport, SendRow, reading, batch
    <3> QED BY <1>0, <1>2, <3>1 DEF NamedRecord
  <2> QED BY <2>1, <2>2, <2>3, <2>4, <2>5, Overs, Act(r) DEF Act, Step
<1> QED BY <1>1, <1>2

LEMMA ExportStep ==
    ASSUME TableInv, NEW r \in Requests, Act(r)
    PROVE  ExportIsSnapshot'
<1> SUFFICES ASSUME NEW q \in Requests, NEW i \in DOMAIN sent'[q]
             PROVE  /\ i \in DOMAIN table' /\ sent'[q][i] = table'[i]
                    /\ \A j \in DOMAIN table' : j < i => j \in DOMAIN sent'[q]
  BY DEF ExportIsSnapshot
<1>0. TypeOK /\ ExportIsSnapshot /\ Forgets(q) BY DEF TableInv, Forgotten
<1>1. CASE q # r
  <2>1. pc'[q] = pc[q] /\ sent'[q] = sent[q] /\ (pc[q] = "stream" => table' = table)
    BY <1>0, <1>1, OthersKeep
  <2> QED BY <1>0, <2>1 DEF ExportIsSnapshot, Forgets
<1>2. CASE q = r
  <2>1. ~Over(r) BY <1>0, <1>2, OverOwn
  <2>2. CASE SendRow(r)
    <3>1. PICK k \in DOMAIN table :
            /\ \A j \in DOMAIN table : j < k => j \in DOMAIN sent[r]
            /\ sent'[r] = With(sent[r], k, table[k])
      BY <1>0, <2>2 DEF SendRow, TypeOK
    <3>2. table' = table BY <2>2 DEF SendRow
    <3>3. CASE i = k BY <1>2, <3>1, <3>2, <3>3 DEF With
    <3>4. CASE i # k
      <4>1. i \in DOMAIN sent[r] /\ sent'[r][i] = sent[r][i] BY <1>2, <3>1, <3>4 DEF With
      <4>2. DOMAIN sent[r] \subseteq DOMAIN sent'[r] BY <3>1 DEF With
      <4> QED BY <1>0, <1>2, <3>2, <4>1, <4>2 DEF ExportIsSnapshot
    <3> QED BY <3>3, <3>4
  <2>3. CASE ~SendRow(r)
    <3>1. UNCHANGED <<table, sent>>
      BY <2>1, <2>3, Overs, Act(r) DEF Act, Step, AskBatch, AskRecord, AskBrowse, AskExport, Begin, Execute,
         LookUp, Count, ReadPage, OpenExport, reading, batch
    <3> QED BY <1>0, <3>1 DEF ExportIsSnapshot
  <2> QED BY <2>2, <2>3
<1> QED BY <1>1, <1>2

----------------------------------------------------------------------------
(* A rebuild and a restart. *)

LEMMA RebuildStep ==
    ASSUME TableInv, Rebuild
    PROVE  WorkIsRun' /\ RunKeeps' /\ Forgotten' /\ NamedRecord' /\ ExportIsSnapshot'
<1>0. TypeOK /\ Forgotten BY DEF TableInv
<1>1. UNCHANGED <<pc, want, work, record, sent, composite>> BY DEF Rebuild, batch, reading
<1>2. \A r \in Requests : pc[r] \notin {"run", "stream"}
  BY <1>0, NoOneAssumption DEF Rebuild, Free, TypeOK
<1>3. Forgotten' BY <1>0, <1>1 DEF Forgotten, Forgets
<1>4. WorkIsRun' /\ RunKeeps' BY <1>1, <1>2 DEF WorkIsRun, RunKeeps, Outcomed, Keeps
<1>5. ExportIsSnapshot' BY <1>0, <1>1, <1>2 DEF Forgotten, Forgets, ExportIsSnapshot
<1>6. NamedRecord'
  <2> SUFFICES ASSUME NEW r \in Requests, record[r].row # 0
               PROVE  moved'[r]
    BY <1>1 DEF NamedRecord
  <2>1. record[r].row \in Rows BY <1>0, MaxRowAssumption DEF TypeOK, Rows
  <2>2. pc[r] \notin {"page", "answer"} BY <1>0 DEF Forgotten, Forgets
  <2> QED BY <2>1, <2>2, NoOneAssumption DEF Rebuild, Moves
<1> QED BY <1>3, <1>4, <1>5, <1>6

LEMMA CrashStep ==
    ASSUME Crash
    PROVE  WorkIsRun' /\ RunKeeps' /\ Forgotten' /\ NamedRecord' /\ ExportIsSnapshot'
<1>1. \A r \in Requests : /\ pc'[r] = "idle" /\ want'[r] = <<>> /\ work'[r] = <<>>
                          /\ record'[r].row = 0 /\ DOMAIN sent'[r] = {}
  BY NothingTyped DEF Crash, NoRecord
<1>2. WorkIsRun' /\ RunKeeps' BY <1>1 DEF WorkIsRun, RunKeeps, Outcomed, Keeps
<1>3. Forgotten' BY <1>1 DEF Forgotten, Forgets
<1> QED BY <1>1, <1>2, <1>3 DEF NamedRecord, ExportIsSnapshot

----------------------------------------------------------------------------

LEMMA TableInit == Init => TableInv
<1> SUFFICES ASSUME Init PROVE TableInv OBVIOUS
<1>1. \A r \in Requests : /\ pc[r] = "idle" /\ want[r] = <<>> /\ work[r] = <<>>
                          /\ record[r].row = 0 /\ DOMAIN sent[r] = {}
  BY NothingTyped DEF Init, NoRecord
<1>2. WorkIsRun /\ RunKeeps BY <1>1 DEF WorkIsRun, RunKeeps, Outcomed, Keeps
<1>3. Forgotten BY <1>1 DEF Forgotten, Forgets
<1> QED BY <1>1, <1>2, <1>3, TypeInit DEF TableInv, NamedRecord, ExportIsSnapshot

LEMMA TableStep == TableInv /\ [Next]_vars => TableInv'
<1> SUFFICES ASSUME TableInv, [Next]_vars PROVE TableInv' OBVIOUS
<1>0. TypeOK' BY TypeStep DEF TableInv
<1>1. ASSUME NEW r \in Requests, Act(r) PROVE TableInv'
  <2>1. \A q \in Requests : Outcomed(q)' /\ Keeps(q)' /\ Forgets(q)'
    BY <1>1, OwnStep, OtherStep
  <2> QED BY <1>0, <1>1, <2>1, NamedStep, ExportStep DEF TableInv, WorkIsRun, RunKeeps, Forgotten
<1>2. CASE Rebuild BY <1>0, <1>2, RebuildStep DEF TableInv
<1>3. CASE Crash BY <1>0, <1>3, CrashStep DEF TableInv
<1>4. CASE UNCHANGED vars
  BY <1>0, <1>4 DEF TableInv, vars, batch, reading, WorkIsRun, RunKeeps, Forgotten, Outcomed, Keeps, Forgets,
     NamedRecord, ExportIsSnapshot
<1> QED BY <1>1, <1>2, <1>3, <1>4 DEF Next

\* The invariant holds of every behaviour.
LEMMA TableInvariant == Spec => []TableInv
<1> QED BY TableInit, TableStep, PTL DEF Spec

\* Types, and who holds the connection: a transaction or an export of one
\* request at most, for any number of requests.
THEOREM TableTypes == Spec => []TypeOK
<1>1. TableInv => TypeOK BY DEF TableInv
<1> QED BY <1>1, TableInvariant, PTL

\* The row id that handleUpdateRecord found stands for the record that the
\* request named, unless it was deleted or re-keyed, or the table rebuilt.
THEOREM RecordsNamed == Spec => []NamedRecord
<1>1. TableInv => NamedRecord BY DEF TableInv
<1> QED BY <1>1, TableInvariant, PTL

\* What an export has sent is the beginning of one state of the table.
THEOREM ExportsAreSnapshots == Spec => []ExportIsSnapshot
<1>1. TableInv => ExportIsSnapshot BY DEF TableInv
<1> QED BY <1>1, TableInvariant, PTL

----------------------------------------------------------------------------
(* Pages: the ranks of the rows, and the page that LIMIT and OFFSET cut out. *)

\* The number of rows up to and with row i, in the order of the row ids.
Rank(M, i) == Cardinality({j \in M : j =< i})

\* Rows are ranked from 1 without a gap, in their order.
LEMMA Ranked ==
    ASSUME NEW M \in SUBSET Nat, IsFiniteSet(M)
    PROVE  /\ Cardinality(M) \in Nat
           /\ \A i \in M : Rank(M, i) \in 1..Cardinality(M)
           /\ \A i, j \in M : i < j <=> Rank(M, i) < Rank(M, j)
           /\ \A k \in 1..Cardinality(M) : \E i \in M : Rank(M, i) = k
<1> DEFINE Up(i) == {j \in M : j =< i}
           f == [i \in M |-> Rank(M, i)]
<1>1. Cardinality(M) \in Nat
  BY FS_CardinalityType
<1>2. ASSUME NEW i \in M
      PROVE  IsFiniteSet(Up(i)) /\ Cardinality(Up(i)) \in 1..Cardinality(M)
  <2>1. Up(i) \in SUBSET M /\ i \in Up(i)
    OBVIOUS
  <2>2. IsFiniteSet(Up(i)) /\ Cardinality(Up(i)) =< Cardinality(M) /\ Cardinality(Up(i)) \in Nat
    BY <2>1, FS_Subset, FS_CardinalityType
  <2>3. Cardinality(Up(i)) # 0
    BY <2>1, <2>2, FS_EmptySet
  <2> HIDE DEF Up
  <2> QED BY <1>1, <2>2, <2>3
<1>3. ASSUME NEW i \in M, NEW j \in M, i < j
      PROVE  Cardinality(Up(i)) < Cardinality(Up(j))
  <2>1. Up(i) \in SUBSET Up(j) /\ j \in Up(j) /\ j \notin Up(i)
    <3>1. i \in Nat /\ j \in Nat /\ ~(j =< i)
      BY <1>3
    <3>2. \A k \in M : k =< i => k =< j
      <4> TAKE k \in M
      <4>1. k \in Nat
        OBVIOUS
      <4> QED BY <1>3, <3>1, <4>1
    <3>3. Up(i) \subseteq Up(j)
      <4> SUFFICES ASSUME NEW k \in Up(i) PROVE k \in Up(j)
        OBVIOUS
      <4> QED BY <3>2
    <3>4. j \in Up(j) /\ j \notin Up(i)
      BY <3>1
    <3> HIDE DEF Up
    <3> QED BY <3>3, <3>4
  <2>2. Cardinality(Up(i)) =< Cardinality(Up(j)) /\ Cardinality(Up(i)) # Cardinality(Up(j))
    BY <1>2, <2>1, FS_Subset
  <2> QED BY <1>2, <2>2
<1>4. \A i \in M : Rank(M, i) \in 1..Cardinality(M)
  BY <1>2 DEF Rank
<1>5. \A i, j \in M : i < j => Rank(M, i) < Rank(M, j)
  BY <1>3 DEF Rank
<1>6. \A i, j \in M : i < j <=> Rank(M, i) < Rank(M, j)
  BY <1>4, <1>5
<1>7. \A i, j \in M : Rank(M, i) = Rank(M, j) => i = j
  BY <1>4, <1>6
<1>8. f \in Injection(M, 1..Cardinality(M))
  <2>1. f \in [M -> 1..Cardinality(M)] /\ \A i, j \in DOMAIN f : f[i] = f[j] => i = j
    BY <1>4, <1>7
  <2> QED BY ONLY <2>1 DEF Injection, IsInjective
<1>9. IsFiniteSet(1..Cardinality(M)) /\ Cardinality(1..Cardinality(M)) = Cardinality(M)
  BY <1>1, FS_Interval
<1>10. f \in Surjection(M, 1..Cardinality(M))
  BY ONLY <1>8, <1>9, FS_Injection
<1>11. \A k \in 1..Cardinality(M) : \E i \in M : Rank(M, i) = k
  BY ONLY <1>10 DEF Surjection
<1> QED BY <1>1, <1>4, <1>6, <1>11

LEMMA Mono ==
    ASSUME NEW a \in Nat, NEW b \in Nat, a =< b, NEW s \in Nat
    PROVE  a * s =< b * s
<1>1. PICK d \in Nat : b = a + d
  <2>1. b - a \in Nat /\ b = a + (b - a)
    OBVIOUS
  <2> QED BY <2>1
<1>2. b * s = a * s + d * s
  BY <1>1
<1>3. d * s \in Nat /\ a * s \in Nat
  OBVIOUS
<1> QED BY <1>2, <1>3

\* The page that is read begins before the last row, if there is one, and is
\* another than the one asked for only when that is beyond the last.
LEMMA ClampedIs ==
    ASSUME NEW asked \in Nat \ {0}, NEW total \in Nat, NEW size \in Nat \ {0}
    PROVE  LET page == Clamped(asked, total, size)
           IN  /\ page \in Nat \ {0}
               /\ total > 0 => (page - 1) * size < total
               /\ page # asked => page < asked /\ page * size >= total
<1> DEFINE q == (total + size - 1) \div size
           page == Clamped(asked, total, size)
<1>1. CASE total = 0
  <2>1. page = 1
    BY <1>1 DEF Clamped
  <2>2. 1 * size >= 0
    OBVIOUS
  <2> QED BY <1>1, <2>1, <2>2
<1>2. CASE total > 0
  <2>1. q \in Nat /\ q * size =< total + size - 1 /\ total + size - 1 < q * size + size
    BY SMT
  <2>2. page = IF asked > q THEN q ELSE asked
    BY <1>2 DEF Clamped
  <2> HIDE DEF q
  <2>3. q # 0
    BY <1>2, <2>1
  <2>4. page \in Nat \ {0} /\ page - 1 =< q - 1 /\ page - 1 \in Nat /\ q - 1 \in Nat
    BY <2>1, <2>2, <2>3
  <2> HIDE DEF page
  <2>5. (page - 1) * size =< (q - 1) * size
    BY <2>4, Mono
  <2>6. (q - 1) * size = q * size - size
    BY <2>1
  <2>7. (page - 1) * size < total
    BY <2>1, <2>4, <2>5, <2>6
  <2>8. page # asked => page < asked /\ page * size >= total
    BY <2>1, <2>2
  <2> QED BY <2>4, <2>7, <2>8 DEF page
<1> QED BY <1>1, <1>2

\* The rows that LIMIT size OFFSET (page - 1) * size lets through.
PageOf(M, page, size) ==
    {i \in M : Rank(M, i) \in (page - 1) * size + 1 .. (page - 1) * size + size}

\* The first k rows are k rows.
LEMMA Prefix ==
    ASSUME NEW M \in SUBSET Nat, IsFiniteSet(M), NEW k \in 0..Cardinality(M)
    PROVE  Cardinality({i \in M : Rank(M, i) =< k}) = k
<1>0. Cardinality(M) \in Nat /\ \A i \in M : Rank(M, i) \in 1..Cardinality(M)
  BY Ranked
<1>1. CASE k = 0
  <2>1. \A i \in M : ~(Rank(M, i) =< k)
    BY <1>0, <1>1
  <2>2. {i \in M : Rank(M, i) =< k} = {}
    BY <2>1
  <2> QED BY <1>1, <2>2, FS_EmptySet
<1>2. CASE k # 0
  <2>1. PICK i \in M : Rank(M, i) = k
    BY <1>0, <1>2, Ranked
  <2>2. \A j \in M : Rank(M, j) =< k <=> j =< i
    <3> TAKE j \in M
    <3>1. i < j <=> Rank(M, i) < Rank(M, j)
      BY Ranked
    <3>2. i \in Nat /\ j \in Nat /\ Rank(M, j) \in Nat
      BY <1>0
    <3> QED BY <2>1, <3>1, <3>2
  <2>3. {j \in M : Rank(M, j) =< k} = {j \in M : j =< i}
    BY <2>2
  <2> QED BY <2>1, <2>3 DEF Rank
<1> QED BY <1>1, <1>2

Honest(M, asked, size, total, page, R) ==
    /\ R = {} => total = 0
    /\ R # {} => Cardinality({i \in M : \A j \in R : i < j}) = (page - 1) * size
    /\ Cardinality(R) = size \/ {i \in M : \A j \in R : i > j} = {}
    /\ page # asked => page < asked /\ page * size >= total

\* A page that was read with the total it was clamped to is honest.
LEMMA PageOfIs ==
    ASSUME NEW M \in SUBSET Nat, IsFiniteSet(M),
           NEW asked \in Nat \ {0}, NEW size \in Nat \ {0}, NEW total, NEW page, NEW R,
           total = Cardinality(M), page = Clamped(asked, total, size), R = PageOf(M, page, size)
    PROVE  Honest(M, asked, size, total, page, R)
<1> DEFINE offset == (page - 1) * size
           Upto(k) == {i \in M : Rank(M, i) =< k}
<1>1. total \in Nat /\ \A i \in M : i \in Nat /\ Rank(M, i) \in 1..total
  BY Ranked
<1>2. /\ page \in Nat \ {0}
      /\ total > 0 => offset < total
      /\ page # asked => page < asked /\ page * size >= total
  BY <1>1, ClampedIs
<1>3. offset \in Nat
  BY <1>2
<1>4. R = {i \in M : Rank(M, i) \in offset + 1 .. offset + size}
  BY DEF PageOf
<1>5. \A k \in 0..total : Cardinality(Upto(k)) = k
  BY Prefix
<1>6. \A k \in 1..total : \E i \in M : Rank(M, i) = k
  BY Ranked
<1>7. \A i, j \in M : i < j <=> Rank(M, i) < Rank(M, j)
  BY Ranked
<1> HIDE DEF offset, Upto
<1>8. total > 0 => \E i \in R : Rank(M, i) = offset + 1
  <2> SUFFICES ASSUME total > 0 PROVE \E i \in R : Rank(M, i) = offset + 1
    OBVIOUS
  <2>1. offset + 1 \in 1..total /\ offset + 1 \in offset + 1 .. offset + size
    BY <1>1, <1>2, <1>3
  <2>2. PICK i \in M : Rank(M, i) = offset + 1
    BY <1>6, <2>1
  <2> QED BY <1>4, <2>1, <2>2
<1>9. ASSUME R # {}
      PROVE  Cardinality({i \in M : \A j \in R : i < j}) = offset
  <2>1. total > 0
    <3>1. PICK i \in R : TRUE
      BY <1>9
    <3>2. Rank(M, i) \in 1..total
      BY <1>1, <1>4
    <3> QED BY <1>1, <3>2
  <2>2. PICK k \in R : Rank(M, k) = offset + 1
    BY <1>8, <2>1
  <2>3. \A i \in M : (\A j \in R : i < j) <=> Rank(M, i) =< offset
    <3> TAKE i \in M
    <3>1. ASSUME \A j \in R : i < j PROVE Rank(M, i) =< offset
      <4>1. k \in M /\ i < k
        BY <1>4, <3>1
      <4>2. Rank(M, i) < offset + 1 /\ Rank(M, i) \in Nat
        BY <1>1, <1>7, <2>2, <4>1
      <4> QED BY <1>3, <4>2
    <3>2. ASSUME Rank(M, i) =< offset, NEW j \in R PROVE i < j
      <4>1. j \in M /\ Rank(M, j) >= offset + 1 /\ Rank(M, j) \in Nat /\ Rank(M, i) \in Nat
        BY <1>1, <1>3, <1>4
      <4>2. Rank(M, i) < Rank(M, j)
        BY <1>3, <3>2, <4>1
      <4> QED BY <1>7, <4>1, <4>2
    <3> QED BY <3>1, <3>2
  <2>4. {i \in M : \A j \in R : i < j} = Upto(offset)
    BY <2>3 DEF Upto
  <2>5. offset \in 0..total
    BY <1>1, <1>2, <1>3, <2>1
  <2> QED BY <1>5, <2>4, <2>5
<1>10. CASE offset + size =< total
  <2>1. offset \in 0..total /\ offset + size \in 0..total
    BY <1>1, <1>3, <1>10
  <2>2. \A i \in M : Rank(M, i) \in offset + 1 .. offset + size
                        <=> Rank(M, i) =< offset + size /\ ~(Rank(M, i) =< offset)
    <3> TAKE i \in M
    <3>1. Rank(M, i) \in Nat
      BY <1>1
    <3> QED BY <1>3, <3>1
  <2>3. R = Upto(offset + size) \ Upto(offset)
    BY <1>4, <2>2 DEF Upto
  <2>4. \A i \in M : Rank(M, i) =< offset => Rank(M, i) =< offset + size
    <3> TAKE i \in M
    <3>1. Rank(M, i) \in Nat
      BY <1>1
    <3> QED BY <1>3, <3>1
  <2>5. Upto(offset + size) \cap Upto(offset) = Upto(offset)
    BY <2>4 DEF Upto
  <2>6. IsFiniteSet(Upto(offset + size))
    BY FS_Subset DEF Upto
  <2>7. Cardinality(R) = Cardinality(Upto(offset + size)) - Cardinality(Upto(offset))
    BY <2>3, <2>5, <2>6, FS_Difference
  <2>8. Cardinality(R) = size
    BY <1>3, <1>5, <2>1, <2>7
  <2> QED BY <1>2, <1>8, <1>9, <1>1, <2>8 DEF offset, Honest
<1>11. CASE total < offset + size
  <2> SUFFICES ASSUME NEW i \in M, \A j \in R : i > j PROVE FALSE
    <3>1. R = {} => total = 0
      BY <1>1, <1>8
    <3> QED BY <1>2, <1>9, <3>1 DEF offset, Honest
  <2>1. Rank(M, i) \in 1..total /\ total > 0
    BY <1>1
  <2>2. PICK k \in M : Rank(M, k) = total
    BY <1>1, <1>6, <2>1
  <2>3. total \in offset + 1 .. offset + size
    BY <1>1, <1>2, <1>3, <1>11, <2>1
  <2>4. k \in R
    BY <1>4, <2>2, <2>3
  <2>5. k < i
    BY <1>1, <2>4, <2>2
  <2>6. total < Rank(M, i)
    BY <1>7, <2>2, <2>5
  <2> QED BY <1>1, <2>1, <2>6
<1> QED BY <1>1, <1>3, <1>10, <1>11

----------------------------------------------------------------------------
(* A browse has counted, and then read, the table as it still is.           *)

IsCounted(v, M) ==
    v.total = Cardinality(M) /\ v.page = Clamped(v.asked, v.total, v.size)

Counted(r) ==
    pc[r] \in {"page", "answer"} /\ ~moved[r] =>
        /\ IsCounted(view[r], Matching(view[r].filter))
        /\ pc[r] = "answer" =>
              view[r].rows = PageOf(Matching(view[r].filter), view[r].page, view[r].size)

PagesAreRead == \A r \in Requests : Counted(r)

PagesInv == TableInv /\ PagesAreRead

LEMMA MatchingIs ==
    ASSUME TypeOK, NEW F
    PROVE  Matching(F) \in SUBSET Nat /\ IsFiniteSet(Matching(F))
<1>1. Matching(F) \subseteq Rows
  BY TableShape DEF Matching, TypeOK
<1>2. IsFiniteSet(Rows) /\ Rows \subseteq Nat
  BY FS_Interval, MaxRowAssumption DEF Rows
<1> QED BY <1>1, <1>2, FS_Subset

\* The step of another request leaves a browse alone, or marks it as moved.
LEMMA PageOthers ==
    ASSUME TypeOK, NEW r \in Requests, Act(r), NEW q \in Requests \ {r},
           pc[q] \in {"page", "answer"}, ~moved'[q]
    PROVE  view'[q] = view[q] /\ ~moved[q] /\ table' = table
<1>1. view'[q] = view[q]
  <2>1. CASE Over(r)
    BY <2>1 DEF Over, TypeOK
  <2>2. CASE AskBrowse(r) \/ Count(r) \/ ReadPage(r)
    BY <2>2 DEF AskBrowse, Count, ReadPage, TypeOK
  <2>3. CASE ~Over(r) /\ ~(AskBrowse(r) \/ Count(r) \/ ReadPage(r))
    BY <2>3, Overs, Act(r) DEF Act, Step, AskBatch, AskRecord, AskExport, Begin, Execute,
       LookUp, OpenExport, SendRow, reading
  <2> QED BY <2>1, <2>2, <2>3
<1>2. ~moved[q]
  BY OthersKeep
<1>3. table' = table
  <2> SUFFICES ASSUME table' # table PROVE FALSE
    OBVIOUS
  <2>1. \E U : Moves(r, U)
    BY TableChanges DEF Commit, DeleteRecord
  <2> QED BY <2>1 DEF Moves
<1> QED BY <1>1, <1>2, <1>3

LEMMA PagesOwn ==
    ASSUME TypeOK, NEW r \in Requests, Counted(r), Act(r)
    PROVE  Counted(r)'
<1>1. CASE Over(r)
  BY <1>1, OverTyped DEF Counted
<1>2. CASE Count(r)
  <2> DEFINE total == Cardinality(Matching(view[r].filter))
             page == Clamped(view[r].asked, total, view[r].size)
  <2>1. pc'[r] = "page" /\ table' = table
    BY <1>2 DEF Count, Go, TypeOK
  <2>2. view'[r] = [view[r] EXCEPT !.total = total, !.page = page] /\ view[r] \in Views
    BY <1>2 DEF Count, TypeOK
  <2>3. /\ view'[r].total = total /\ view'[r].page = page
        /\ view'[r].filter = view[r].filter /\ view'[r].asked = view[r].asked /\ view'[r].size = view[r].size
    BY <2>2 DEF Views
  <2>4. Matching(view[r].filter)' = Matching(view[r].filter)
    BY <2>1, <2>3 DEF Matching
  <2> QED BY <2>1, <2>3, <2>4 DEF Counted, IsCounted
<1>3. CASE ReadPage(r)
  <2> DEFINE M == Matching(view[r].filter)
             R == PageOf(M, view[r].page, view[r].size)
  <2>1. pc[r] = "page" /\ pc'[r] = "answer" /\ table' = table /\ moved' = moved
    BY <1>3 DEF ReadPage, Go, TypeOK
  <2>2. view'[r] = [view[r] EXCEPT !.rows = R] /\ view[r] \in Views
    BY <1>3 DEF ReadPage, TypeOK, PageOf, Rank
  <2>3. /\ view'[r].rows = R /\ view'[r].total = view[r].total /\ view'[r].page = view[r].page
        /\ view'[r].filter = view[r].filter /\ view'[r].asked = view[r].asked /\ view'[r].size = view[r].size
    BY <2>2 DEF Views
  <2>4. Matching(view[r].filter)' = M
    BY <2>1, <2>3 DEF Matching
  <2> HIDE DEF M
  <2>5. ~moved[r] => IsCounted(view[r], M)
    BY <2>1 DEF Counted, M
  <2> QED BY <2>1, <2>3, <2>4, <2>5 DEF Counted, IsCounted
<1>4. CASE ~Over(r) /\ ~Count(r) /\ ~ReadPage(r)
  <2>1. pc'[r] \notin {"page", "answer"}
    <3>1. CASE Execute(r) \/ SendRow(r)
      BY <3>1 DEF Execute, Running, SendRow
    <3>2. CASE AskRecord(r)
      BY <3>2 DEF AskRecord, TypeOK
    <3>3. CASE AskBatch(r) \/ AskBrowse(r) \/ AskExport(r) \/ Begin(r) \/ LookUp(r) \/ OpenExport(r)
      BY <3>3 DEF AskBatch, AskBrowse, AskExport, Begin, LookUp, OpenExport, Go, TypeOK
    <3> QED BY <1>4, <3>1, <3>2, <3>3, Overs, Act(r) DEF Act, Step
  <2> QED BY <2>1 DEF Counted
<1> QED BY <1>1, <1>2, <1>3, <1>4

LEMMA PagesStep == PagesInv /\ [Next]_vars => PagesInv'
<1> SUFFICES ASSUME PagesInv, [Next]_vars PROVE PagesAreRead'
  BY TableStep DEF PagesInv
<1>0. TypeOK /\ \A r \in Requests : Counted(r)
  BY DEF PagesInv, TableInv, PagesAreRead
<1> SUFFICES ASSUME NEW q \in Requests PROVE Counted(q)'
  BY DEF PagesAreRead
<1>1. ASSUME NEW r \in Requests, Act(r) PROVE Counted(q)'
  <2>1. CASE q = r
    BY <1>0, <1>1, <2>1, PagesOwn
  <2>2. CASE q # r
    <3>1. pc'[q] = pc[q]
      BY <1>0, <1>1, <2>2, OthersKeep
    <3>2. pc[q] \in {"page", "answer"} /\ ~moved'[q] =>
             view'[q] = view[q] /\ ~moved[q] /\ table' = table
      BY <1>0, <1>1, <2>2, PageOthers
    <3> QED BY <1>0, <3>1, <3>2 DEF Counted, Matching
  <2> QED BY <2>1, <2>2
<1>2. CASE Rebuild
  <2>1. UNCHANGED <<pc, view>> /\ Moves(NoOne, Rows)
    BY <1>2 DEF Rebuild, reading
  <2>2. pc[q] \in {"page", "answer"} /\ ~moved'[q] => ~moved[q] /\ table' = table
    BY <2>1, NoOneAssumption DEF Moves
  <2> QED BY <1>0, <2>1, <2>2 DEF Counted, Matching
<1>3. CASE Crash
  BY <1>3 DEF Crash, Counted
<1>4. CASE UNCHANGED vars
  BY <1>0, <1>4 DEF vars, reading, Counted, Matching
<1> QED BY <1>1, <1>2, <1>3, <1>4 DEF Next

LEMMA PagesHonest == PagesInv => PageIsHonest
<1> SUFFICES ASSUME PagesInv, NEW r \in Requests, pc[r] = "answer", ~moved[r]
             PROVE  LET v == view[r]
                        before == {i \in Matching(v.filter) : \A j \in v.rows : i < j}
                        after == {i \in Matching(v.filter) : \A j \in v.rows : i > j}
                    IN  /\ v.rows = {} => v.total = 0
                        /\ v.rows # {} => Cardinality(before) = (v.page - 1) * v.size
                        /\ Cardinality(v.rows) = v.size \/ after = {}
                        /\ v.page # v.asked => v.page < v.asked /\ v.page * v.size >= v.total
  BY DEF PageIsHonest
<1>1. TypeOK /\ Counted(r)
  BY DEF PagesInv, TableInv, PagesAreRead
<1>2. Matching(view[r].filter) \in SUBSET Nat /\ IsFiniteSet(Matching(view[r].filter))
  BY <1>1, MatchingIs
<1>3. view[r].asked \in Nat \ {0} /\ view[r].size \in Nat \ {0}
  <2>1. view[r] \in Views
    BY <1>1 DEF TypeOK
  <2> QED BY <2>1, PageAssumption DEF Views
<1>4. IsCounted(view[r], Matching(view[r].filter))
      /\ view[r].rows = PageOf(Matching(view[r].filter), view[r].page, view[r].size)
  BY <1>1 DEF Counted
<1> DEFINE v == view[r]
           M == Matching(v.filter)
<1>5. /\ M \in SUBSET Nat /\ IsFiniteSet(M) /\ v.asked \in Nat \ {0} /\ v.size \in Nat \ {0}
      /\ v.total = Cardinality(M) /\ v.page = Clamped(v.asked, v.total, v.size)
      /\ v.rows = PageOf(M, v.page, v.size)
  BY <1>2, <1>3, <1>4 DEF IsCounted
<1> HIDE DEF M, v
<1>6. Honest(M, v.asked, v.size, v.total, v.page, v.rows)
  BY <1>5, PageOfIs
<1> QED BY <1>6 DEF M, v, Honest

\* handleBrowseTable: the page that is answered is what precedes and follows
\* it says it is, for any table, filter, page and page size, unless another
\* request changed the table since the rows were counted.
THEOREM PagesAreHonest == Spec => []PageIsHonest
<1>1. Init => PagesInv
  BY TableInit DEF Init, PagesInv, PagesAreRead, Counted
<1> QED BY <1>1, PagesStep, PagesHonest, PTL DEF Spec

----------------------------------------------------------------------------
(* Batches are atomic. *)

\* The abstract specification has the same operators.
LEMMA AtomicTables == Atomic!Tables = Tables
BY DEF Atomic!Tables, Tables, Atomic!Rows, Rows, Atomic!Row, Row

LEMMA AtomicInserted ==
    ASSUME NEW t, NEW set, NEW c
    PROVE  Atomic!batchInsert(t, set, c) = batchInsert(t, set, c)
BY DEF Atomic!batchInsert, batchInsert, Atomic!Usable, Usable, Atomic!NextRows, NextRows,
       Atomic!Rows, Rows, Atomic!Unique, Unique, Atomic!With, With

LEMMA AtomicUpdated ==
    ASSUME NEW t, NEW i, NEW set, NEW c
    PROVE  Atomic!batchUpdate(t, i, set, c) = batchUpdate(t, i, set, c)
BY DEF Atomic!batchUpdate, batchUpdate, Atomic!Usable, Usable,
       Atomic!Changed, Changed, Atomic!Unique, Unique, Atomic!With, With

LEMMA AtomicOutcomes ==
    ASSUME NEW op \in Op, NEW t, NEW c
    PROVE  Atomic!Outcomes(op, t, c) = Outcomes(op, t, c)
<1>1. CASE op.op = "insert" BY <1>1, AtomicInserted, Zenon DEF Atomic!Outcomes, Outcomes
<1>2. CASE op.op = "update" BY <1>2, AtomicUpdated, Zenon DEF Atomic!Outcomes, Outcomes
<1>3. CASE op.op = "delete" BY <1>3, Zenon DEF Atomic!Outcomes, Outcomes, Atomic!Without, Without
<1>4. CASE op.op = "other" BY <1>4, Zenon DEF Atomic!Outcomes, Outcomes
<1> QED BY <1>1, <1>2, <1>3, <1>4 DEF Op

LEMMA AtomicInit == Init => Atomic!Init
BY AtomicTables DEF Init, Atomic!Init

LEMMA AtomicStep == TableInv /\ [Next]_vars => [Atomic!Next]_Atomic!vars
<1> SUFFICES ASSUME TableInv, [Next]_vars PROVE Atomic!Next \/ UNCHANGED Atomic!vars OBVIOUS
<1> USE DEF batch, reading
<1>0. TypeOK BY DEF TableInv
<1>1. ASSUME NEW r \in Requests, Act(r) PROVE Atomic!Next \/ UNCHANGED Atomic!vars
  <2>0. Outcomed(r) /\ Forgets(r) BY DEF TableInv, WorkIsRun, Forgotten
  <2>1. Atomic!Others(r) /\ composite' = composite
    <3>1. \A q \in Requests \ {r} : want'[q] = want[q] /\ work'[q] = work[q]
      BY <1>0, <1>1, OthersKeep
    <3>2. composite' = composite
      BY <1>1 DEF Act, Step, AskBatch, AskRecord, AskBrowse, AskExport, Begin, Execute, Refuse, Commit,
         GetRecord, LookUp, Miss, DeleteRecord, Count, ReadPage, Answer, OpenExport, SendRow, EndExport, Fail
    <3> QED BY <3>1, <3>2 DEF Atomic!Others
  <2>2. CASE AskBatch(r) \/ LookUp(r)
    <3>1. want[r] = <<>> BY <2>0, <2>2 DEF AskBatch, LookUp, Go, Forgets
    <3>2. work' = work /\ table' = table BY <2>2 DEF AskBatch, LookUp
    <3> QED BY <2>1, <3>1, <3>2 DEF Atomic!Next, Atomic!Ask
  <2>3. CASE Begin(r) \/ Execute(r)
    <3>1. want' = want /\ table' = table BY <2>3 DEF Begin, Execute
    <3> QED BY <2>1, <3>1 DEF Atomic!Next, Atomic!Work
  <2>4. CASE Commit(r)
    <3>1. pc[r] = "run" /\ Len(work[r]) > Len(want[r]) /\ table' = work[r][Len(work[r])]
      BY <2>4 DEF Commit, Last
    <3>2. work[r] \in Seq(Tables) /\ want[r] \in Seq(Op) BY <1>0 DEF TypeOK
    <3>3. Len(work[r]) = Len(want[r]) + 1 BY <2>0, <3>1, <3>2 DEF Outcomed
    <3>4. Atomic!IsRun(want[r], work[r], table)
      <4>1. \A n \in 1..Len(want[r]) : work[r][n + 1] \in Atomic!Outcomes(want[r][n], work[r][n], composite)
        <5> TAKE n \in 1..Len(want[r])
        <5>1. want[r][n] \in Op BY <3>2
        <5>2. work[r][n + 1] \in Outcomes(want[r][n], work[r][n], composite)
          BY <2>0, <3>1, <3>2, <3>3 DEF Outcomed
        <5> QED BY <5>1, <5>2, AtomicOutcomes
      <4>2. work[r][1] = table BY <2>0, <3>1 DEF Outcomed
      <4> QED BY <3>3, <4>1, <4>2 DEF Atomic!IsRun
    <3>5. want'[r] = <<>> BY <1>0, <2>4, OverOwn DEF Commit
    <3> QED BY <2>1, <3>1, <3>4, <3>5 DEF Atomic!Next, Atomic!Apply
  <2>5. CASE DeleteRecord(r)
    <3>1. pc[r] = "erase" /\ Over(r) /\ table' = Without(table, Named(table, record[r].key))
      BY <2>5 DEF DeleteRecord
    <3>2. want[r] = <<>> /\ work[r] = <<>> BY <2>0, <3>1 DEF Forgets
    <3>3. want' = want /\ work' = work BY <1>0, <3>1, <3>2 DEF Over, TypeOK
    <3>4. CASE record[r].key \in Keys
      <4>1. Atomic!Delete(record[r].key)
        BY <2>1, <3>1, <3>3 DEF Atomic!Delete, Atomic!Without, Without, Atomic!Named, Named
      <4> QED BY <3>4, <4>1 DEF Atomic!Next
    <3>5. CASE record[r].key \notin Keys
      <4>1. Named(table, record[r].key) = {} BY <1>0, <3>5, TableShape DEF Named, TypeOK, Row
      <4>2. table' = table BY <1>0, <3>1, <4>1 DEF Without, TypeOK, Tables
      <4> QED BY <2>1, <3>3, <4>2 DEF Atomic!vars
    <3> QED BY <3>4, <3>5
  <2>6. CASE Refuse(r) \/ GetRecord(r) \/ Miss(r) \/ Answer(r) \/ EndExport(r) \/ Fail(r)
    <3>1. Over(r) /\ table' = table BY <2>6 DEF Refuse, GetRecord, Miss, Answer, EndExport, Fail
    <3>2. want'[r] = <<>> BY <1>0, <3>1, OverOwn
    <3> QED BY <2>1, <3>1, <3>2 DEF Atomic!Next, Atomic!GiveUp
  <2>7. CASE \/ AskRecord(r) \/ AskBrowse(r) \/ AskExport(r) \/ Count(r) \/ ReadPage(r)
             \/ OpenExport(r) \/ SendRow(r)
    BY <2>7 DEF AskRecord, AskBrowse, AskExport, Count, ReadPage, OpenExport, SendRow, Atomic!vars
  <2> QED BY <1>1, <2>2, <2>3, <2>4, <2>5, <2>6, <2>7 DEF Act, Step
<1>2. CASE Rebuild
  <2>1. Atomic!Renumbered(table) = Renumbered(table) BY Zenon DEF Atomic!Renumbered, Renumbered
  <2>2. UNCHANGED <<composite, want, work>> BY <1>2 DEF Rebuild
  <2>3. table' \in Renumbered(table) BY <1>2 DEF Rebuild
  <2> QED BY <2>1, <2>2, <2>3 DEF Atomic!Next, Atomic!Rebuild
<1>3. CASE Crash BY <1>3 DEF Crash, Atomic!Next, Atomic!Restart
<1>4. CASE UNCHANGED vars BY <1>4 DEF vars, Atomic!vars
<1> QED BY <1>1, <1>2, <1>3, <1>4 DEF Next

\* Batch: a batch is applied as a whole to the table of the moment of its
\* commit, or not at all, for any batches and any number of requests.
THEOREM BatchesAreAtomic == Spec => IsAtomicTable
<1> QED BY AtomicInit, AtomicStep, TableInvariant, PTL DEF Spec, IsAtomicTable, Atomic!Spec

=============================================================================
