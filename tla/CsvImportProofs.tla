---------------------------- MODULE CsvImportProofs ----------------------------
(***************************************************************************)
(* Theorems about ImportCSV, for files and batches of any length: what the *)
(* loop stores is what Expected says without a loop, whole batches only.   *)
(***************************************************************************)
EXTENDS CsvImport, TLAPS, SequenceTheorems, FiniteSetTheorems

\* The keys of Expected(n) and their values.
KeysAfter(n) == DOMAIN before \cup {x \in Keys : RowsOf(x, n) # {}}

ValueAfter(x, n) ==
    IF strategy = "overwrite" /\ RowsOf(x, n) # {} THEN Max(RowsOf(x, n))
    ELSE IF x \in DOMAIN before THEN before[x]
    ELSE Min(RowsOf(x, n))

-----------------------------------------------------------------------------
(* Max, Min and Expected. *)

LEMMA MaxIs ==
    ASSUME NEW S \in SUBSET Nat, NEW m \in S, \A x \in S : x =< m
    PROVE  Max(S) = m
<1> DEFINE c == CHOOSE x \in S : \A y \in S : x >= y
<1>1. \A y \in S : m >= y
  OBVIOUS
<1>2. c \in S /\ \A y \in S : c >= y
  BY <1>1
<1>3. Max(S) = c
  BY DEF Max
<1> HIDE DEF c
<1> QED BY <1>1, <1>2, <1>3

LEMMA MinIs ==
    ASSUME NEW S \in SUBSET Nat, NEW m \in S, \A x \in S : m =< x
    PROVE  Min(S) = m
<1> DEFINE c == CHOOSE x \in S : \A y \in S : x =< y
<1>1. \A y \in S : m =< y
  OBVIOUS
<1>2. c \in S /\ \A y \in S : c =< y
  BY <1>1
<1>3. Min(S) = c
  BY DEF Min
<1> HIDE DEF c
<1> QED BY <1>1, <1>2, <1>3

LEMMA RowsOfIs ==
    ASSUME file \in Seq(Rows), NEW n \in 0..Len(file), NEW x
    PROVE  /\ RowsOf(x, n) \subseteq 1..n
           /\ \A i \in 1..n : file[i] \in Rows
BY DEF RowsOf

LEMMA ExpectedIs ==
    ASSUME file \in Seq(Rows), NEW n \in 0..Len(file)
    PROVE  Expected(n) = [x \in KeysAfter(n) |-> ValueAfter(x, n)]
<1>1. \A i \in 1..n : file[i] \in Rows
  BY RowsOfIs
<1>2. {file[i] : i \in {j \in 1..n : file[j] \in Keys}} = {x \in Keys : RowsOf(x, n) # {}}
  BY <1>1, BadAssumption DEF Rows, RowsOf
<1> QED BY <1>2 DEF Expected, KeysAfter, ValueAfter

LEMMA NextExpectedIs ==
    ASSUME file' \in Seq(Rows), NEW n \in 0..Len(file')
    PROVE  Expected(n)' = [x \in KeysAfter(n)' |-> ValueAfter(x, n)']
<1>1. \A i \in 1..n : file'[i] \in Rows
  OBVIOUS
<1>2. \A x : RowsOf(x, n)' = {i \in 1..n : file'[i] = x}
  BY DEF RowsOf
<1>3. {file'[i] : i \in {j \in 1..n : file'[j] \in Keys}} = {x \in Keys : RowsOf(x, n)' # {}}
  BY <1>2
<1> QED BY <1>3 DEF Expected, KeysAfter, ValueAfter

\* One more row is read.
Reads(k) == file \in Seq(Rows) /\ k \in Rows /\ file' = Append(file, k)

LEMMA RowsStay ==
    ASSUME NEW k, Reads(k), NEW n \in 0..Len(file), NEW x
    PROVE  RowsOf(x, n)' = RowsOf(x, n)
<1>1. \A i \in 1..n : file'[i] = file[i]
  BY DEF Reads
<1> QED BY <1>1 DEF RowsOf

LEMMA RowsNext ==
    ASSUME NEW k, Reads(k), NEW n, n = Len(file), NEW x
    PROVE  /\ n \in Nat /\ file' \in Seq(Rows) /\ Len(file') = n + 1
           /\ RowsOf(x, n + 1)' = IF x = k THEN RowsOf(x, n) \cup {n + 1} ELSE RowsOf(x, n)
<1>1. n \in Nat /\ file' \in Seq(Rows) /\ Len(file') = n + 1
  BY DEF Reads
<1>2. file'[n + 1] = k /\ \A i \in 1..n : file'[i] = file[i]
  BY DEF Reads
<1> QED BY <1>1, <1>2 DEF RowsOf

LEMMA ExpectedStays ==
    ASSUME NEW k, Reads(k), NEW n \in 0..Len(file), UNCHANGED <<before, strategy>>
    PROVE  Expected(n)' = Expected(n)
<1>1. file' \in Seq(Rows) /\ n \in 0..Len(file')
  BY RowsNext DEF Reads
<1>2. KeysAfter(n)' = KeysAfter(n)
  BY RowsStay DEF KeysAfter
<1>3. \A x : ValueAfter(x, n)' = ValueAfter(x, n)
  BY RowsStay DEF ValueAfter
<1>4. Expected(n) = [x \in KeysAfter(n) |-> ValueAfter(x, n)]
  BY ExpectedIs DEF Reads
<1>5. Expected(n)' = [x \in KeysAfter(n)' |-> ValueAfter(x, n)']
  BY <1>1, NextExpectedIs
<1>6. Expected(n)' = [x \in KeysAfter(n) |-> ValueAfter(x, n)]
  BY ONLY <1>2, <1>3, <1>5
<1> QED BY ONLY <1>4, <1>6

\* The first row with a key: inclusion is well-founded on the finite sets 0..i.
LEMMA SomeFirst ==
    ASSUME NEW S \in SUBSET Nat, S # {}
    PROVE  \E i \in S : \A j \in S : i =< j
<1> DEFINE T == {0..i : i \in S}
<1>1. IsWellFoundedOn(StrictSubsetOrdering(Nat), FiniteSubsetsOf(Nat))
  BY FS_StrictSubsetOrderingWellFounded
<1>2. T \subseteq FiniteSubsetsOf(Nat) /\ T # {}
  <2>1. \A i \in S : IsFiniteSet(0..i) /\ 0..i \subseteq Nat
    BY FS_Interval
  <2> QED BY <2>1 DEF FiniteSubsetsOf
<1>3. \E x \in T : \A y \in T : ~(<<y, x>> \in StrictSubsetOrdering(Nat))
  <2> HIDE DEF T
  <2> QED BY ONLY <1>1, <1>2, WFMin
<1>4. PICK i \in S : \A y \in T : ~(<<y, 0..i>> \in StrictSubsetOrdering(Nat))
  BY <1>3
<1>5. ASSUME NEW j \in S PROVE i =< j
  <2>1. SUFFICES ASSUME j < i PROVE FALSE
    OBVIOUS
  <2>2. 0..j \subseteq Nat /\ 0..i \subseteq Nat /\ 0..j \subseteq 0..i /\ i \in 0..i /\ i \notin 0..j
    BY <2>1
  <2>3. <<0..j, 0..i>> \in StrictSubsetOrdering(Nat)
    BY <2>2 DEF StrictSubsetOrdering
  <2> QED BY <1>4, <2>3
<1> QED BY <1>5

\* A row without a key, or one with a key that is there and not overwritten.
LEMMA ExpectedSkips ==
    ASSUME NEW k, Reads(k), NEW n, n = Len(file), UNCHANGED <<before, strategy>>,
           DOMAIN before \subseteq Keys,
           k \notin Keys \/ (k \in DOMAIN Expected(n) /\ strategy # "overwrite")
    PROVE  Expected(n + 1)' = Expected(n)
<1>1. n \in Nat /\ file \in Seq(Rows) /\ file' \in Seq(Rows) /\ Len(file') = n + 1
  BY RowsNext DEF Reads
<1>2. \A x : RowsOf(x, n + 1)' = IF x = k THEN RowsOf(x, n) \cup {n + 1} ELSE RowsOf(x, n)
  BY RowsNext
<1>3. \A x : RowsOf(x, n) \subseteq 1..n
  BY <1>1, RowsOfIs
<1>4. Expected(n) = [x \in KeysAfter(n) |-> ValueAfter(x, n)]
  BY <1>1, ExpectedIs
<1>5. Expected(n + 1)' = [x \in KeysAfter(n + 1)' |-> ValueAfter(x, n + 1)']
  <2>1. n + 1 \in 0..Len(file')
    BY <1>1
  <2> QED BY <1>1, <2>1, NextExpectedIs
<1>6. KeysAfter(n + 1)' = KeysAfter(n)
  BY <1>2, <1>4, BadAssumption DEF KeysAfter
<1>7. ASSUME NEW x \in KeysAfter(n)
      PROVE  ValueAfter(x, n + 1)' = ValueAfter(x, n)
  <2>1. CASE x # k
    BY <1>2, <2>1 DEF ValueAfter
  <2>2. CASE x = k /\ strategy # "overwrite"
    <3>1. CASE x \in DOMAIN before
      BY <2>2, <3>1 DEF ValueAfter
    <3>2. CASE x \notin DOMAIN before
      <4>1. x \in Keys /\ RowsOf(x, n) # {}
        BY <3>2 DEF KeysAfter
      <4>2. PICK i \in RowsOf(x, n) : \A j \in RowsOf(x, n) : i =< j
        <5>1. RowsOf(x, n) \in SUBSET Nat
          BY <1>1, <1>3
        <5> QED BY <4>1, <5>1, SomeFirst
      <4>3. Min(RowsOf(x, n)) = i
        BY <1>1, <1>3, <4>2, MinIs
      <4>4. Min(RowsOf(x, n) \cup {n + 1}) = i
        <5>1. RowsOf(x, n) \cup {n + 1} \in SUBSET Nat /\ i \in RowsOf(x, n) \cup {n + 1}
          BY <1>1, <1>3
        <5>2. \A j \in RowsOf(x, n) \cup {n + 1} : i =< j
          BY <1>1, <1>3, <4>2
        <5> QED BY <5>1, <5>2, MinIs
      <4> QED BY <1>2, <2>2, <3>2, <4>3, <4>4 DEF ValueAfter
    <3> QED BY <3>1, <3>2
  <2>3. CASE x = k /\ strategy = "overwrite"
    <3>1. k \notin Keys /\ x \in Keys
      BY <2>3 DEF KeysAfter
    <3> QED BY <2>3, <3>1
  <2> QED BY <2>1, <2>2, <2>3
<1> QED BY <1>4, <1>5, <1>6, <1>7

\* A row with a key that is new or overwritten.
Taken(k, n) == [x \in DOMAIN Expected(n) \cup {k} |-> IF x = k THEN n + 1 ELSE Expected(n)[x]]

LEMMA ExpectedTakes ==
    ASSUME NEW k \in Keys, Reads(k), NEW n, n = Len(file), UNCHANGED <<before, strategy>>,
           strategy = "overwrite" \/ k \notin DOMAIN Expected(n)
    PROVE  Expected(n + 1)' = Taken(k, n)
<1>1. n \in Nat /\ file \in Seq(Rows) /\ file' \in Seq(Rows) /\ Len(file') = n + 1
  BY RowsNext DEF Reads
<1>2. \A x : RowsOf(x, n + 1)' = IF x = k THEN RowsOf(x, n) \cup {n + 1} ELSE RowsOf(x, n)
  BY RowsNext
<1>3. \A x : RowsOf(x, n) \subseteq 1..n
  BY <1>1, RowsOfIs
<1>4. Expected(n) = [x \in KeysAfter(n) |-> ValueAfter(x, n)]
  BY <1>1, ExpectedIs
<1>5. Expected(n + 1)' = [x \in KeysAfter(n + 1)' |-> ValueAfter(x, n + 1)']
  <2>1. n + 1 \in 0..Len(file')
    BY <1>1
  <2> QED BY <1>1, <2>1, NextExpectedIs
<1>6. KeysAfter(n + 1)' = KeysAfter(n) \cup {k}
  BY <1>2 DEF KeysAfter
<1>7. ValueAfter(k, n + 1)' = n + 1
  <2>1. CASE strategy = "overwrite"
    <3>1. RowsOf(k, n) \cup {n + 1} \in SUBSET Nat /\ \A j \in RowsOf(k, n) \cup {n + 1} : j =< n + 1
      BY <1>1, <1>3
    <3>2. Max(RowsOf(k, n) \cup {n + 1}) = n + 1
      BY <3>1, MaxIs
    <3> QED BY <1>2, <2>1, <3>2 DEF ValueAfter
  <2>2. CASE strategy # "overwrite"
    <3>1. k \notin DOMAIN before /\ RowsOf(k, n) = {}
      BY <1>4, <2>2 DEF KeysAfter
    <3>2. Min({n + 1}) = n + 1
      BY <1>1, MinIs
    <3> QED BY <1>2, <2>2, <3>1, <3>2 DEF ValueAfter
  <2> QED BY <2>1, <2>2
<1>8. \A x \in KeysAfter(n) \ {k} : ValueAfter(x, n + 1)' = ValueAfter(x, n)
  BY <1>2 DEF ValueAfter
<1>9. Expected(n + 1)' = [x \in KeysAfter(n) \cup {k} |-> ValueAfter(x, n + 1)']
  BY ONLY <1>5, <1>6
<1>10. DOMAIN Expected(n) = KeysAfter(n) /\ \A x \in KeysAfter(n) : Expected(n)[x] = ValueAfter(x, n)
  BY <1>4
<1> QED BY ONLY <1>7, <1>8, <1>9, <1>10 DEF Taken

-----------------------------------------------------------------------------
(* The inductive invariant. *)

\* Between transactions.
Settled == {"check", "begin", "final", "done"}

Placed ==
    /\ tx # "none" <=> pc \in {"row", "commit", "last"}
    /\ pc \in Settled => base = Len(file)
    /\ pc \in {"check", "begin", "row"} => batchRows < BatchSize
    /\ ~touched /\ pc \in {"begin", "row", "commit", "last", "final", "done"} => there
    /\ tx = "active" /\ ~there => work = NoRows

Counted ==
    /\ res.processed = Len(file)
    /\ res.processed = res.inserted + res.skipped + res.failed

\* The open transaction has the effect of all rows read, and differs from the
\* table in the keys of its own batch only.
WorkIsPrefix == tx = "active" /\ ~touched => work = Expected(Len(file))

Same(k, s, t) == (k \in DOMAIN s <=> k \in DOMAIN t) /\ (k \in DOMAIN s => s[k] = t[k])

OwnRows ==
    tx = "active" =>
        \A k \in Keys : (\E i \in (base + 1)..Len(file) : file[i] = k) \/ Same(k, stored, work)

\* The counts so far are true of the table t.
TrueOf(t) ==
    /\ strategy \in {"fail", "skip"} =>
          res.inserted = Cardinality(DOMAIN t) - Cardinality(DOMAIN before)
    /\ strategy # "fail" => res.failed = Cardinality(Failing(Len(file)))

CountsHold ==
    ~touched =>
        /\ tx = "active" => TrueOf(work)
        /\ pc \in Settled => TrueOf(stored)

CsvInv ==
    /\ TypeOK /\ Placed /\ Counted
    /\ StoredIsPrefix /\ WorkIsPrefix /\ OwnRows /\ CountsHold

LEMMA TablesIs ==
    ASSUME NEW t
    PROVE  t \in Tables <=> \E K \in SUBSET Keys : t \in [K -> 0..FileLen]
BY DEF Tables

LEMMA NoRowsIs == NoRows \in Tables
<1>1. NoRows \in [{} -> 0..FileLen]
  BY DEF NoRows
<1> QED BY <1>1, TablesIs

LEMMA TableIs ==
    ASSUME NEW t \in Tables
    PROVE  DOMAIN t \subseteq Keys /\ t \in [DOMAIN t -> 0..FileLen] /\ IsFiniteSet(DOMAIN t)
           /\ Cardinality(DOMAIN t) \in Nat
<1>1. DOMAIN t \subseteq Keys /\ t \in [DOMAIN t -> 0..FileLen]
  BY TablesIs
<1>2. IsFiniteSet(DOMAIN t)
  BY <1>1, KeysAssumption, FS_Subset
<1> QED BY <1>1, <1>2, FS_CardinalityType

\* One row stored in a table.
LEMMA StoreIs ==
    ASSUME NEW t \in Tables, NEW k \in Keys, NEW v \in 0..FileLen
    PROVE  [j \in DOMAIN t \cup {k} |-> IF j = k THEN v ELSE t[j]] \in Tables
<1>1. DOMAIN t \cup {k} \in SUBSET Keys
  BY TableIs
<1>2. [j \in DOMAIN t \cup {k} |-> IF j = k THEN v ELSE t[j]] \in [DOMAIN t \cup {k} -> 0..FileLen]
  BY TableIs
<1> QED BY <1>1, <1>2, TablesIs

LEMMA FailingIs ==
    ASSUME NEW n \in Nat
    PROVE  IsFiniteSet(Failing(n)) /\ n + 1 \notin Failing(n)
<1>1. Failing(n) \subseteq 1..n
  BY DEF Failing
<1>2. IsFiniteSet(1..n)
  BY FS_Interval
<1>3. IsFiniteSet(Failing(n))
  BY ONLY <1>1, <1>2, FS_Subset
<1> QED BY <1>1, <1>3

LEMMA ExpectedAtStart ==
    ASSUME NEW t \in Tables, file' = <<>>, before' = t
    PROVE  Expected(0)' = t /\ Failing(0)' = {}
<1>1. file' \in Seq(Rows) /\ 0 \in 0..Len(file') /\ Len(file') = 0
  OBVIOUS
<1>2. \A x : RowsOf(x, 0)' = {}
  BY DEF RowsOf
<1>3. Expected(0)' = [x \in KeysAfter(0)' |-> ValueAfter(x, 0)']
  BY <1>1, NextExpectedIs
<1>4. KeysAfter(0)' = DOMAIN t
  BY <1>2 DEF KeysAfter
<1>5. \A x \in DOMAIN t : ValueAfter(x, 0)' = t[x]
  BY <1>2 DEF ValueAfter
<1>6. Expected(0)' = [x \in DOMAIN t |-> t[x]]
  BY ONLY <1>3, <1>4, <1>5
<1>7. t = [x \in DOMAIN t |-> t[x]]
  BY TableIs
<1>8. Failing(0)' = {}
  BY DEF Failing
<1> QED BY <1>6, <1>7, <1>8

-----------------------------------------------------------------------------
(* The steps that leave table, file and result alone. *)

Places == {"idle", "check", "begin", "row", "commit", "last", "final", "done", "failed"}

LEMMA FrameStep ==
    ASSUME CsvInv, UNCHANGED <<table, call, progress, work, history>>,
           open' \in BOOLEAN, cancelled' \in BOOLEAN, pc' \in Places, tx' \in {"none", "active", "lost"},
           tx' = "active" => tx = "active", pc' \in Settled => pc \in Settled, Placed'
    PROVE  CsvInv'
<1>1. /\ there' = there /\ stored' = stored /\ file' = file /\ strategy' = strategy /\ before' = before
      /\ batchRows' = batchRows /\ res' = res /\ work' = work /\ base' = base /\ touched' = touched
  BY DEF table, call, progress, history
<1>2. TypeOK /\ Placed /\ Counted /\ StoredIsPrefix /\ WorkIsPrefix /\ OwnRows /\ CountsHold
  BY DEF CsvInv
<1>3. \A x, n : RowsOf(x, n)' = RowsOf(x, n) /\ Failing(n)' = Failing(n)
  BY <1>1 DEF RowsOf, Failing, OrIgnore
<1>4. \A n : Expected(n)' = Expected(n)
  BY <1>1, <1>3 DEF Expected
<1>5. TypeOK'
  BY <1>1, <1>2 DEF TypeOK, Places
<1>6. Counted'
  BY <1>1, <1>2, <1>3 DEF Counted
<1>7. StoredIsPrefix' /\ WorkIsPrefix'
  BY <1>1, <1>2, <1>4 DEF StoredIsPrefix, WorkIsPrefix
<1>8. OwnRows'
  BY <1>1, <1>2 DEF OwnRows, Same
<1>9. CountsHold'
  <2>1. \A t : TrueOf(t)' = TrueOf(t)
    BY <1>1, <1>3 DEF TrueOf
  <2>2. TrueOf(work') <=> TrueOf(work)
    BY <1>1
  <2> QED BY <1>1, <1>2, <1>3 DEF CountsHold, TrueOf
<1> QED BY <1>5, <1>6, <1>7, <1>8, <1>9 DEF CsvInv

LEMMA CheckStep == CsvInv /\ Check => CsvInv'
<1> SUFFICES ASSUME CsvInv, Check PROVE CsvInv'
  OBVIOUS
<1> USE DEF CsvInv, Check, Placed, TypeOK, table, call, progress, history
<1>1. Placed'
  BY DEF Settled
<1>2. pc' \in Places /\ tx' = tx /\ open' = open /\ cancelled' = cancelled /\ pc \in Settled
  BY DEF Places, Settled
<1> QED BY <1>1, <1>2, FrameStep

LEMMA BeginFailsStep == CsvInv /\ BeginFails => CsvInv'
<1> SUFFICES ASSUME CsvInv, BeginFails PROVE CsvInv'
  OBVIOUS
<1> USE DEF CsvInv, BeginFails, Placed, TypeOK, table, call, progress, history
<1>1. Placed'
  BY DEF Settled
<1>2. pc' \in Places /\ tx' = tx /\ open' = open /\ cancelled' = cancelled /\ pc \in Settled
  BY DEF Places, Settled
<1> QED BY <1>1, <1>2, FrameStep

LEMMA EndOfFileStep == CsvInv /\ EndOfFile => CsvInv'
<1> SUFFICES ASSUME CsvInv, EndOfFile PROVE CsvInv'
  OBVIOUS
<1> USE DEF CsvInv, EndOfFile, Placed, TypeOK, table, call, progress, history
<1>1. Placed'
  BY DEF Settled
<1>2. pc' \in Places /\ tx' = tx /\ open' = open /\ cancelled' = cancelled /\ pc' \notin Settled
  BY DEF Places, Settled
<1> QED BY <1>1, <1>2, FrameStep

LEMMA CommitFailsStep == CsvInv /\ CommitFails => CsvInv'
<1> SUFFICES ASSUME CsvInv, CommitFails PROVE CsvInv'
  OBVIOUS
<1> USE DEF CsvInv, CommitFails, Placed, TypeOK, table, call, progress, history
<1>1. Placed'
  BY DEF Settled
<1>2. pc' \in Places /\ tx' = "none" /\ open' = open /\ cancelled' = cancelled /\ pc' \notin Settled
  BY DEF Places, Settled
<1> QED BY <1>1, <1>2, FrameStep

LEMMA FinishStep == CsvInv /\ Finish => CsvInv'
<1> SUFFICES ASSUME CsvInv, Finish PROVE CsvInv'
  OBVIOUS
<1> USE DEF CsvInv, Finish, Placed, TypeOK, table, call, progress, history
<1>1. Placed'
  BY DEF Settled
<1>2. pc' \in Places /\ tx' = tx /\ open' = open /\ cancelled' = cancelled /\ pc \in Settled
  BY DEF Places, Settled
<1> QED BY <1>1, <1>2, FrameStep

LEMMA CancelStep == CsvInv /\ Cancel => CsvInv'
<1> SUFFICES ASSUME CsvInv, Cancel PROVE CsvInv'
  OBVIOUS
<1> USE DEF CsvInv, Cancel, Placed, TypeOK, table, call, progress, history
<1>1. Placed'
  BY DEF Settled
<1>2. pc' \in Places /\ pc' = pc /\ open' = open /\ cancelled' = TRUE
  BY DEF Places
<1>3. tx' \in {"none", "active", "lost"} /\ (tx' = "active" => tx = "active")
  OBVIOUS
<1> QED BY <1>1, <1>2, <1>3, FrameStep

LEMMA DetachStep == CsvInv /\ Detach => CsvInv'
<1> SUFFICES ASSUME CsvInv, Detach PROVE CsvInv'
  OBVIOUS
<1> USE DEF CsvInv, Detach, Placed, TypeOK, table, call, progress, history
<1>1. Placed'
  BY DEF Settled
<1>2. pc' \in Places /\ pc' = pc /\ tx' = tx /\ open' = FALSE /\ cancelled' = cancelled
  BY DEF Places
<1> QED BY <1>1, <1>2, FrameStep

LEMMA CrashStep == CsvInv /\ Crash => CsvInv'
<1> SUFFICES ASSUME CsvInv, Crash PROVE CsvInv'
  OBVIOUS
<1> USE DEF CsvInv, Crash, Placed, TypeOK, table, call, progress, history
<1>1. Placed'
  BY DEF Settled
<1>2. pc' \in Places /\ pc' \notin Settled /\ tx' = "none" /\ open' = open /\ cancelled' = cancelled
  BY DEF Places, Settled
<1> QED BY <1>1, <1>2, FrameStep

-----------------------------------------------------------------------------
(* The other steps. *)

LEMMA CsvStart == Init => CsvInv
<1> SUFFICES ASSUME Init PROVE CsvInv
  OBVIOUS
<1> USE DEF Init
<1>1. stored \in Tables /\ (~there => stored = NoRows)
  <2>1. CASE ~there
    BY <2>1, NoRowsIs
  <2>2. CASE there
    <3>1. PICK K \in SUBSET Keys : stored = [k \in K |-> 0]
      BY <2>2
    <3>2. stored \in [K -> 0..FileLen]
      BY <3>1, FileLenAssumption
    <3> QED BY <2>2, <3>2, TablesIs
  <2> QED BY <2>1, <2>2
<1>2. Len(file) = 0 /\ file \in Seq(Rows)
  OBVIOUS
<1>3. NoResult \in Results
  BY FileLenAssumption DEF NoResult, Results
<1>4. TypeOK
  <2>1. base \in 0..Len(file) /\ batchRows \in 0..BatchSize /\ Len(file) =< FileLen
    BY <1>2, FileLenAssumption, BatchSizeAssumption
  <2>2. there \in BOOLEAN /\ open \in BOOLEAN /\ cancelled \in BOOLEAN /\ touched \in BOOLEAN
    OBVIOUS
  <2>3. work \in Tables /\ before \in Tables /\ res \in Results
    BY <1>1, <1>3, NoRowsIs
  <2>4. file \in Seq(Rows) /\ strategy \in Strategies
    BY DEF Strategies
  <2> QED BY <1>1, <2>1, <2>2, <2>3, <2>4 DEF TypeOK
<1>5. Placed /\ Counted
  BY <1>2, BatchSizeAssumption DEF Placed, Counted, NoResult, Settled
<1>6. \A x : RowsOf(x, 0) = {}
  BY DEF RowsOf
<1>7. Expected(0) = before
  <2>1. Expected(0) = [x \in KeysAfter(0) |-> ValueAfter(x, 0)]
    BY <1>2, ExpectedIs
  <2>2. KeysAfter(0) = DOMAIN before /\ \A x \in DOMAIN before : ValueAfter(x, 0) = before[x]
    BY <1>6 DEF KeysAfter, ValueAfter
  <2>3. before = [x \in DOMAIN before |-> before[x]]
    BY <1>1, TableIs
  <2> QED BY ONLY <2>1, <2>2, <2>3
<1>8. StoredIsPrefix /\ WorkIsPrefix /\ OwnRows /\ CountsHold
  BY <1>7 DEF StoredIsPrefix, WorkIsPrefix, OwnRows, CountsHold, Settled
<1> QED BY <1>4, <1>5, <1>8 DEF CsvInv

LEMMA CallStep == CsvInv /\ Call => CsvInv'
<1> SUFFICES ASSUME CsvInv, Call PROVE CsvInv'
  OBVIOUS
<1> USE DEF Call
<1>1. TypeOK /\ Placed
  BY DEF CsvInv
<1>2. stored' \in Tables
  <2>1. DOMAIN stored \in SUBSET Keys
    BY <1>1, TableIs DEF TypeOK
  <2>2. stored' \in [DOMAIN stored -> 0..FileLen]
    BY FileLenAssumption
  <2> QED BY <2>1, <2>2, TablesIs
<1>3. ~there' => stored' = NoRows
  <2>1. stored = NoRows => stored' = NoRows
    BY DEF NoRows
  <2> QED BY <1>1, <2>1 DEF TypeOK
<1>4. Len(file') = 0 /\ file' \in Seq(Rows)
  OBVIOUS
<1>5. NoResult \in Results
  BY FileLenAssumption DEF NoResult, Results
<1>6. TypeOK'
  <2>1. base' \in 0..Len(file') /\ batchRows' \in 0..BatchSize /\ Len(file') =< FileLen
    BY <1>4, FileLenAssumption, BatchSizeAssumption
  <2>2. there' \in BOOLEAN /\ open' \in BOOLEAN /\ cancelled' \in BOOLEAN /\ touched' \in BOOLEAN
    BY <1>1 DEF TypeOK
  <2>3. work' \in Tables /\ before' \in Tables /\ res' \in Results /\ tx' \in {"none", "active", "lost"}
    BY <1>1, <1>2, <1>5 DEF TypeOK
  <2>4. file' \in Seq(Rows) /\ strategy' \in Strategies
    OBVIOUS
  <2> QED BY <1>2, <1>3, <2>1, <2>2, <2>3, <2>4 DEF TypeOK
<1>7. Placed' /\ Counted'
  BY <1>1, <1>4, BatchSizeAssumption DEF Placed, Counted, NoResult, Settled
<1>8. Expected(0)' = stored' /\ Failing(0)' = {}
  BY <1>2, ExpectedAtStart
<1>9. tx' = "none"
  BY <1>1 DEF Placed, TypeOK
<1>10. StoredIsPrefix' /\ WorkIsPrefix' /\ OwnRows'
  BY <1>8, <1>9 DEF StoredIsPrefix, WorkIsPrefix, OwnRows
<1>11. CountsHold'
  <2>1. Cardinality(DOMAIN stored') \in Nat /\ before' = stored'
    BY <1>2, TableIs
  <2>2. Cardinality(Failing(Len(file))') = 0
    BY <1>4, <1>8, FS_EmptySet
  <2> QED BY <1>9, <2>1, <2>2 DEF CountsHold, TrueOf, NoResult
<1> QED BY <1>6, <1>7, <1>8, <1>10, <1>11 DEF CsvInv

LEMMA BeginStep == CsvInv /\ Begin => CsvInv'
<1> SUFFICES ASSUME CsvInv, Begin PROVE CsvInv'
  OBVIOUS
<1> USE DEF Begin
<1>1. /\ there' = there /\ stored' = stored /\ file' = file /\ strategy' = strategy /\ before' = before
      /\ batchRows' = batchRows /\ res' = res /\ base' = base /\ touched' = touched
      /\ open' = open /\ cancelled' = cancelled
  BY DEF table, call, progress, history
<1>2. TypeOK /\ Placed /\ Counted /\ StoredIsPrefix /\ CountsHold
  BY DEF CsvInv
<1>3. \A x, n : RowsOf(x, n)' = RowsOf(x, n) /\ Failing(n)' = Failing(n)
  BY <1>1 DEF RowsOf, Failing, OrIgnore
<1>4. \A n : Expected(n)' = Expected(n)
  BY <1>1, <1>3 DEF Expected
<1>5. base = Len(file) /\ pc \in Settled
  BY <1>2 DEF Placed, Settled
<1>6. TypeOK'
  BY <1>1, <1>2 DEF TypeOK
<1>7. Placed'
  BY <1>1, <1>2 DEF Placed, Settled, TypeOK
<1>8. Counted'
  BY <1>1, <1>2, <1>3 DEF Counted
<1>9. StoredIsPrefix' /\ WorkIsPrefix'
  BY <1>1, <1>2, <1>4, <1>5 DEF StoredIsPrefix, WorkIsPrefix, Placed
<1>10. OwnRows'
  BY <1>1 DEF OwnRows, Same
<1>11. CountsHold'
  BY <1>1, <1>2, <1>3, <1>5 DEF CountsHold, TrueOf, Settled
<1> QED BY <1>6, <1>7, <1>8, <1>9, <1>10, <1>11 DEF CsvInv

LEMMA CommitStep == CsvInv /\ Commit => CsvInv'
<1> SUFFICES ASSUME CsvInv, Commit PROVE CsvInv'
  OBVIOUS
<1> USE DEF Commit
<1>1. /\ there' = there /\ file' = file /\ strategy' = strategy /\ before' = before
      /\ res' = res /\ touched' = touched /\ open' = open /\ cancelled' = cancelled
      /\ work' = work /\ stored' = work /\ base' = Len(file) /\ batchRows' = 0
  BY DEF call
<1>2. TypeOK /\ Placed /\ Counted /\ WorkIsPrefix /\ CountsHold
  BY DEF CsvInv
<1>3. \A x, n : RowsOf(x, n)' = RowsOf(x, n) /\ Failing(n)' = Failing(n)
  BY <1>1 DEF RowsOf, Failing, OrIgnore
<1>4. \A n : Expected(n)' = Expected(n)
  BY <1>1, <1>3 DEF Expected
<1>5. TypeOK'
  BY <1>1, <1>2, BatchSizeAssumption DEF TypeOK, Placed
<1>6. Placed'
  BY <1>1, <1>2, BatchSizeAssumption DEF Placed, Settled
<1>7. Counted'
  BY <1>1, <1>2, <1>3 DEF Counted
<1>8. StoredIsPrefix' /\ WorkIsPrefix' /\ OwnRows'
  BY <1>1, <1>2, <1>4 DEF StoredIsPrefix, WorkIsPrefix, OwnRows
<1>9. CountsHold'
  BY <1>1, <1>2, <1>3 DEF CountsHold, TrueOf
<1> QED BY <1>5, <1>6, <1>7, <1>8, <1>9 DEF CsvInv

LEMMA OtherWriteStep == CsvInv /\ OtherWrite => CsvInv'
<1> SUFFICES ASSUME CsvInv, OtherWrite PROVE CsvInv'
  OBVIOUS
<1> USE DEF OtherWrite
<1>1. /\ file' = file /\ strategy' = strategy /\ before' = before /\ pc' = pc /\ tx' = tx
      /\ batchRows' = batchRows /\ res' = res /\ work' = work /\ base' = base /\ touched'
      /\ open' = open /\ cancelled' = cancelled
  BY DEF call, progress
<1>2. TypeOK /\ Placed /\ Counted
  BY DEF CsvInv
<1>3. \A x, n : RowsOf(x, n)' = RowsOf(x, n) /\ Failing(n)' = Failing(n)
  BY <1>1 DEF RowsOf, Failing, OrIgnore
<1>4. there' \in BOOLEAN /\ stored' \in Tables /\ (~there' => stored' = NoRows)
  <2>1. CASE there' = ~there /\ stored' = NoRows
    BY <1>2, <2>1, NoRowsIs DEF TypeOK
  <2>2. ASSUME there, there' = there, NEW k \in Keys,
               stored' = [j \in DOMAIN stored \cup {k} |-> IF j = k THEN 0 ELSE stored[j]]
        PROVE  stored' \in Tables
    <3>1. stored \in Tables /\ 0 \in 0..FileLen
      BY <1>2, FileLenAssumption DEF TypeOK
    <3> QED BY ONLY <2>2, <3>1, StoreIs
  <2>3. ASSUME there, there' = there, NEW k \in Keys, stored' = [j \in DOMAIN stored \ {k} |-> stored[j]]
        PROVE  stored' \in Tables
    <3>1. DOMAIN stored \ {k} \in SUBSET Keys
      BY <1>2, TableIs DEF TypeOK
    <3>2. stored' \in [DOMAIN stored \ {k} -> 0..FileLen]
      BY <1>2, <2>3, TableIs DEF TypeOK
    <3> QED BY <3>1, <3>2, TablesIs
  <2> QED BY <1>2, <2>1, <2>2, <2>3 DEF TypeOK
<1>5. TypeOK'
  BY <1>1, <1>2, <1>4 DEF TypeOK
<1>6. tx # "active" /\ touched'
  OBVIOUS
<1>7. Placed'
  BY <1>1, <1>2, <1>6 DEF Placed
<1>8. Counted'
  BY <1>1, <1>2, <1>3 DEF Counted
<1>9. StoredIsPrefix' /\ WorkIsPrefix' /\ OwnRows' /\ CountsHold'
  BY <1>1, <1>6 DEF StoredIsPrefix, WorkIsPrefix, OwnRows, CountsHold
<1> QED BY <1>5, <1>7, <1>8, <1>9 DEF CsvInv

-----------------------------------------------------------------------------
(* The steps that read a row of the file. *)

\* What any of them leaves as it is.
LEMMA ReadStep ==
    ASSUME CsvInv, NEW k \in Rows, Read(k),
           UNCHANGED <<there, stored, strategy, before, base, touched>>
    PROVE  /\ Reads(k) /\ file' \in Seq(Rows) /\ Len(file') = Len(file) + 1 /\ Len(file') =< FileLen
           /\ base' \in 0..Len(file')
           /\ StoredIsPrefix'
           /\ \A i \in 1..Len(file) : file'[i] = file[i]
           /\ file'[Len(file) + 1] = k
<1>1. file \in Seq(Rows) /\ Len(file) \in Nat /\ base \in 0..Len(file) /\ Len(file) < FileLen
  BY DEF CsvInv, TypeOK, Rows, Read
<1>2. Reads(k)
  BY <1>1 DEF Reads, Read
<1>3. file' \in Seq(Rows) /\ Len(file') = Len(file) + 1 /\ Len(file') =< FileLen
  BY <1>1, FileLenAssumption DEF Read
<1>4. Expected(base)' = Expected(base)
  <2>1. PICK b \in 0..Len(file) : b = base
    BY <1>1
  <2>2. Expected(b)' = Expected(b)
    BY <1>2, <2>1, ExpectedStays
  <2>3. Expected(base)' = Expected(b)' /\ Expected(base) = Expected(b)
    BY <2>1 DEF Expected, RowsOf
  <2> QED BY <2>2, <2>3
<1>5. StoredIsPrefix'
  BY <1>4 DEF CsvInv, StoredIsPrefix
<1>6. (\A i \in 1..Len(file) : file'[i] = file[i]) /\ file'[Len(file) + 1] = k
  BY <1>1 DEF Read
<1> QED BY <1>1, <1>2, <1>3, <1>5, <1>6

LEMMA RowFailsStep == CsvInv /\ RowFails => CsvInv'
<1> SUFFICES ASSUME CsvInv, RowFails PROVE CsvInv'
  OBVIOUS
<1>1. PICK k \in Rows :
         /\ Read(k)
         /\ \/ tx = "lost" \/ ~there
            \/ k = Bad
            \/ k = Ignorable /\ ~OrIgnore
            \/ k \in DOMAIN work /\ strategy = "fail"
  BY DEF RowFails
<1>2. /\ pc = "row" /\ there' = there /\ stored' = stored /\ open' = open /\ cancelled' = cancelled
      /\ pc' = pc /\ strategy' = strategy /\ before' = before /\ tx' = tx /\ work' = work
      /\ batchRows' = batchRows /\ base' = base /\ touched' = touched
      /\ res' = [res EXCEPT !.processed = @ + 1, !.failed = @ + 1]
  BY DEF RowFails, table, history
<1>3. TypeOK /\ Placed /\ Counted /\ WorkIsPrefix /\ OwnRows /\ CountsHold
  BY DEF CsvInv
<1>4. /\ Reads(k) /\ file' \in Seq(Rows) /\ Len(file') = Len(file) + 1 /\ Len(file') =< FileLen
      /\ base' \in 0..Len(file') /\ StoredIsPrefix'
      /\ (\A i \in 1..Len(file) : file'[i] = file[i]) /\ file'[Len(file) + 1] = k
  BY <1>1, <1>2, ReadStep
<1>5. PICK n \in Nat : n = Len(file) /\ file \in Seq(Rows) /\ base \in 0..n
  BY <1>3 DEF TypeOK, Rows
<1>6. /\ res'.processed = res.processed + 1 /\ res'.inserted = res.inserted
      /\ res'.skipped = res.skipped /\ res'.failed = res.failed + 1
      /\ res.processed \in Nat /\ res.inserted \in Nat /\ res.skipped \in Nat /\ res.failed \in Nat
  BY <1>2, <1>3, FileLenAssumption DEF TypeOK, Results
<1>7. Counted'
  <2>1. res.processed = n /\ res.processed = res.inserted + res.skipped + res.failed
    BY <1>3, <1>5 DEF Counted
  <2>2. Len(file') = n + 1
    BY <1>4, <1>5
  <2>3. res'.processed = n + 1 /\ res'.processed = res'.inserted + res'.skipped + res'.failed
    BY ONLY <1>6, <2>1
  <2> QED BY ONLY <2>2, <2>3 DEF Counted
<1>8. res' \in Results
  <2>1. res'.processed = n + 1 /\ n + 1 =< FileLen
    BY <1>3, <1>4, <1>5, <1>6 DEF Counted
  <2>2. /\ res.processed + 1 \in 0..FileLen /\ res.failed + 1 \in 0..FileLen
    BY <1>3, <1>5, <1>6, <2>1, FileLenAssumption DEF Counted
  <2> QED BY <1>2, <1>3, <2>2 DEF TypeOK, Results
<1>9. TypeOK'
  <2>1. pc' \in Places /\ base' \in 0..Len(file') /\ file' \in Seq(Rows) /\ Len(file') =< FileLen
    BY <1>2, <1>4 DEF Places, Rows
  <2> QED BY <1>2, <1>3, <1>8, <2>1 DEF TypeOK, Places
<1>10. Placed'
  BY <1>2, <1>3 DEF Placed, Settled
<1>11. ASSUME tx = "active", ~touched
       PROVE  /\ there /\ work = Expected(n)
              /\ k = Bad \/ (k = Ignorable /\ ~OrIgnore) \/ (k \in DOMAIN Expected(n) /\ strategy = "fail")
  BY <1>1, <1>2, <1>3, <1>5, <1>11 DEF Placed, WorkIsPrefix
<1>12. WorkIsPrefix'
  <2> SUFFICES ASSUME tx = "active", ~touched PROVE work = Expected(n + 1)'
    BY <1>2, <1>4, <1>5 DEF WorkIsPrefix, Expected, RowsOf
  <2>1. DOMAIN before \subseteq Keys
    BY <1>3, TableIs DEF TypeOK
  <2>2. k \notin Keys \/ (k \in DOMAIN Expected(n) /\ strategy # "overwrite")
    BY <1>11, BadAssumption
  <2>3. Expected(n + 1)' = Expected(n)
    BY <1>2, <1>4, <1>5, <2>1, <2>2, ExpectedSkips
  <2> QED BY <1>11, <2>3
<1>13. OwnRows'
  <2> SUFFICES ASSUME tx = "active", NEW x \in Keys
               PROVE  (\E i \in (base + 1)..(n + 1) : file'[i] = x) \/ Same(x, stored, work)
    BY <1>2, <1>4, <1>5 DEF OwnRows, Same
  <2>1. (\E i \in (base + 1)..n : file[i] = x) \/ Same(x, stored, work)
    BY <1>3, <1>5 DEF OwnRows
  <2> QED BY <1>4, <1>5, <2>1
<1>14. CountsHold'
  <2> SUFFICES ASSUME tx = "active", ~touched PROVE TrueOf(work)'
    BY <1>2 DEF CountsHold, Settled
  <2>1. TrueOf(work)
    BY <1>3 DEF CountsHold
  <2>2. ASSUME strategy # "fail"
        PROVE  Cardinality(Failing(n + 1)') = res.failed + 1
    <3>1. k = Bad \/ (k = Ignorable /\ ~OrIgnore)
      BY <1>11, <2>2
    <3>2. Failing(n + 1)' = Failing(n) \cup {n + 1}
      BY <1>2, <1>4, <1>5, <3>1 DEF Failing, OrIgnore
    <3>3. IsFiniteSet(Failing(n)) /\ n + 1 \notin Failing(n)
      BY <1>5, FailingIs
    <3>4. Cardinality(Failing(n) \cup {n + 1}) = Cardinality(Failing(n)) + 1
      BY <3>3, FS_AddElement
    <3> QED BY <1>5, <2>1, <2>2, <3>2, <3>4 DEF TrueOf
  <2>3. Failing(Len(file))' = Failing(n + 1)'
    BY <1>4, <1>5 DEF Failing
  <2> QED BY <1>2, <1>6, <2>1, <2>2, <2>3 DEF TrueOf
<1> QED BY <1>4, <1>7, <1>9, <1>10, <1>12, <1>13, <1>14 DEF CsvInv

LEMMA RowTakenStep == CsvInv /\ RowTaken => CsvInv'
<1> SUFFICES ASSUME CsvInv, RowTaken PROVE CsvInv'
  OBVIOUS
<1>1. PICK k \in Keys \cup {Ignorable}, ignored \in BOOLEAN :
         /\ ignored = (OrIgnore /\ k \in DOMAIN work \cup {Ignorable})
         /\ Read(k) /\ (k = Ignorable => OrIgnore) /\ (strategy = "fail" => k \notin DOMAIN work)
         /\ Execute(IF ignored THEN work ELSE Written(k)) /\ res' = Tally(ignored)
  BY DEF RowTaken
<1>2. /\ pc = "row" /\ tx = "active" /\ there
      /\ there' = there /\ stored' = stored /\ open' = open /\ cancelled' = cancelled
      /\ strategy' = strategy /\ before' = before /\ tx' = tx /\ base' = base /\ touched' = touched
      /\ batchRows' = batchRows + 1 /\ pc' = IF batchRows' >= BatchSize THEN "commit" ELSE "row"
  BY <1>1 DEF RowTaken, Execute, history
<1>3. TypeOK /\ Placed /\ Counted /\ WorkIsPrefix /\ OwnRows /\ CountsHold
  BY DEF CsvInv
<1>4. k \in Rows /\ k # Bad /\ (~ignored => k \in Keys)
  BY <1>1, BadAssumption DEF Rows
<1>5. /\ Reads(k) /\ file' \in Seq(Rows) /\ Len(file') = Len(file) + 1 /\ Len(file') =< FileLen
      /\ base' \in 0..Len(file') /\ StoredIsPrefix'
      /\ (\A i \in 1..Len(file) : file'[i] = file[i]) /\ file'[Len(file) + 1] = k
  BY <1>1, <1>2, <1>4, ReadStep
<1>6. PICK n \in Nat : n = Len(file) /\ file \in Seq(Rows) /\ base \in 0..n
  BY <1>3 DEF TypeOK, Rows
<1>7. work' = IF ignored THEN work ELSE [j \in DOMAIN work \cup {k} |-> IF j = k THEN n + 1 ELSE work[j]]
  BY <1>1, <1>6 DEF Execute, Written
<1>8. /\ res'.processed = res.processed + 1 /\ res'.failed = res.failed
      /\ res'.inserted = IF ignored /\ strategy = "skip" THEN res.inserted ELSE res.inserted + 1
      /\ res'.skipped = IF ignored /\ strategy = "skip" THEN res.skipped + 1 ELSE res.skipped
      /\ res.processed \in Nat /\ res.inserted \in Nat /\ res.skipped \in Nat /\ res.failed \in Nat
  <2>1. res \in Results /\ res' = Tally(ignored)
    BY <1>1, <1>3 DEF TypeOK
  <2>2. CASE ignored /\ strategy = "skip"
    <3>1. res' = [res EXCEPT !.processed = @ + 1, !.skipped = @ + 1]
      BY ONLY <2>1, <2>2 DEF Tally
    <3>2. /\ res.processed \in Nat /\ res.inserted \in Nat /\ res.skipped \in Nat /\ res.failed \in Nat
      BY ONLY <2>1, FileLenAssumption DEF Results
    <3>3. /\ res'.processed = res.processed + 1 /\ res'.failed = res.failed
          /\ res'.inserted = res.inserted /\ res'.skipped = res.skipped + 1
      BY ONLY <2>1, <3>1 DEF Results
    <3> QED BY ONLY <2>2, <3>2, <3>3
  <2>3. CASE ~(ignored /\ strategy = "skip")
    <3>1. res' = [res EXCEPT !.processed = @ + 1, !.inserted = @ + 1]
      BY ONLY <2>1, <2>3 DEF Tally
    <3> QED BY ONLY <2>1, <2>3, <3>1, FileLenAssumption DEF Results
  <2> QED BY ONLY <2>2, <2>3
<1>9. /\ res.processed = n /\ res.processed = res.inserted + res.skipped + res.failed
      /\ res'.processed = n + 1 /\ res'.processed = res'.inserted + res'.skipped + res'.failed
  <2>1. res.processed = n /\ res.processed = res.inserted + res.skipped + res.failed
    BY <1>3, <1>6 DEF Counted
  <2> QED BY ONLY <1>8, <2>1
<1>10. Counted'
  BY <1>5, <1>6, <1>9 DEF Counted
<1>11. res' \in Results
  <2>1. n + 1 =< FileLen
    BY <1>5, <1>6
  <2>2. /\ res'.processed \in 0..FileLen /\ res'.inserted \in 0..FileLen
        /\ res'.skipped \in 0..FileLen /\ res'.failed \in 0..FileLen
    <3>1. res'.processed \in Nat /\ res'.failed \in Nat
      BY ONLY <1>8
    <3>2. res'.inserted \in Nat
      BY ONLY <1>8
    <3>3. res'.skipped \in Nat
      BY ONLY <1>8
    <3>4. PICK a \in Nat, b \in Nat, c \in Nat, m \in Nat :
             res'.inserted = a /\ res'.skipped = b /\ res'.failed = c /\ res'.processed = m
      BY ONLY <3>1, <3>2, <3>3
    <3>5. m = n + 1 /\ m = a + b + c
      BY ONLY <1>9, <3>4
    <3> QED BY ONLY <2>1, <3>4, <3>5, FileLenAssumption
  <2>3. res' \in [processed : Nat, inserted : Nat, skipped : Nat, failed : Nat]
    <3>1. res \in [processed : Nat, inserted : Nat, skipped : Nat, failed : Nat]
      BY <1>3, FileLenAssumption DEF TypeOK, Results
    <3>2. CASE ignored /\ strategy = "skip"
      <4>1. res' = [res EXCEPT !.processed = @ + 1, !.skipped = @ + 1]
        BY ONLY <1>1, <3>2 DEF Tally
      <4>2. res.processed + 1 \in Nat /\ res.skipped + 1 \in Nat /\ res.inserted + 1 \in Nat
        BY ONLY <1>8
      <4> QED BY ONLY <3>1, <4>1, <4>2
    <3>3. CASE ~(ignored /\ strategy = "skip")
      <4>1. res' = [res EXCEPT !.processed = @ + 1, !.inserted = @ + 1]
        BY ONLY <1>1, <3>3 DEF Tally
      <4>2. res.processed + 1 \in Nat /\ res.skipped + 1 \in Nat /\ res.inserted + 1 \in Nat
        BY ONLY <1>8
      <4> QED BY ONLY <3>1, <4>1, <4>2
    <3> QED BY ONLY <3>2, <3>3
  <2> QED BY ONLY <2>2, <2>3 DEF Results
<1>12. work' \in Tables
  <2>1. work \in Tables /\ n + 1 \in 0..FileLen
    BY <1>3, <1>5, <1>6 DEF TypeOK
  <2>2. k \in Keys => [j \in DOMAIN work \cup {k} |-> IF j = k THEN n + 1 ELSE work[j]] \in Tables
    BY ONLY <2>1, StoreIs
  <2> QED BY <1>4, <1>7, <2>1, <2>2
<1>13. batchRows' \in 1..BatchSize /\ (pc' = "row" => batchRows' < BatchSize) /\ pc' \in {"row", "commit"}
  BY <1>2, <1>3, BatchSizeAssumption DEF Placed, TypeOK
<1>14. TypeOK'
  <2>1. base' \in 0..Len(file') /\ file' \in Seq(Rows) /\ Len(file') =< FileLen
    BY <1>5 DEF Rows
  <2>2. batchRows' \in 0..BatchSize
    BY <1>13
  <2>3. there' \in BOOLEAN /\ open' \in BOOLEAN /\ cancelled' \in BOOLEAN /\ touched' \in BOOLEAN
    BY <1>2, <1>3 DEF TypeOK
  <2> QED BY <1>2, <1>3, <1>11, <1>12, <1>13, <2>1, <2>2, <2>3 DEF TypeOK
<1>15. Placed'
  BY <1>2, <1>3, <1>13 DEF Placed, Settled
<1>16. ASSUME ~touched
       PROVE  work = Expected(n)
  BY <1>2, <1>3, <1>6, <1>16 DEF WorkIsPrefix
<1>17. WorkIsPrefix'
  <2> SUFFICES ASSUME ~touched PROVE work' = Expected(n + 1)'
    BY <1>2, <1>5, <1>6 DEF WorkIsPrefix, Expected, RowsOf
  <2>1. DOMAIN before \subseteq Keys
    BY <1>3, TableIs DEF TypeOK
  <2>2. CASE ignored
    <3>1. k \notin Keys \/ (k \in DOMAIN Expected(n) /\ strategy # "overwrite")
      BY <1>1, <1>16, <2>2, BadAssumption DEF OrIgnore
    <3>2. Expected(n + 1)' = Expected(n)
      BY <1>2, <1>3, <1>4, <1>5, <1>6, <2>1, <3>1, ExpectedSkips
    <3> QED BY <1>7, <1>16, <2>2, <3>2
  <2>3. CASE ~ignored
    <3>1. strategy = "overwrite" \/ k \notin DOMAIN Expected(n)
      BY <1>1, <1>3, <1>16, <2>3 DEF TypeOK, Strategies, OrIgnore
    <3>2. Expected(n + 1)' = Taken(k, n)
      <4>1. k \in Keys /\ Reads(k) /\ n = Len(file)
        BY <1>4, <1>5, <1>6, <2>3
      <4>2. UNCHANGED <<before, strategy>>
        BY <1>2
      <4> QED BY ONLY <3>1, <4>1, <4>2, ExpectedTakes
    <3> QED BY <1>7, <1>16, <2>3, <3>2 DEF Taken
  <2> QED BY <2>2, <2>3
<1>18. OwnRows'
  <2> SUFFICES ASSUME NEW x \in Keys
               PROVE  (\E i \in (base + 1)..(n + 1) : file'[i] = x) \/ Same(x, stored, work')
    BY <1>2, <1>5, <1>6 DEF OwnRows, Same
  <2>1. (\E i \in (base + 1)..n : file[i] = x) \/ Same(x, stored, work)
    BY <1>2, <1>3, <1>6 DEF OwnRows
  <2>2. CASE x = k
    BY <1>5, <1>6, <2>2
  <2>3. CASE x # k
    <3>1. Same(x, work, work')
      BY <1>7, <2>3 DEF Same
    <3>2. Same(x, stored, work) => Same(x, stored, work')
      BY <3>1 DEF Same
    <3> QED BY <1>5, <1>6, <2>1, <3>2
  <2> QED BY <2>2, <2>3
<1>19. CountsHold'
  <2> SUFFICES ASSUME ~touched PROVE TrueOf(work)'
    BY <1>2, <1>13 DEF CountsHold, Settled
  <2>1. TrueOf(work)
    BY <1>2, <1>3 DEF CountsHold
  <2>2. ASSUME strategy \in {"fail", "skip"}
        PROVE  res'.inserted = Cardinality(DOMAIN work') - Cardinality(DOMAIN before)
    <3>1. res.inserted = Cardinality(DOMAIN work) - Cardinality(DOMAIN before)
      BY <2>1, <2>2 DEF TrueOf
    <3>2. /\ IsFiniteSet(DOMAIN work) /\ Cardinality(DOMAIN work) \in Nat
          /\ Cardinality(DOMAIN before) \in Nat
      BY <1>3, TableIs DEF TypeOK
    <3>3. CASE ignored
      BY <1>1, <1>7, <1>8, <2>2, <3>1, <3>3 DEF OrIgnore
    <3>4. CASE ~ignored
      <4>1. k \notin DOMAIN work
        BY <1>1, <1>4, <2>2, <3>4 DEF OrIgnore
      <4>2. Cardinality(DOMAIN work \cup {k}) = Cardinality(DOMAIN work) + 1
        BY <3>2, <4>1, FS_AddElement
      <4>3. DOMAIN work' = DOMAIN work \cup {k} /\ res'.inserted = res.inserted + 1
        BY <1>7, <1>8, <3>4
      <4> QED BY ONLY <3>1, <3>2, <4>2, <4>3
    <3> QED BY <3>3, <3>4
  <2>3. ASSUME strategy # "fail"
        PROVE  res'.failed = Cardinality(Failing(n + 1)')
    <3>1. file'[n + 1] # Bad /\ (file'[n + 1] = Ignorable => OrIgnore)
      BY <1>1, <1>4, <1>5, <1>6
    <3>2. Failing(n + 1)' = Failing(n)
      BY <1>2, <1>5, <1>6, <3>1 DEF Failing, OrIgnore
    <3> QED BY <1>6, <1>8, <2>1, <2>3, <3>2 DEF TrueOf
  <2>4. Failing(Len(file))' = Failing(n + 1)'
    BY <1>5, <1>6 DEF Failing
  <2> QED BY <1>2, <2>2, <2>3, <2>4 DEF TrueOf
<1> QED BY <1>5, <1>10, <1>14, <1>15, <1>17, <1>18, <1>19 DEF CsvInv

-----------------------------------------------------------------------------
(* The theorems. *)

LEMMA CsvStep == CsvInv /\ [Next]_vars => CsvInv'
<1> SUFFICES ASSUME CsvInv, [Next]_vars PROVE CsvInv'
  OBVIOUS
<1>1. CASE Next
  <2>1. CASE Call
    BY <2>1, CallStep
  <2>2. CASE Check
    BY <2>2, CheckStep
  <2>3. CASE Begin
    BY <2>3, BeginStep
  <2>4. CASE BeginFails
    BY <2>4, BeginFailsStep
  <2>5. CASE RowFails
    BY <2>5, RowFailsStep
  <2>6. CASE RowTaken
    BY <2>6, RowTakenStep
  <2>7. CASE EndOfFile
    BY <2>7, EndOfFileStep
  <2>8. CASE Commit
    BY <2>8, CommitStep
  <2>9. CASE CommitFails
    BY <2>9, CommitFailsStep
  <2>10. CASE Finish
    BY <2>10, FinishStep
  <2>11. CASE Cancel
    BY <2>11, CancelStep
  <2>12. CASE Detach
    BY <2>12, DetachStep
  <2>13. CASE Crash
    BY <2>13, CrashStep
  <2>14. CASE OtherWrite
    BY <2>14, OtherWriteStep
  <2> QED BY <1>1, <2>1, <2>2, <2>3, <2>4, <2>5, <2>6, <2>7, <2>8, <2>9, <2>10, <2>11, <2>12,
             <2>13, <2>14 DEF Next
<1>2. CASE UNCHANGED vars
  <2>1. /\ UNCHANGED <<table, call, progress, work, history>>
        /\ open' = open /\ cancelled' = cancelled /\ pc' = pc /\ tx' = tx
    BY <1>2 DEF vars
  <2>2. TypeOK /\ Placed
    BY DEF CsvInv
  <2>3. Placed'
    BY <2>1, <2>2 DEF Placed, table, call, progress, history
  <2>4. pc' \in Places /\ tx' \in {"none", "active", "lost"} /\ open' \in BOOLEAN /\ cancelled' \in BOOLEAN
    BY <2>1, <2>2 DEF TypeOK, Places
  <2> QED BY <2>1, <2>3, <2>4, FrameStep
<1> QED BY <1>1, <1>2

LEMMA CsvAlways == Spec => []CsvInv
BY CsvStart, CsvStep, PTL DEF Spec

\* For files and batches of any length, the table and the transaction's view of
\* it hold rows of the file or older ones, and no count exceeds the rows read.
THEOREM ImportTypes == Spec => []TypeOK
<1>1. CsvInv => TypeOK
  BY DEF CsvInv
<1> QED BY <1>1, CsvAlways, PTL

\* Wherever ImportCSV is stopped, the table holds the effect of a prefix of the
\* file that ends where a batch was committed.
THEOREM ImportStoresPrefix == Spec => []StoredIsPrefix
<1>1. CsvInv => StoredIsPrefix
  BY DEF CsvInv
<1> QED BY <1>1, CsvAlways, PTL

\* ImportCSV without an error has committed every row it counted, and unless
\* others wrote to the table its counts are those of the rows stored.
THEOREM ImportDoneIsTrue == Spec => []DoneIsTrue
<1>1. CsvInv => DoneIsTrue
  BY DEF CsvInv, DoneIsTrue, Placed, CountsHold, TrueOf, Settled
<1> QED BY <1>1, CsvAlways, PTL

\* A commit of ImportCSV changes the keys of its own batch and no others, so
\* what other requests wrote between two batches stays.
THEOREM ImportKeepsOthers == Spec => NoLostUpdate
<1>1. ASSUME CsvInv, Commit, NEW k \in Keys
      PROVE  \/ \E i \in (base + 1)..Len(file) : file[i] = k
             \/ /\ k \in DOMAIN stored <=> k \in DOMAIN stored'
                /\ k \in DOMAIN stored => stored[k] = stored'[k]
  BY <1>1 DEF CsvInv, OwnRows, Same, Commit
<1>2. CsvInv /\ [Next]_vars =>
         [Commit =>
            \A k \in Keys :
              \/ \E i \in (base + 1)..Len(file) : file[i] = k
              \/ /\ k \in DOMAIN stored <=> k \in DOMAIN stored'
                 /\ k \in DOMAIN stored => stored[k] = stored'[k]]_vars
  BY <1>1
<1> QED BY <1>2, CsvAlways, PTL DEF Spec, NoLostUpdate

=============================================================================
