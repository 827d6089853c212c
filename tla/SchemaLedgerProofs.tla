------------------------- MODULE SchemaLedgerProofs -------------------------
(***************************************************************************)
(* The migration ledger is an append-only record of the schema changes,    *)
(* complete up to failures, and the stored hash is explained, for any      *)
(* number of requests, tables and columns.                                 *)
(***************************************************************************)
EXTENDS SchemaLedger, FiniteSetTheorems, SequenceTheorems, TLAPS

Entered == {ledger[i] : i \in DOMAIN ledger}

Pending(c) == pc[c] = "ledger"

\* A change waits for its ledger row in one request only, and is not there yet.
Numbered ==
    /\ Entered \subseteq 1..ddls
    /\ \A c \in Clients : Pending(c) => task[c].op \in 1..ddls \ Entered
    /\ \A c, d \in Clients : Pending(c) /\ Pending(d) /\ c # d => task[c].op # task[d].op

\* What a request has read of the schema: nothing yet, or part of it, or all.
\* Unless the schema changed meanwhile, it is as read.
ReadingOf(c) ==
    /\ pc[c] \in {"idle", "ledger", "list"} =>
          ~task[c].torn /\ task[c].got = NoTables
    /\ pc[c] = "columns" /\ ~task[c].torn =>
          /\ DOMAIN task[c].got \cup task[c].todo = DOMAIN shape
          /\ DOMAIN task[c].got \cap task[c].todo = {}
          /\ \A t \in DOMAIN task[c].got : task[c].got[t] = shape[t]
    /\ pc[c] \in {"compare", "store"} /\ ~task[c].torn => task[c].got = shape
    /\ pc[c] = "compare" => task[c].op = 0

Reading == \A c \in Clients : ReadingOf(c)

LedgerInv == TypeOK /\ Numbered /\ Reading /\ HashHasCause /\ EveryDdlLedgered

----------------------------------------------------------------------------
(* Schemas. *)

Shaped == {s \in Schemas : \A t \in DOMAIN s : s[t] # {}}

LEMMA SchemaIs ==
    ASSUME NEW s \in Schemas
    PROVE  /\ DOMAIN s \subseteq Tables
           /\ s = [t \in DOMAIN s |-> s[t]]
           /\ \A t \in DOMAIN s : s[t] \subseteq Columns
  BY DEF Schemas

LEMMA IsSchema ==
    ASSUME NEW S \in SUBSET Tables, NEW s \in [S -> SUBSET Columns]
    PROVE  s \in Schemas
  BY DEF Schemas

LEMMA WithIs ==
    ASSUME NEW s \in Schemas, NEW t \in Tables, NEW cols \in SUBSET Columns
    PROVE  /\ With(s, t, cols) \in Schemas
           /\ DOMAIN With(s, t, cols) = DOMAIN s \cup {t}
           /\ \A u \in DOMAIN s \cup {t} : With(s, t, cols)[u] = IF u = t THEN cols ELSE s[u]
<1>1. With(s, t, cols) \in [DOMAIN s \cup {t} -> SUBSET Columns]
  BY SchemaIs DEF With
<1>2. DOMAIN s \cup {t} \in SUBSET Tables
  BY SchemaIs
<1> QED
  BY <1>1, <1>2, IsSchema DEF With

LEMMA WithoutIs ==
    ASSUME NEW s \in Schemas, NEW t
    PROVE  /\ Without(s, t) \in Schemas
           /\ DOMAIN Without(s, t) = DOMAIN s \ {t}
           /\ \A u \in DOMAIN s \ {t} : Without(s, t)[u] = s[u]
<1>1. Without(s, t) \in [DOMAIN s \ {t} -> SUBSET Columns]
  BY SchemaIs DEF Without
<1>2. DOMAIN s \ {t} \in SUBSET Tables
  BY SchemaIs
<1> QED
  BY <1>1, <1>2, IsSchema DEF Without

LEMMA ExceptIs ==
    ASSUME NEW s \in Shaped, NEW t \in DOMAIN s, NEW cols \in SUBSET Columns, cols # {}
    PROVE  [s EXCEPT ![t] = cols] \in Shaped
<1>1. s \in Schemas
  BY DEF Shaped
<1>2. [s EXCEPT ![t] = cols] \in [DOMAIN s -> SUBSET Columns]
  BY <1>1, SchemaIs
<1>3. DOMAIN s \in SUBSET Tables
  BY <1>1, SchemaIs
<1> QED
  BY <1>2, <1>3, IsSchema DEF Shaped

\* Every schema change of the API leaves each table at least one column.
LEMMA ResultsAreShaped ==
    ASSUME NEW s \in Shaped, NEW r \in Results(s)
    PROVE  r \in Shaped
<1>s. s \in Schemas /\ \A t \in DOMAIN s : s[t] # {} /\ s[t] \subseteq Columns
  BY SchemaIs DEF Shaped
<1>t. DOMAIN s \subseteq Tables
  BY <1>s, SchemaIs
<1>1. CASE r \in Create(s)
  <2>1. PICK t \in Tables \ DOMAIN s, cols \in NonEmpty : r = With(s, t, cols)
    BY <1>1 DEF Create
  <2>2. cols \in SUBSET Columns /\ cols # {} /\ t \in Tables
    BY <2>1 DEF NonEmpty
  <2>w. /\ With(s, t, cols) \in Schemas
        /\ DOMAIN With(s, t, cols) = DOMAIN s \cup {t}
        /\ \A u \in DOMAIN s \cup {t} : With(s, t, cols)[u] = IF u = t THEN cols ELSE s[u]
    BY <1>s, <2>2, WithIs
  <2>3. /\ r \in Schemas
        /\ DOMAIN r = DOMAIN s \cup {t}
        /\ \A u \in DOMAIN r : r[u] = IF u = t THEN cols ELSE s[u]
    BY <2>1, <2>w
  <2> QED
    BY <1>s, <2>2, <2>3 DEF Shaped
<1>2. CASE r \in AddColumn(s)
  <2>1. PICK t \in DOMAIN s, col \in Columns : r = [s EXCEPT ![t] = @ \cup {col}]
    BY <1>2 DEF AddColumn
  <2>2. s[t] \cup {col} \in SUBSET Columns /\ s[t] \cup {col} # {}
    BY <1>s
  <2> QED
    BY <2>1, <2>2, ExceptIs
<1>3. CASE r \in DropColumn(s)
  <2>1. PICK t \in DOMAIN s :
            \E col \in s[t] : r = [s EXCEPT ![t] = @ \ {col}] /\ s[t] # {col}
    BY <1>3 DEF DropColumn
  <2>p. PICK col \in s[t] : r = [s EXCEPT ![t] = @ \ {col}] /\ s[t] # {col}
    BY <2>1
  <2>2. s[t] \ {col} \in SUBSET Columns /\ s[t] \ {col} # {}
    BY <1>s, <2>p
  <2> QED
    BY <2>p, <2>2, ExceptIs
<1>4. CASE r \in RenameColumn(s)
  <2>1. PICK t \in DOMAIN s :
            \E old \in s[t], new \in Columns : r = [s EXCEPT ![t] = (@ \ {old}) \cup {new}]
    BY <1>4 DEF RenameColumn
  <2>p. PICK old \in s[t], new \in Columns : r = [s EXCEPT ![t] = (@ \ {old}) \cup {new}]
    BY <2>1
  <2>2. (s[t] \ {old}) \cup {new} \in SUBSET Columns /\ (s[t] \ {old}) \cup {new} # {}
    BY <1>s
  <2> QED
    BY <2>p, <2>2, ExceptIs
<1>5. CASE r \in DropTable(s)
  <2>1. PICK t \in DOMAIN s : r = Without(s, t)
    BY <1>5 DEF DropTable
  <2>2. r \in Schemas /\ DOMAIN r = DOMAIN s \ {t} /\ \A u \in DOMAIN s \ {t} : r[u] = s[u]
    BY <1>s, <2>1, WithoutIs
  <2> QED
    BY <1>s, <2>2 DEF Shaped
<1>6. CASE r \in RenameTable(s)
  <2>1. PICK old \in DOMAIN s, new \in Tables \ DOMAIN s : r = With(Without(s, old), new, s[old])
    BY <1>6 DEF RenameTable
  <2>2. /\ Without(s, old) \in Schemas
        /\ DOMAIN Without(s, old) = DOMAIN s \ {old}
        /\ \A u \in DOMAIN s \ {old} : Without(s, old)[u] = s[u]
    BY <1>s, WithoutIs
  <2>3. s[old] \in SUBSET Columns /\ s[old] # {}
    BY <1>s
  <2>4. /\ r \in Schemas
        /\ DOMAIN r = (DOMAIN s \ {old}) \cup {new}
        /\ \A u \in DOMAIN r : r[u] = IF u = new THEN s[old] ELSE Without(s, old)[u]
    BY <2>1, <2>2, <2>3, WithIs
  <2> QED
    BY <1>s, <2>2, <2>3, <2>4 DEF Shaped
<1>7. CASE r \in IndexDdl(s)
  BY <1>7 DEF IndexDdl
<1> QED
  BY <1>1, <1>2, <1>3, <1>4, <1>5, <1>6, <1>7 DEF Results

LEMMA SameSchema ==
    ASSUME NEW s \in Schemas, NEW r \in Schemas, DOMAIN s = DOMAIN r, \A t \in DOMAIN s : s[t] = r[t]
    PROVE  s = r
<1>1. s = [t \in DOMAIN s |-> s[t]] /\ r = [t \in DOMAIN r |-> r[t]]
  BY SchemaIs
<1> QED
  BY <1>1

LEMMA NoTablesIs == NoTables \in Shaped /\ DOMAIN NoTables = {}
<1>1. NoTables \in [{} -> SUBSET Columns]
  BY DEF NoTables
<1> QED
  BY <1>1, IsSchema DEF NoTables, Shaped

LEMMA NoTaskType == NoTask \in Tasks
  BY NoTablesIs, BoundsAssumption DEF NoTask, Tasks, Shaped

----------------------------------------------------------------------------
(* The parts of the invariant that most steps leave alone. *)

LEMMA TypeFacts ==
    ASSUME TypeOK
    PROVE  /\ shape \in Schemas
           /\ DOMAIN shape \subseteq Tables
           /\ ddls \in Nat /\ MaxDdls \in Nat
           /\ \A c \in Clients : /\ pc[c] \in {"idle", "ledger", "list", "columns", "compare", "store"}
                                 /\ task[c] \in Tasks
                                 /\ task[c].op \in 0..MaxDdls
                                 /\ task[c].todo \subseteq Tables
                                 /\ task[c].got \in Schemas
                                 /\ task[c].torn \in BOOLEAN
  BY SchemaIs, BoundsAssumption DEF TypeOK, Tasks

LEMMA TearIs ==
    ASSUME TypeOK
    PROVE  /\ Tear(task) \in [Clients -> Tasks]
           /\ \A c \in Clients :
                 /\ Tear(task)[c].op = task[c].op
                 /\ Tear(task)[c].todo = task[c].todo
                 /\ Tear(task)[c].got = task[c].got
                 /\ Tear(task)[c].torn = (task[c].torn \/ pc[c] \in {"columns", "compare", "store"})
<1>1. ASSUME NEW c \in Clients
      PROVE  /\ Tear(task)[c] \in Tasks
             /\ Tear(task)[c].op = task[c].op
             /\ Tear(task)[c].todo = task[c].todo
             /\ Tear(task)[c].got = task[c].got
             /\ Tear(task)[c].torn = (task[c].torn \/ pc[c] \in {"columns", "compare", "store"})
  <2>1. Tear(task)[c] = [task[c] EXCEPT !.torn = task[c].torn \/ pc[c] \in {"columns", "compare", "store"}]
    BY DEF Tear
  <2>2. task[c] \in Tasks
    BY TypeFacts
  <2>3. (task[c].torn \/ pc[c] \in {"columns", "compare", "store"}) \in BOOLEAN
    OBVIOUS
  <2> QED
    BY <2>1, <2>2, <2>3 DEF Tasks
<1> QED
  BY <1>1 DEF Tear

\* The ledger grows at its end.
LEMMA AppendIs ==
    ASSUME TypeOK, NEW n \in 1..MaxDdls, ledger' = Append(ledger, n)
    PROVE  /\ ledger' \in Seq(1..MaxDdls)
           /\ Entered' = Entered \cup {n}
           /\ \A i \in DOMAIN ledger : i \in DOMAIN ledger' /\ ledger'[i] = ledger[i]
<1>1. ledger \in Seq(1..MaxDdls)
  BY DEF TypeOK
<1>2. /\ Len(ledger') = Len(ledger) + 1
      /\ \A i \in 1..Len(ledger) : ledger'[i] = ledger[i]
      /\ ledger'[Len(ledger) + 1] = n
      /\ ledger' \in Seq(1..MaxDdls)
  BY <1>1, AppendProperties
<1>3. DOMAIN ledger = 1..Len(ledger) /\ DOMAIN ledger' = 1..(Len(ledger) + 1) /\ Len(ledger) \in Nat
  BY <1>1, <1>2, LenProperties
<1> QED
  BY <1>2, <1>3 DEF Entered

\* A step of one request that changes neither the schema nor the ledger, and
\* does not go to its ledger row.
LEMMA KeepsNumbers ==
    ASSUME TypeOK, Numbered, NEW c \in Clients,
           UNCHANGED <<ddls, ledger>>,
           \A d \in Clients \ {c} : pc'[d] = pc[d] /\ task'[d].op = task[d].op,
           pc'[c] # "ledger"
    PROVE  Numbered'
<1>1. Entered' = Entered
  BY DEF Entered
<1>2. \A d \in Clients : Pending(d)' => d # c /\ Pending(d) /\ task'[d].op = task[d].op
  BY DEF Pending
<1> QED
  BY <1>1, <1>2 DEF Numbered

LEMMA KeepsEntries ==
    ASSUME EveryDdlLedgered, NEW c \in Clients,
           UNCHANGED <<ddls, ledger>>,
           missed \subseteq missed',
           \A d \in Clients \ {c} : pc'[d] = pc[d] /\ task'[d].op = task[d].op,
           pc[c] = "ledger" => task[c].op \in missed'
    PROVE  EveryDdlLedgered'
<1> SUFFICES ASSUME NEW n \in 1..ddls
             PROVE  \/ \E i \in DOMAIN ledger : ledger[i] = n
                    \/ \E d \in Clients : pc'[d] = "ledger" /\ task'[d].op = n
                    \/ n \in missed'
  BY DEF EveryDdlLedgered
<1>1. CASE \E i \in DOMAIN ledger : ledger[i] = n
  BY <1>1
<1>2. CASE \E d \in Clients : pc[d] = "ledger" /\ task[d].op = n
  BY <1>2
<1>3. CASE n \in missed
  BY <1>3
<1> QED
  BY <1>1, <1>2, <1>3 DEF EveryDdlLedgered

LEMMA KeepsReading ==
    ASSUME TypeOK, Reading, NEW c \in Clients, UNCHANGED shape,
           \A d \in Clients \ {c} : pc'[d] = pc[d] /\ task'[d] = task[d],
           ReadingOf(c)'
    PROVE  Reading'
<1>1. ASSUME NEW d \in Clients, d # c PROVE ReadingOf(d)'
  <2>1. ReadingOf(d)
    BY DEF Reading
  <2>2. pc'[d] = pc[d] /\ task'[d] = task[d]
    BY <1>1
  <2> QED
    BY <2>1, <2>2 DEF ReadingOf
<1> QED
  BY <1>1 DEF Reading

\* A request that goes on with what it has read keeps the hash explained.
LEMMA KeepsCause ==
    ASSUME TypeOK, HashHasCause, NEW c \in Clients, UNCHANGED <<shape, stored, blamed>>,
           \A d \in Clients \ {c} : pc'[d] = pc[d] /\ task'[d] = task[d],
           StoreDue(c) => StoreDue(c)'
    PROVE  HashHasCause'
<1>1. ASSUME NEW d \in Clients, StoreDue(d) PROVE StoreDue(d)'
  BY <1>1 DEF StoreDue
<1> QED
  BY <1>1 DEF HashHasCause

----------------------------------------------------------------------------

LEMMA LedgerInit == Init => LedgerInv
<1> SUFFICES ASSUME Init PROVE LedgerInv
  OBVIOUS
<1>1. ddls = 0 /\ ledger = <<>> /\ DOMAIN ledger = {} /\ 1..ddls = {}
  BY DEF Init
<1>2. TypeOK
  <2>1. shape \in Schemas /\ \A t \in DOMAIN shape : shape[t] # {}
    BY NoTablesIs DEF Init, Shaped
  <2>2. stored \subseteq Schemas /\ Cardinality(stored) =< 1
    BY FS_EmptySet DEF Init
  <2>3. ledger \in Seq(1..MaxDdls)
    BY <1>1, EmptySeq
  <2>4. ddls \in 0..MaxDdls /\ raws \in 0..MaxRaw
    BY BoundsAssumption DEF Init
  <2>5. task \in [Clients -> Tasks]
    BY NoTaskType DEF Init
  <2>6. /\ pc \in [Clients -> {"idle", "ledger", "list", "columns", "compare", "store"}]
        /\ missed \subseteq 1..ddls /\ blamed \in BOOLEAN
    BY DEF Init
  <2> QED
    BY <2>1, <2>2, <2>3, <2>4, <2>5, <2>6 DEF TypeOK
<1>3. Numbered
  BY <1>1 DEF Init, Numbered, Entered, Pending
<1>4. Reading
  BY DEF Init, Reading, ReadingOf, NoTask
<1>5. HashHasCause
  BY DEF Init, HashHasCause
<1>6. EveryDdlLedgered
  BY <1>1 DEF EveryDdlLedgered
<1> QED
  BY <1>2, <1>3, <1>4, <1>5, <1>6 DEF LedgerInv

----------------------------------------------------------------------------
(* One lemma per action. *)

LEMMA ApplyStep ==
    ASSUME LedgerInv, NEW c \in Clients, Apply(c)
    PROVE  LedgerInv'
<1>i. TypeOK /\ Numbered /\ Reading /\ HashHasCause /\ EveryDdlLedgered
  BY DEF LedgerInv
<1>a. /\ pc[c] = "idle" /\ ddls < MaxDdls
      /\ shape' \in Results(shape) /\ ddls' = ddls + 1
      /\ pc' = [pc EXCEPT ![c] = "ledger"]
      /\ UNCHANGED <<raws, ledger, missed, stored, blamed>>
  BY DEF Apply, Goto, hash
<1>f. /\ ddls \in Nat /\ MaxDdls \in Nat
      /\ pc \in [Clients -> {"idle", "ledger", "list", "columns", "compare", "store"}]
  BY <1>i, TypeFacts DEF TypeOK
<1>p. pc'[c] = "ledger" /\ \A d \in Clients \ {c} : pc'[d] = pc[d]
  BY <1>a, <1>f
<1>o. ddls + 1 \in 0..MaxDdls
  BY <1>a, <1>f
<1>k. /\ task' \in [Clients -> Tasks]
      /\ task'[c].op = ddls + 1
      /\ \A d \in Clients :
            /\ d # c => task'[d].op = task[d].op
            /\ task'[d].todo = task[d].todo
            /\ task'[d].got = task[d].got
            /\ task'[d].torn =
                  (task[d].torn \/ (shape' # shape /\ pc[d] \in {"columns", "compare", "store"}))
  <2>1. CASE shape' = shape
    <3>1. task' = [task EXCEPT ![c].op = ddls + 1]
      BY <2>1 DEF Apply
    <3>2. task \in [Clients -> Tasks]
      BY <1>i DEF TypeOK
    <3>3. \A d \in Clients : task[d].torn \in BOOLEAN
      BY <3>2 DEF Tasks
    <3> QED
      BY <2>1, <3>1, <3>2, <3>3, <1>o DEF Tasks
  <2>2. CASE shape' # shape
    <3>1. task' = [Tear(task) EXCEPT ![c].op = ddls + 1]
      BY <2>2 DEF Apply
    <3>2. /\ Tear(task) \in [Clients -> Tasks]
          /\ \A d \in Clients :
                /\ Tear(task)[d].op = task[d].op
                /\ Tear(task)[d].todo = task[d].todo
                /\ Tear(task)[d].got = task[d].got
                /\ Tear(task)[d].torn = (task[d].torn \/ pc[d] \in {"columns", "compare", "store"})
      BY <1>i, TearIs
    <3>3. /\ task' \in [Clients -> Tasks]
          /\ task'[c].op = ddls + 1
          /\ \A d \in Clients :
                /\ d # c => task'[d].op = Tear(task)[d].op
                /\ task'[d].todo = Tear(task)[d].todo
                /\ task'[d].got = Tear(task)[d].got
                /\ task'[d].torn = Tear(task)[d].torn
      BY <3>1, <3>2, <1>o DEF Tasks
    <3> QED
      BY <2>2, <3>2, <3>3
  <2> QED
    BY <2>1, <2>2
<1>1. TypeOK'
  <2>1. shape \in Shaped
    BY <1>i DEF TypeOK, Shaped
  <2>2. shape' \in Schemas /\ \A t \in DOMAIN shape' : shape'[t] # {}
    BY <1>a, <2>1, ResultsAreShaped DEF Shaped
  <2>3. ddls' \in 0..MaxDdls /\ missed' \subseteq 1..ddls'
    BY <1>a, <1>i, <1>f DEF TypeOK
  <2>4. pc' \in [Clients -> {"idle", "ledger", "list", "columns", "compare", "store"}]
    BY <1>a, <1>f
  <2> QED
    BY <1>a, <1>i, <1>k, <2>2, <2>3, <2>4 DEF TypeOK
<1>2. Numbered'
  <2>1. Entered' = Entered /\ Entered \subseteq 1..ddls
    BY <1>a, <1>i DEF Entered, Numbered
  <2>2. ddls + 1 \in 1..ddls' \ Entered
    BY <1>a, <1>f, <2>1
  <2>3. ASSUME NEW d \in Clients, d # c, Pending(d)'
        PROVE  Pending(d) /\ task'[d].op = task[d].op /\ task[d].op \in 1..ddls \ Entered
    BY <1>i, <1>p, <1>k, <2>3 DEF Pending, Numbered
  <2>4. \A d \in Clients \ {c} : Pending(d)' => task'[d].op \in 1..ddls' \ Entered /\ task'[d].op # ddls + 1
    BY <1>a, <1>f, <2>3
  <2>5. \A d, e \in Clients \ {c} : Pending(d)' /\ Pending(e)' /\ d # e => task'[d].op # task'[e].op
    BY <1>i, <2>3 DEF Numbered
  <2>6. Entered' \subseteq 1..ddls'
    BY <1>a, <1>f, <2>1
  <2> QED
    BY <1>k, <2>1, <2>2, <2>4, <2>5, <2>6 DEF Numbered
<1>3. Reading'
  <2>1. ASSUME NEW d \in Clients PROVE ReadingOf(d)'
    <3>1. ReadingOf(d)
      BY <1>i DEF Reading
    <3>2. CASE d = c
      BY <3>1, <3>2, <1>a, <1>p, <1>k DEF ReadingOf
    <3>3. CASE d # c
      <4>1. /\ pc'[d] = pc[d] /\ task'[d].op = task[d].op
            /\ task'[d].todo = task[d].todo /\ task'[d].got = task[d].got
        BY <3>3, <1>p, <1>k
      <4>2. CASE shape' = shape
        BY <3>1, <4>1, <4>2, <1>k DEF ReadingOf
      <4>3. CASE shape' # shape
        BY <3>1, <4>1, <4>3, <1>k DEF ReadingOf
      <4> QED
        BY <4>2, <4>3
    <3> QED
      BY <3>2, <3>3
  <2> QED
    BY <2>1 DEF Reading
<1>4. HashHasCause'
  <2>0. ~task[c].torn
    BY <1>i, <1>a DEF Reading, ReadingOf
  <2>1. ~task'[c].torn
    BY <2>0, <1>a, <1>k
  <2>2. task'[c].op # 0
    BY <1>f, <1>k
  <2> QED
    BY <2>1, <2>2, <1>p DEF HashHasCause, StoreDue
<1>5. EveryDdlLedgered'
  <2> SUFFICES ASSUME NEW n \in 1..(ddls + 1)
               PROVE  \/ \E i \in DOMAIN ledger : ledger[i] = n
                      \/ \E d \in Clients : pc'[d] = "ledger" /\ task'[d].op = n
                      \/ n \in missed
    BY <1>a DEF EveryDdlLedgered
  <2>1. CASE n = ddls + 1
    BY <2>1, <1>p, <1>k
  <2>2. CASE n # ddls + 1
    <3>1. n \in 1..ddls
      BY <2>2, <1>f
    <3>2. \A d \in Clients : pc[d] = "ledger" => pc'[d] = "ledger" /\ task'[d].op = task[d].op
      BY <1>a, <1>p, <1>k
    <3> QED
      BY <3>1, <3>2, <1>i DEF EveryDdlLedgered
  <2> QED
    BY <2>1, <2>2
<1> QED
  BY <1>1, <1>2, <1>3, <1>4, <1>5 DEF LedgerInv

LEMMA RecordStep ==
    ASSUME LedgerInv, NEW c \in Clients, Record(c)
    PROVE  LedgerInv'
<1>i. TypeOK /\ Numbered /\ Reading /\ HashHasCause /\ EveryDdlLedgered
  BY DEF LedgerInv
<1>a. /\ pc[c] = "ledger"
      /\ ledger' = Append(ledger, task[c].op)
      /\ pc' = [pc EXCEPT ![c] = "list"]
      /\ UNCHANGED <<shape, ddls, raws, missed, stored, blamed, task>>
  BY DEF Record, Goto, hash
<1>p. pc'[c] = "list" /\ \A d \in Clients \ {c} : pc'[d] = pc[d]
  BY <1>a, <1>i DEF TypeOK
<1>n. task[c].op \in 1..ddls \ Entered /\ task[c].op \in 1..MaxDdls
  BY <1>a, <1>i, TypeFacts DEF Numbered, Pending
<1>e. /\ ledger' \in Seq(1..MaxDdls)
      /\ Entered' = Entered \cup {task[c].op}
      /\ \A i \in DOMAIN ledger : i \in DOMAIN ledger' /\ ledger'[i] = ledger[i]
  BY <1>a, <1>i, <1>n, AppendIs
<1>1. TypeOK'
  <2>1. pc' \in [Clients -> {"idle", "ledger", "list", "columns", "compare", "store"}]
    BY <1>a, <1>i DEF TypeOK
  <2> QED
    BY <1>a, <1>i, <1>e, <2>1 DEF TypeOK
<1>2. Numbered'
  <2>1. \A d \in Clients : Pending(d)' => d # c /\ Pending(d)
    BY <1>p DEF Pending
  <2>2. Pending(c)
    BY <1>a DEF Pending
  <2>3. \A d \in Clients : Pending(d)' => task[d].op # task[c].op
    BY <1>i, <2>1, <2>2 DEF Numbered
  <2> QED
    BY <1>a, <1>i, <1>n, <1>e, <2>1, <2>3 DEF Numbered
<1>3. Reading'
  <2>1. ReadingOf(c)'
    <3>1. ~task[c].torn /\ task[c].got = NoTables
      BY <1>a, <1>i DEF Reading, ReadingOf
    <3> QED
      BY <3>1, <1>a, <1>p DEF ReadingOf
  <2> QED
    BY <1>a, <1>i, <1>p, <2>1, KeepsReading
<1>4. HashHasCause'
  <2>1. StoreDue(c) => StoreDue(c)'
    BY <1>a, <1>p DEF StoreDue
  <2> QED
    BY <1>a, <1>i, <1>p, <2>1, KeepsCause
<1>5. EveryDdlLedgered'
  <2> SUFFICES ASSUME NEW n \in 1..ddls
               PROVE  \/ \E i \in DOMAIN ledger' : ledger'[i] = n
                      \/ \E d \in Clients : pc'[d] = "ledger" /\ task[d].op = n
                      \/ n \in missed
    BY <1>a DEF EveryDdlLedgered
  <2>1. CASE \E i \in DOMAIN ledger : ledger[i] = n
    BY <2>1, <1>e
  <2>2. ASSUME NEW d \in Clients, pc[d] = "ledger", task[d].op = n
        PROVE  \/ \E i \in DOMAIN ledger' : ledger'[i] = n
               \/ \E e \in Clients : pc'[e] = "ledger" /\ task[e].op = n
    <3>1. CASE d = c
      <4>1. n \in Entered'
        BY <3>1, <2>2, <1>e
      <4> QED
        BY <4>1 DEF Entered
    <3>2. CASE d # c
      BY <3>2, <2>2, <1>p
    <3> QED
      BY <3>1, <3>2
  <2>3. CASE n \in missed
    BY <2>3
  <2> QED
    BY <2>1, <2>2, <2>3, <1>i DEF EveryDdlLedgered
<1> QED
  BY <1>1, <1>2, <1>3, <1>4, <1>5 DEF LedgerInv

\* The other steps of a request: the schema and the ledger stay, and the request
\* goes to a place other than its ledger row.
LEMMA LocalStep ==
    ASSUME LedgerInv, NEW c \in Clients,
           NEW l \in {"idle", "list", "columns", "compare", "store"}, NEW x \in Tasks,
           pc' = [pc EXCEPT ![c] = l], task' = [task EXCEPT ![c] = x],
           UNCHANGED <<shape, ddls, raws, ledger>>,
           missed \subseteq missed', missed' \subseteq 1..ddls,
           pc[c] = "ledger" => task[c].op \in missed',
           stored' \subseteq Schemas, Cardinality(stored') =< 1, blamed' \in BOOLEAN,
           ReadingOf(c)', HashHasCause'
    PROVE  LedgerInv'
<1>i. TypeOK /\ Numbered /\ Reading /\ EveryDdlLedgered
  BY DEF LedgerInv
<1>p. /\ pc'[c] = l
      /\ \A d \in Clients \ {c} : pc'[d] = pc[d] /\ task'[d] = task[d]
  BY <1>i DEF TypeOK
<1>1. TypeOK'
  <2>1. /\ pc' \in [Clients -> {"idle", "ledger", "list", "columns", "compare", "store"}]
        /\ task' \in [Clients -> Tasks]
    BY <1>i DEF TypeOK
  <2> QED
    BY <1>i, <2>1 DEF TypeOK
<1>2. Numbered'
  BY <1>i, <1>p, KeepsNumbers
<1>3. Reading'
  BY <1>i, <1>p, KeepsReading
<1>4. EveryDdlLedgered'
  BY <1>i, <1>p, KeepsEntries
<1> QED
  BY <1>1, <1>2, <1>3, <1>4 DEF LedgerInv

LEMMA RecordFailsStep ==
    ASSUME LedgerInv, NEW c \in Clients, RecordFails(c)
    PROVE  LedgerInv'
<1>i. TypeOK /\ Numbered /\ Reading /\ HashHasCause
  BY DEF LedgerInv
<1>f. /\ pc \in [Clients -> {"idle", "ledger", "list", "columns", "compare", "store"}]
      /\ task \in [Clients -> Tasks] /\ task[c] \in Tasks
      /\ stored \subseteq Schemas /\ Cardinality(stored) =< 1 /\ blamed \in BOOLEAN
      /\ missed \subseteq 1..ddls /\ ReadingOf(c)
  BY <1>i DEF TypeOK, Reading
<1> DEFINE x == task[c]
<1>a. /\ pc[c] = "ledger"
      /\ pc' = [pc EXCEPT ![c] = "list"] /\ task' = [task EXCEPT ![c] = x]
      /\ UNCHANGED <<shape, ddls, raws, ledger, stored, blamed>>
      /\ missed' = missed \cup {task[c].op}
  BY <1>f DEF RecordFails, Goto, hash
<1>x. x \in Tasks
  BY <1>f
<1>p. /\ pc'[c] = "list" /\ task'[c] = x
      /\ \A d \in Clients \ {c} : pc'[d] = pc[d] /\ task'[d] = task[d]
  BY <1>a, <1>f
<1>n. task[c].op \in 1..ddls
  BY <1>a, <1>i DEF Numbered, Pending
<1>1. ReadingOf(c)'
  BY <1>a, <1>f, <1>p DEF ReadingOf
<1>2. HashHasCause'
  <2>1. StoreDue(c) => StoreDue(c)'
    BY <1>a, <1>f, <1>p DEF StoreDue, Tasks
  <2> QED
    BY <1>a, <1>i, <1>p, <2>1, KeepsCause
<1> HIDE DEF x
<1> QED
  BY <1>a, <1>f, <1>x, <1>1, <1>2, <1>n, LocalStep

LEMMA VerifyStep ==
    ASSUME LedgerInv, NEW c \in Clients, Verify(c)
    PROVE  LedgerInv'
<1>i. TypeOK /\ Numbered /\ Reading /\ HashHasCause
  BY DEF LedgerInv
<1>f. /\ pc \in [Clients -> {"idle", "ledger", "list", "columns", "compare", "store"}]
      /\ task \in [Clients -> Tasks] /\ task[c] \in Tasks
      /\ stored \subseteq Schemas /\ Cardinality(stored) =< 1 /\ blamed \in BOOLEAN
      /\ missed \subseteq 1..ddls /\ ReadingOf(c)
  BY <1>i DEF TypeOK, Reading
<1> DEFINE x == task[c]
<1>a. /\ pc[c] = "idle"
      /\ pc' = [pc EXCEPT ![c] = "list"] /\ task' = [task EXCEPT ![c] = x]
      /\ UNCHANGED <<shape, ddls, raws, ledger, stored, blamed>>
      /\ missed' = missed
  BY <1>f DEF Verify, Goto, hash
<1>x. x \in Tasks
  BY <1>f
<1>p. /\ pc'[c] = "list" /\ task'[c] = x
      /\ \A d \in Clients \ {c} : pc'[d] = pc[d] /\ task'[d] = task[d]
  BY <1>a, <1>f
<1>1. ReadingOf(c)'
  BY <1>a, <1>f, <1>p DEF ReadingOf
<1>2. HashHasCause'
  <2>1. StoreDue(c) => StoreDue(c)'
    BY <1>a, <1>f, <1>p DEF StoreDue, Tasks
  <2> QED
    BY <1>a, <1>i, <1>p, <2>1, KeepsCause
<1> HIDE DEF x
<1> QED
  BY <1>a, <1>f, <1>x, <1>1, <1>2, LocalStep

LEMMA ListTablesStep ==
    ASSUME LedgerInv, NEW c \in Clients, ListTables(c)
    PROVE  LedgerInv'
<1>i. TypeOK /\ Numbered /\ Reading /\ HashHasCause
  BY DEF LedgerInv
<1>f. /\ pc \in [Clients -> {"idle", "ledger", "list", "columns", "compare", "store"}]
      /\ task \in [Clients -> Tasks] /\ task[c] \in Tasks
      /\ stored \subseteq Schemas /\ Cardinality(stored) =< 1 /\ blamed \in BOOLEAN
      /\ missed \subseteq 1..ddls /\ ReadingOf(c)
  BY <1>i DEF TypeOK, Reading
<1> DEFINE x == [task[c] EXCEPT !.todo = DOMAIN shape]
<1>a. /\ pc[c] = "list"
      /\ pc' = [pc EXCEPT ![c] = "columns"] /\ task' = [task EXCEPT ![c] = x]
      /\ UNCHANGED <<shape, ddls, raws, ledger, stored, blamed>>
      /\ missed' = missed
  BY <1>f DEF ListTables, Goto, hash
<1>x. x \in Tasks
  BY <1>f, <1>i, TypeFacts DEF Tasks
<1>p. /\ pc'[c] = "columns" /\ task'[c] = x
      /\ \A d \in Clients \ {c} : pc'[d] = pc[d] /\ task'[d] = task[d]
  BY <1>a, <1>f
<1>1. ReadingOf(c)'
  <2>1. x.todo = DOMAIN shape /\ x.got = NoTables
    BY <1>a, <1>f DEF ReadingOf, Tasks
  <2> QED
    BY <2>1, <1>a, <1>p, NoTablesIs DEF ReadingOf
<1>2. HashHasCause'
  <2>1. StoreDue(c) => StoreDue(c)'
    BY <1>a, <1>f, <1>p DEF StoreDue, Tasks
  <2> QED
    BY <1>a, <1>i, <1>p, <2>1, KeepsCause
<1> HIDE DEF x
<1> QED
  BY <1>a, <1>f, <1>x, <1>1, <1>2, LocalStep

LEMMA SchemaReadStep ==
    ASSUME LedgerInv, NEW c \in Clients, SchemaRead(c)
    PROVE  LedgerInv'
<1>i. TypeOK /\ Numbered /\ Reading /\ HashHasCause
  BY DEF LedgerInv
<1>f. /\ pc \in [Clients -> {"idle", "ledger", "list", "columns", "compare", "store"}]
      /\ task \in [Clients -> Tasks] /\ task[c] \in Tasks
      /\ stored \subseteq Schemas /\ Cardinality(stored) =< 1 /\ blamed \in BOOLEAN
      /\ missed \subseteq 1..ddls /\ ReadingOf(c)
  BY <1>i DEF TypeOK, Reading
<1> DEFINE x == task[c]
<1>a. /\ pc[c] = "columns" /\ task[c].todo = {}
      /\ pc' = [pc EXCEPT ![c] = IF task[c].op = 0 THEN "compare" ELSE "store"] /\ task' = [task EXCEPT ![c] = x]
      /\ UNCHANGED <<shape, ddls, raws, ledger, stored, blamed>>
      /\ missed' = missed
  BY <1>f DEF SchemaRead, Goto, hash
<1>x. x \in Tasks
  BY <1>f
<1>p. /\ pc'[c] = (IF task[c].op = 0 THEN "compare" ELSE "store") /\ task'[c] = x
      /\ \A d \in Clients \ {c} : pc'[d] = pc[d] /\ task'[d] = task[d]
  BY <1>a, <1>f
<1>1. ReadingOf(c)'
  <2>1. ASSUME ~task[c].torn PROVE task[c].got = shape
    <3>1. DOMAIN task[c].got = DOMAIN shape /\ \A t \in DOMAIN task[c].got : task[c].got[t] = shape[t]
      BY <2>1, <1>a, <1>f DEF ReadingOf
    <3>2. task[c].got \in Schemas /\ shape \in Schemas
      BY <1>i, TypeFacts
    <3> QED
      BY <3>1, <3>2, SameSchema
  <2> QED
    BY <2>1, <1>a, <1>p DEF ReadingOf
<1>2. HashHasCause'
  <2>1. StoreDue(c) => StoreDue(c)'
    BY <1>a, <1>f, <1>p DEF StoreDue, Tasks
  <2> QED
    BY <1>a, <1>i, <1>p, <2>1, KeepsCause
<1> HIDE DEF x
<1> QED
  BY <1>a, <1>f, <1>x, <1>1, <1>2, LocalStep

LEMMA CompareStep ==
    ASSUME LedgerInv, NEW c \in Clients, Compare(c)
    PROVE  LedgerInv'
<1>i. TypeOK /\ Numbered /\ Reading /\ HashHasCause
  BY DEF LedgerInv
<1>f. /\ pc \in [Clients -> {"idle", "ledger", "list", "columns", "compare", "store"}]
      /\ task \in [Clients -> Tasks] /\ task[c] \in Tasks
      /\ stored \subseteq Schemas /\ Cardinality(stored) =< 1 /\ blamed \in BOOLEAN
      /\ missed \subseteq 1..ddls /\ ReadingOf(c)
  BY <1>i DEF TypeOK, Reading
<1> DEFINE x == [task[c] EXCEPT !.drift = stored # {} /\ stored # {task[c].got}]
<1>a. /\ pc[c] = "compare"
      /\ pc' = [pc EXCEPT ![c] = "store"] /\ task' = [task EXCEPT ![c] = x]
      /\ UNCHANGED <<shape, ddls, raws, ledger, stored, blamed>>
      /\ missed' = missed
  BY <1>f DEF Compare, Goto, hash
<1>x. x \in Tasks
  BY <1>f DEF Tasks
<1>p. /\ pc'[c] = "store" /\ task'[c] = x
      /\ \A d \in Clients \ {c} : pc'[d] = pc[d] /\ task'[d] = task[d]
  BY <1>a, <1>f
<1>1. ReadingOf(c)'
  <2>1. x.got = task[c].got /\ x.torn = task[c].torn
    BY <1>f DEF Tasks
  <2> QED
    BY <2>1, <1>a, <1>f, <1>p DEF ReadingOf
<1>2. HashHasCause'
  <2>1. StoreDue(c) => StoreDue(c)'
    BY <1>a, <1>f, <1>p DEF StoreDue, Tasks
  <2> QED
    BY <1>a, <1>i, <1>p, <2>1, KeepsCause
<1> HIDE DEF x
<1> QED
  BY <1>a, <1>f, <1>x, <1>1, <1>2, LocalStep

LEMMA CompareFailsStep ==
    ASSUME LedgerInv, NEW c \in Clients, CompareFails(c)
    PROVE  LedgerInv'
<1>i. TypeOK /\ Numbered /\ Reading /\ HashHasCause
  BY DEF LedgerInv
<1>f. /\ pc \in [Clients -> {"idle", "ledger", "list", "columns", "compare", "store"}]
      /\ task \in [Clients -> Tasks] /\ task[c] \in Tasks
      /\ stored \subseteq Schemas /\ Cardinality(stored) =< 1 /\ blamed \in BOOLEAN
      /\ missed \subseteq 1..ddls /\ ReadingOf(c)
  BY <1>i DEF TypeOK, Reading
<1> DEFINE x == [task[c] EXCEPT !.drift = FALSE]
<1>a. /\ pc[c] = "compare"
      /\ pc' = [pc EXCEPT ![c] = "store"] /\ task' = [task EXCEPT ![c] = x]
      /\ UNCHANGED <<shape, ddls, raws, ledger, stored, blamed>>
      /\ missed' = missed
  BY <1>f DEF CompareFails, Goto, hash
<1>x. x \in Tasks
  BY <1>f DEF Tasks
<1>p. /\ pc'[c] = "store" /\ task'[c] = x
      /\ \A d \in Clients \ {c} : pc'[d] = pc[d] /\ task'[d] = task[d]
  BY <1>a, <1>f
<1>1. ReadingOf(c)'
  <2>1. x.got = task[c].got /\ x.torn = task[c].torn
    BY <1>f DEF Tasks
  <2> QED
    BY <2>1, <1>a, <1>f, <1>p DEF ReadingOf
<1>2. HashHasCause'
  <2>1. StoreDue(c) => StoreDue(c)'
    BY <1>a, <1>f, <1>p DEF StoreDue, Tasks
  <2> QED
    BY <1>a, <1>i, <1>p, <2>1, KeepsCause
<1> HIDE DEF x
<1> QED
  BY <1>a, <1>f, <1>x, <1>1, <1>2, LocalStep

LEMMA ReadColumnsStep ==
    ASSUME LedgerInv, NEW c \in Clients, ReadColumns(c)
    PROVE  LedgerInv'
<1>i. TypeOK /\ Numbered /\ Reading /\ HashHasCause
  BY DEF LedgerInv
<1>f. /\ pc \in [Clients -> {"idle", "ledger", "list", "columns", "compare", "store"}]
      /\ task \in [Clients -> Tasks] /\ task[c] \in Tasks
      /\ shape \in Schemas /\ task[c].got \in Schemas /\ task[c].todo \subseteq Tables
      /\ stored \subseteq Schemas /\ Cardinality(stored) =< 1 /\ blamed \in BOOLEAN
      /\ missed \subseteq 1..ddls /\ ReadingOf(c)
  BY <1>i, TypeFacts DEF TypeOK, Reading
<1>t. PICK t \in task[c].todo :
         task' = [task EXCEPT ![c].todo = @ \ {t},
                              ![c].got = With(@, t, IF t \in DOMAIN shape THEN shape[t] ELSE {})]
  BY DEF ReadColumns
<1>c. PICK cols \in SUBSET Columns : cols = IF t \in DOMAIN shape THEN shape[t] ELSE {}
  BY <1>f, SchemaIs
<1> DEFINE x == [task[c] EXCEPT !.todo = task[c].todo \ {t}, !.got = With(task[c].got, t, cols)]
<1>a. /\ pc[c] = "columns"
      /\ pc' = [pc EXCEPT ![c] = "columns"] /\ task' = [task EXCEPT ![c] = x]
      /\ UNCHANGED <<shape, ddls, raws, ledger, missed, stored, blamed>>
  BY <1>t, <1>c, <1>f DEF ReadColumns, hash
<1>w. /\ With(task[c].got, t, cols) \in Schemas
      /\ DOMAIN With(task[c].got, t, cols) = DOMAIN task[c].got \cup {t}
      /\ \A u \in DOMAIN task[c].got \cup {t} :
            With(task[c].got, t, cols)[u] = IF u = t THEN cols ELSE task[c].got[u]
  <2>1. task[c].got \in Schemas /\ t \in Tables
    BY <1>t, <1>f
  <2>2. cols \in SUBSET Columns
    BY <1>c
  <2>3. ASSUME NEW g \in Schemas
        PROVE  /\ With(g, t, cols) \in Schemas
               /\ DOMAIN With(g, t, cols) = DOMAIN g \cup {t}
               /\ \A u \in DOMAIN g \cup {t} : With(g, t, cols)[u] = IF u = t THEN cols ELSE g[u]
    BY <2>1, <2>2, WithIs
  <2> QED
    BY <2>1, <2>3, Zenon
<1>x. /\ x \in Tasks /\ x.torn = task[c].torn /\ x.op = task[c].op
      /\ x.todo = task[c].todo \ {t} /\ x.got = With(task[c].got, t, cols)
  BY <1>f, <1>w DEF Tasks
<1>p. /\ pc'[c] = "columns" /\ task'[c] = x
      /\ \A d \in Clients \ {c} : pc'[d] = pc[d] /\ task'[d] = task[d]
  BY <1>a, <1>f
<1>1. ReadingOf(c)'
  <2>1. ASSUME ~task[c].torn
        PROVE  /\ DOMAIN x.got \cup x.todo = DOMAIN shape
               /\ DOMAIN x.got \cap x.todo = {}
               /\ \A u \in DOMAIN x.got : x.got[u] = shape[u]
    <3>1. /\ DOMAIN task[c].got \cup task[c].todo = DOMAIN shape
          /\ DOMAIN task[c].got \cap task[c].todo = {}
          /\ \A u \in DOMAIN task[c].got : task[c].got[u] = shape[u]
      BY <2>1, <1>a, <1>f DEF ReadingOf
    <3>2. t \in DOMAIN shape /\ cols = shape[t]
      BY <1>c, <3>1
    <3>3. /\ DOMAIN x.got = DOMAIN task[c].got \cup {t}
          /\ x.todo = task[c].todo \ {t}
          /\ \A u \in DOMAIN x.got : x.got[u] = IF u = t THEN shape[t] ELSE task[c].got[u]
      <4> HIDE DEF x
      <4> QED
        BY <1>w, <1>x, <3>2
    <3> HIDE DEF x
    <3> QED
      BY <3>1, <3>3
  <2> HIDE DEF x
  <2> QED
    BY <2>1, <1>a, <1>x, <1>p DEF ReadingOf
<1>2. HashHasCause'
  <2>1. StoreDue(c) => StoreDue(c)'
    <3> HIDE DEF x
    <3> QED
      BY <1>a, <1>x, <1>p DEF StoreDue
  <2> QED
    BY <1>a, <1>i, <1>p, <2>1, KeepsCause
<1> HIDE DEF x
<1> QED
  BY <1>a, <1>f, <1>x, <1>1, <1>2, LocalStep

LEMMA SingletonSchema ==
    ASSUME NEW s \in Schemas
    PROVE  {s} \subseteq Schemas /\ Cardinality({s}) =< 1
  BY FS_Singleton

LEMMA StoreStep ==
    ASSUME LedgerInv, NEW c \in Clients, Store(c)
    PROVE  LedgerInv'
<1>i. TypeOK /\ Reading
  BY DEF LedgerInv
<1>a. /\ pc[c] = "store"
      /\ stored' = {task[c].got} /\ blamed' = task[c].torn
      /\ pc' = [pc EXCEPT ![c] = "idle"] /\ task' = [task EXCEPT ![c] = NoTask]
      /\ UNCHANGED <<shape, ddls, raws, ledger, missed>>
  BY DEF Store, Return, Goto
<1>f. /\ task[c].torn \in BOOLEAN /\ stored' \subseteq Schemas /\ Cardinality(stored') =< 1
      /\ missed \subseteq 1..ddls
  BY <1>a, <1>i, TypeFacts, SingletonSchema DEF TypeOK
<1>1. ReadingOf(c)'
  <2>1. pc'[c] = "idle" /\ task'[c] = NoTask
    BY <1>a, <1>i DEF TypeOK
  <2> QED
    BY <2>1 DEF ReadingOf, NoTask
<1>2. HashHasCause'
  <2>1. ~task[c].torn => task[c].got = shape
    BY <1>a, <1>i DEF Reading, ReadingOf
  <2> QED
    BY <2>1, <1>a, <1>f DEF HashHasCause
<1> QED
  BY <1>a, <1>f, <1>1, <1>2, NoTaskType, LocalStep

LEMMA HashFailsStep ==
    ASSUME LedgerInv, NEW c \in Clients, HashFails(c)
    PROVE  LedgerInv'
<1>i. TypeOK
  BY DEF LedgerInv
<1>a. /\ pc[c] \in {"list", "columns", "store"}
      /\ blamed' = TRUE
      /\ pc' = [pc EXCEPT ![c] = "idle"] /\ task' = [task EXCEPT ![c] = NoTask]
      /\ UNCHANGED <<shape, ddls, raws, ledger, missed, stored>>
  BY DEF HashFails, Return, Goto
<1>1. ReadingOf(c)'
  <2>1. pc'[c] = "idle" /\ task'[c] = NoTask
    BY <1>a, <1>i DEF TypeOK
  <2> QED
    BY <2>1 DEF ReadingOf, NoTask
<1>2. HashHasCause'
  BY <1>a DEF HashHasCause
<1>3. /\ stored' \subseteq Schemas /\ Cardinality(stored') =< 1 /\ blamed' \in BOOLEAN
      /\ missed \subseteq 1..ddls
  BY <1>a, <1>i DEF TypeOK
<1> QED
  BY <1>a, <1>1, <1>2, <1>3, NoTaskType, LocalStep

LEMMA RawDdlStep ==
    ASSUME LedgerInv, RawDdl
    PROVE  LedgerInv'
<1>i. TypeOK /\ Numbered /\ Reading /\ EveryDdlLedgered
  BY DEF LedgerInv
<1>a. /\ raws < MaxRaw /\ shape' \in Results(shape) /\ raws' = raws + 1
      /\ task' = Tear(task) /\ blamed' = TRUE
      /\ UNCHANGED <<ddls, ledger, missed, stored, pc>>
  BY DEF RawDdl
<1>k. /\ task' \in [Clients -> Tasks]
      /\ \A c \in Clients :
            /\ task'[c].op = task[c].op
            /\ task'[c].todo = task[c].todo
            /\ task'[c].got = task[c].got
            /\ task'[c].torn = (task[c].torn \/ pc[c] \in {"columns", "compare", "store"})
  BY <1>a, <1>i, TearIs
<1>1. TypeOK'
  <2>1. shape \in Shaped
    BY <1>i DEF TypeOK, Shaped
  <2>2. shape' \in Schemas /\ \A t \in DOMAIN shape' : shape'[t] # {}
    BY <1>a, <2>1, ResultsAreShaped DEF Shaped
  <2>3. raws' \in 0..MaxRaw
    BY <1>a, <1>i, BoundsAssumption DEF TypeOK
  <2> QED
    BY <1>a, <1>i, <1>k, <2>2, <2>3 DEF TypeOK
<1>2. Numbered'
  BY <1>a, <1>i, <1>k DEF Numbered, Pending, Entered
<1>3. Reading'
  <2>1. ASSUME NEW c \in Clients PROVE ReadingOf(c)'
    <3>1. ReadingOf(c)
      BY <1>i DEF Reading
    <3> QED
      BY <3>1, <1>a, <1>k DEF ReadingOf
  <2> QED
    BY <2>1 DEF Reading
<1>4. EveryDdlLedgered'
  BY <1>a, <1>i, <1>k DEF EveryDdlLedgered
<1>5. HashHasCause'
  BY <1>a DEF HashHasCause
<1> QED
  BY <1>1, <1>2, <1>3, <1>4, <1>5 DEF LedgerInv

LEMMA CrashStep ==
    ASSUME LedgerInv, Crash
    PROVE  LedgerInv'
<1>i. TypeOK /\ Numbered /\ EveryDdlLedgered
  BY DEF LedgerInv
<1>a. /\ missed' = missed \cup {task[c].op : c \in {d \in Clients : pc[d] = "ledger"}}
      /\ pc' = [c \in Clients |-> "idle"] /\ task' = [c \in Clients |-> NoTask]
      /\ blamed' = TRUE
      /\ UNCHANGED <<shape, ddls, raws, ledger, stored>>
  BY DEF Crash
<1>1. TypeOK'
  <2>1. missed' \subseteq 1..ddls
    BY <1>a, <1>i DEF Numbered, Pending, TypeOK
  <2>2. /\ task' \in [Clients -> Tasks]
        /\ pc' \in [Clients -> {"idle", "ledger", "list", "columns", "compare", "store"}]
    BY <1>a, NoTaskType
  <2> QED
    BY <1>a, <1>i, <2>1, <2>2 DEF TypeOK
<1>2. Numbered'
  BY <1>a, <1>i DEF Numbered, Pending, Entered
<1>3. Reading'
  BY <1>a DEF Reading, ReadingOf, NoTask
<1>4. EveryDdlLedgered'
  BY <1>a, <1>i DEF EveryDdlLedgered
<1>5. HashHasCause'
  BY <1>a DEF HashHasCause
<1> QED
  BY <1>1, <1>2, <1>3, <1>4, <1>5 DEF LedgerInv

LEMMA LedgerStep == LedgerInv /\ [Next]_vars => LedgerInv'
<1> SUFFICES ASSUME LedgerInv, [Next]_vars PROVE LedgerInv'
  OBVIOUS
<1>1. ASSUME NEW c \in Clients, Request(c) PROVE LedgerInv'
  BY <1>1, ApplyStep, RecordStep, RecordFailsStep, VerifyStep, ListTablesStep, ReadColumnsStep,
     SchemaReadStep, CompareStep, CompareFailsStep, StoreStep, HashFailsStep
     DEF Request
<1>2. CASE UNCHANGED vars
  <2>1. UNCHANGED <<shape, ddls, raws, ledger, missed, stored, blamed, pc, task>>
    BY <1>2 DEF vars, hash
  <2>2. TypeOK' /\ Numbered'
    BY <2>1 DEF LedgerInv, TypeOK, Numbered, Pending, Entered
  <2>3. Reading'
    BY <2>1 DEF LedgerInv, Reading, ReadingOf
  <2>4. HashHasCause' /\ EveryDdlLedgered'
    BY <2>1 DEF LedgerInv, HashHasCause, StoreDue, EveryDdlLedgered
  <2> QED
    BY <2>2, <2>3, <2>4 DEF LedgerInv
<1> QED
  BY <1>1, <1>2, RawDdlStep, CrashStep DEF Next

LEMMA LedgerInvariance == Spec => []LedgerInv
  BY LedgerInit, LedgerStep, PTL DEF Spec

\* Every variable keeps its type; in particular no schema change leaves a table
\* without columns.
THEOREM LedgerTypes == Spec => []TypeOK
<1>1. LedgerInv => TypeOK
  BY DEF LedgerInv
<1> QED
  BY <1>1, LedgerInvariance, PTL

\* updateCatalogHash, with any number of requests: a stored hash that is not
\* that of the schema is about to be replaced by the right one, or it comes of a
\* torn read, a change by hand or a failure.
THEOREM HashIsExplained == Spec => []HashHasCause
<1>1. LedgerInv => HashHasCause
  BY DEF LedgerInv
<1> QED
  BY <1>1, LedgerInvariance, PTL

\* recordMigration, with any number of requests: no change made through the API
\* is missing from the ledger once its request has gone past it, but for failures.
THEOREM LedgerIsComplete == Spec => []EveryDdlLedgered
<1>1. LedgerInv => EveryDdlLedgered
  BY DEF LedgerInv
<1> QED
  BY <1>1, LedgerInvariance, PTL

\* VerifyCatalog, with any number of requests: it reports drift only beside a
\* schema change that has yet to store its hash, or after a torn read, a change
\* by hand or a failure.
THEOREM DriftIsExplained == Spec => DriftHasCause
<1>1. ASSUME LedgerInv, NEW c \in Clients, Compare(c), task'[c].drift
      PROVE  task[c].torn \/ blamed \/ \E d \in Clients \ {c} : StoreDue(d)
  <2>i. TypeOK /\ ReadingOf(c) /\ HashHasCause
    BY <1>1 DEF LedgerInv, Reading
  <2>1. pc[c] = "compare" /\ stored # {} /\ stored # {task[c].got}
    <3>1. task[c] \in Tasks
      BY <2>i, TypeFacts
    <3> QED
      BY <1>1, <2>i, <3>1 DEF Compare, TypeOK, Tasks
  <2>2. CASE ~task[c].torn
    <3>1. ~(stored \subseteq {shape})
      BY <2>i, <2>1, <2>2 DEF ReadingOf
    <3>2. ~StoreDue(c)
      BY <2>i, <2>1 DEF ReadingOf, StoreDue
    <3> QED
      BY <2>i, <3>1, <3>2 DEF HashHasCause
  <2> QED
    BY <2>2
<1>2. LedgerInv /\ [Next]_vars =>
         [\A c \in Clients :
             Compare(c) /\ task'[c].drift =>
                 task[c].torn \/ blamed \/ \E d \in Clients \ {c} : StoreDue(d)]_vars
  BY <1>1
<1> QED
  BY <1>2, LedgerInvariance, PTL DEF Spec, DriftHasCause

\* A step that leaves schema changes and ledger alone is a stutter of AuditLog;
\* a schema change is its Happen, and a ledger row its Enter.
LEMMA LogStep ==
    ASSUME LedgerInv, [Next]_vars
    PROVE  [Log!Next]_<<1..ddls, ledger>>
<1>i. TypeOK /\ Numbered
  BY DEF LedgerInv
<1>e. Log!Entered = Entered
  BY DEF Log!Entered, Entered
<1>1. ASSUME NEW c \in Clients, Apply(c) PROVE Log!Happen
  <2>1. ddls' = ddls + 1 /\ ledger' = ledger /\ ddls \in Nat
    BY <1>1, <1>i, TypeFacts DEF Apply
  <2>2. ddls + 1 \in (1..ddls') \ (1..ddls) /\ 1..ddls' = (1..ddls) \cup {ddls + 1}
    BY <2>1
  <2> QED
    BY <2>1, <2>2 DEF Log!Happen
<1>2. ASSUME NEW c \in Clients, Record(c) PROVE Log!Enter
  <2>1. task[c].op \in 1..ddls \ Entered
    BY <1>2, <1>i DEF Record, Numbered, Pending
  <2> QED
    BY <1>2, <1>e, <2>1 DEF Record, Log!Enter
<1>3. ASSUME NEW c \in Clients,
             \/ RecordFails(c) \/ Verify(c) \/ ListTables(c) \/ ReadColumns(c) \/ SchemaRead(c)
             \/ Compare(c) \/ CompareFails(c) \/ Store(c) \/ HashFails(c)
      PROVE  ddls' = ddls /\ ledger' = ledger
  BY <1>3 DEF RecordFails, Verify, ListTables, ReadColumns, SchemaRead, Compare, CompareFails, Store,
              HashFails
<1>4. RawDdl \/ Crash \/ UNCHANGED vars => ddls' = ddls /\ ledger' = ledger
  BY DEF RawDdl, Crash, vars
<1> QED
  BY <1>1, <1>2, <1>3, <1>4 DEF Next, Request, Log!Next

\* "append-only ledger for every schema mutation": however requests interleave,
\* fail or are killed, an entry follows its change, once, and stays.
THEOREM LedgerRefinesLog == Spec => LedgerIsAuditLog
<1>1. Init => Log!Init
  BY DEF Init, Log!Init
<1>2. LedgerInv /\ [Next]_vars => [Log!Next]_<<1..ddls, ledger>>
  BY LogStep
<1> QED
  BY <1>1, <1>2, LedgerInvariance, PTL DEF Spec, LedgerIsAuditLog, Log!Spec

----------------------------------------------------------------------------
(* One request at a time, whose statements succeed: there is no drift for    *)
(* VerifyCatalog to find until somebody changes the schema by hand.          *)

Alone(c) == Clients = {c} /\ ~Faults

\* Without a change by hand nothing but the request itself changes the schema,
\* and that it does before it reads it.
Unblamed(c) == raws = 0 => ~blamed /\ ~task[c].torn

AloneInv(c) == LedgerInv /\ Unblamed(c)

LEMMA AloneStep ==
    ASSUME NEW c, Alone(c), AloneInv(c), [Next]_vars
    PROVE  Unblamed(c)'
<1>c. c \in Clients /\ Clients = {c} /\ ~Faults
  BY DEF Alone
<1>i. TypeOK /\ Reading /\ Unblamed(c)
  BY DEF AloneInv, LedgerInv
<1>t. task \in [Clients -> Tasks] /\ task[c] \in Tasks /\ task[c].torn \in BOOLEAN /\ ~NoTask.torn
  BY <1>c, <1>i, TypeFacts DEF TypeOK, NoTask
<1>1. ASSUME Apply(c)
      PROVE  Unblamed(c)'
  <2>1. pc[c] = "idle" /\ raws' = raws /\ blamed' = blamed
    BY <1>1 DEF Apply, hash
  <2>2. Tear(task) \in [Clients -> Tasks] /\ Tear(task)[c].torn = task[c].torn
    BY <1>c, <1>i, <1>t, <2>1, TearIs
  <2>3. CASE shape' = shape
    <3>1. task' = [task EXCEPT ![c].op = ddls + 1]
      BY <1>1, <2>3 DEF Apply
    <3>2. task'[c].torn = task[c].torn
      BY <1>c, <1>t, <3>1 DEF Tasks
    <3> QED
      BY <1>i, <2>1, <3>2 DEF Unblamed
  <2>4. CASE shape' # shape
    <3>1. task' = [Tear(task) EXCEPT ![c].op = ddls + 1]
      BY <1>1, <2>4 DEF Apply
    <3>2. task'[c].torn = Tear(task)[c].torn
      BY <1>c, <2>2, <3>1 DEF Tasks
    <3> QED
      BY <1>i, <2>1, <2>2, <3>2 DEF Unblamed
  <2> QED
    BY <2>3, <2>4
<1>2. ASSUME Record(c) \/ Verify(c) \/ SchemaRead(c)
      PROVE  Unblamed(c)'
  BY <1>2, <1>i DEF Record, Verify, SchemaRead, hash, Unblamed
<1>3. ASSUME ListTables(c)
      PROVE  Unblamed(c)'
  <2>1. task'[c].torn = task[c].torn
    BY <1>3, <1>c, <1>t DEF ListTables, Tasks
  <2> QED
    BY <1>3, <1>i, <2>1 DEF ListTables, hash, Unblamed
<1>4. ASSUME ReadColumns(c)
      PROVE  Unblamed(c)'
  <2>1. task'[c].torn = task[c].torn
    BY <1>4, <1>c, <1>t DEF ReadColumns, Tasks
  <2> QED
    BY <1>4, <1>i, <2>1 DEF ReadColumns, hash, Unblamed
<1>5. ASSUME Compare(c)
      PROVE  Unblamed(c)'
  <2>1. task'[c].torn = task[c].torn
    BY <1>5, <1>c, <1>t DEF Compare, Tasks
  <2> QED
    BY <1>5, <1>i, <2>1 DEF Compare, hash, Unblamed
<1>6. ASSUME Store(c)
      PROVE  Unblamed(c)'
  <2>1. task'[c] = NoTask /\ blamed' = task[c].torn /\ raws' = raws
    BY <1>6, <1>c, <1>t DEF Store, Return
  <2> QED
    BY <1>i, <1>t, <2>1 DEF Unblamed
<1>7. ~(RecordFails(c) \/ CompareFails(c) \/ HashFails(c) \/ Crash)
  BY <1>c DEF RecordFails, CompareFails, HashFails, Crash
<1>8. ASSUME RawDdl
      PROVE  Unblamed(c)'
  <2>1. raws' # 0
    BY <1>8, <1>i, BoundsAssumption DEF RawDdl, TypeOK
  <2> QED
    BY <2>1 DEF Unblamed
<1>9. ASSUME UNCHANGED vars
      PROVE  Unblamed(c)'
  BY <1>9, <1>i DEF vars, hash, Unblamed
<1> QED
  BY <1>c, <1>1, <1>2, <1>3, <1>4, <1>5, <1>6, <1>7, <1>8, <1>9 DEF Next, Request

\* "expected no drift after create": true of a client that sends its requests
\* one after the other and is not failed by a statement, whatever changes it
\* makes; the hash stored is that of the schema whenever it asks.
THEOREM AloneNoDrift ==
    ASSUME NEW c, Alone(c)
    PROVE  Spec => []NoDriftWhenQuiet
<1>c. Clients = {c}
  BY DEF Alone
<1>1. Init => AloneInv(c)
  BY <1>c, LedgerInit DEF Init, AloneInv, Unblamed, NoTask
<1>2. AloneInv(c) /\ [Next]_vars => AloneInv(c)'
  BY AloneStep, LedgerStep DEF AloneInv
<1>3. AloneInv(c) => NoDriftWhenQuiet
  <2> SUFFICES ASSUME AloneInv(c), Quiet, raws = 0
               PROVE  stored \subseteq {shape}
    BY DEF NoDriftWhenQuiet
  <2>1. HashHasCause /\ ~blamed
    BY DEF AloneInv, LedgerInv, Unblamed
  <2>2. \A d \in Clients : ~StoreDue(d)
    BY DEF Quiet, StoreDue
  <2> QED
    BY <2>1, <2>2 DEF HashHasCause
<1> QED
  BY <1>1, <1>2, <1>3, PTL DEF Spec

=============================================================================
