---------------------------- MODULE HistoryProofs ----------------------------
(***************************************************************************)
(* Theorems about the two tables of history.go: the query history, for any *)
(* cap, any channel and any number of queries, attempts, pins and prunes,  *)
(* and the saved queries, for any limit and any number of requests.  The   *)
(* two share no state.                                                     *)
(***************************************************************************)
EXTENDS History, SavedQueries, SequenceTheorems, FiniteSetTheorems, TLAPS

\* Ids are given in order, and one request holds an entry that is not yet sent.
Filed ==
    /\ \A e \in pending : e.id =< issued
    /\ \A i \in DOMAIN ch : ch[i].id =< issued
    /\ \A e \in hand : e.id =< issued
    /\ \A r \in rows : r.id =< issued /\ r.rowid < nextRow
    /\ \A e, f \in pending : e.id = f.id => e = f

HistoryInv == TypeOK /\ Filed /\ OneCopy /\ CapRespected

Steps ==
    {"top", "select", "write", "prune", "drain", "stopped"}

-----------------------------------------------------------------------------
(* Rows and the cap. *)

LEMMA RowsAreFinite == TypeOK /\ OneCopy => IsFiniteSet(rows)
<1> SUFFICES ASSUME TypeOK, OneCopy PROVE IsFiniteSet(rows)
  OBVIOUS
<1> DEFINE f == [r \in rows |-> r.id]
<1>1. \A r \in rows : r.id \in Ids
  BY DEF TypeOK, RowType
<1>2. \A r, q \in rows : r.id = q.id => r = q
  BY DEF OneCopy
<1>3. f \in [rows -> Ids] /\ \A r, q \in DOMAIN f : f[r] = f[q] => r = q
  BY <1>1, <1>2
<1>4. f \in Injection(rows, Ids)
  BY ONLY <1>3 DEF Injection, IsInjective
<1>5. IsFiniteSet(Ids)
  BY FS_Interval, MaxQueriesAssumption DEF Ids
<1> QED BY ONLY <1>4, <1>5, FS_Injection

LEMMA NewerIsFinite ==
    ASSUME TypeOK, OneCopy, NEW r
    PROVE  IsFiniteSet(NewerUnpinned(r)) /\ Cardinality(NewerUnpinned(r)) \in Nat
<1>1. NewerUnpinned(r) \in SUBSET rows
  BY DEF NewerUnpinned, Unpinned
<1> QED BY <1>1, RowsAreFinite, FS_Subset, FS_CardinalityType

\* Of two unpinned rows one is newer, and so are fewer rows than the other.
LEMMA NewerIsOrder ==
    ASSUME TypeOK, OneCopy, NEW q \in Unpinned, NEW r \in Unpinned, q # r
    PROVE  Cardinality(NewerUnpinned(q)) # Cardinality(NewerUnpinned(r))
<1>1. \A x \in rows : x.at \in Nat /\ x.rowid \in Nat
  BY MaxTimeAssumption DEF TypeOK, RowType
<1>2. ASSUME NEW x \in Unpinned, NEW y \in Unpinned, Newer(x, y)
      PROVE  Cardinality(NewerUnpinned(x)) < Cardinality(NewerUnpinned(y))
  <2>1. NewerUnpinned(x) \cup {x} \subseteq NewerUnpinned(y)
    BY <1>1, <1>2 DEF NewerUnpinned, Newer, Unpinned
  <2>2. x \notin NewerUnpinned(x)
    BY <1>1 DEF NewerUnpinned, Newer, Unpinned
  <2>3. /\ IsFiniteSet(NewerUnpinned(x)) /\ Cardinality(NewerUnpinned(x)) \in Nat
        /\ IsFiniteSet(NewerUnpinned(y)) /\ Cardinality(NewerUnpinned(y)) \in Nat
    BY NewerIsFinite
  <2>4. Cardinality(NewerUnpinned(x) \cup {x}) = Cardinality(NewerUnpinned(x)) + 1
    BY <2>2, <2>3, FS_AddElement
  <2>5. Cardinality(NewerUnpinned(x) \cup {x}) =< Cardinality(NewerUnpinned(y))
    BY <2>1, <2>3, FS_Subset
  <2> QED BY <2>3, <2>4, <2>5
<1>3. q.rowid # r.rowid
  BY DEF OneCopy, Unpinned
<1>4. Newer(q, r) \/ Newer(r, q)
  BY <1>1, <1>3 DEF Newer, Unpinned
<1>5. Cardinality(NewerUnpinned(q)) \in Nat /\ Cardinality(NewerUnpinned(r)) \in Nat
  BY NewerIsFinite
<1> QED BY <1>2, <1>4, <1>5

\* What a prune leaves fits under the cap: a row is told by how many are newer.
LEMMA PruneFits ==
    ASSUME TypeOK, OneCopy
    PROVE  Cardinality({r \in Unpinned : Cardinality(NewerUnpinned(r)) < HistoryCap}) =< HistoryCap
<1> DEFINE S == {r \in Unpinned : Cardinality(NewerUnpinned(r)) < HistoryCap}
<1> DEFINE f == [r \in S |-> Cardinality(NewerUnpinned(r))]
<1>1. \A r \in S : Cardinality(NewerUnpinned(r)) \in 0..(HistoryCap - 1)
  BY NewerIsFinite, HistoryCapAssumption
<1>2. \A r, q \in S : Cardinality(NewerUnpinned(r)) = Cardinality(NewerUnpinned(q)) => r = q
  BY NewerIsOrder
<1>3. f \in [S -> 0..(HistoryCap - 1)] /\ \A r, q \in DOMAIN f : f[r] = f[q] => r = q
  BY <1>1, <1>2
<1>4. f \in Injection(S, 0..(HistoryCap - 1))
  BY ONLY <1>3 DEF Injection, IsInjective
<1>5. IsFiniteSet(0..(HistoryCap - 1)) /\ Cardinality(0..(HistoryCap - 1)) = HistoryCap
  BY FS_Interval, HistoryCapAssumption
<1> QED BY ONLY <1>4, <1>5, FS_Injection

LEMMA CapAfterPrune == TypeOK /\ OneCopy /\ PruneToCap => CapRespected'
<1> SUFFICES ASSUME TypeOK, OneCopy, PruneToCap PROVE CapRespected'
  OBVIOUS
<1>1. {r \in rows' : ~r.pinned /\ r.id \notin fresh'}
        = {r \in Unpinned : Cardinality(NewerUnpinned(r)) < HistoryCap}
  BY DEF PruneToCap, Unpinned
<1>2. {r \in Unpinned' : r.id \notin fresh'} = {r \in rows' : ~r.pinned /\ r.id \notin fresh'}
  BY DEF Unpinned
<1> QED BY <1>1, <1>2, PruneFits DEF CapRespected

\* Fewer rows count.
LEMMA CapStays ==
    ASSUME TypeOK, OneCopy, CapRespected,
           \A r \in rows' : ~r.pinned /\ r.id \notin fresh' => r \in rows /\ r.id \notin fresh
    PROVE  CapRespected'
<1> DEFINE S == {r \in Unpinned : r.id \notin fresh}
<1> DEFINE T == {r \in rows' : ~r.pinned /\ r.id \notin fresh'}
<1>1. T \subseteq S /\ S \subseteq rows
  BY DEF Unpinned
<1>2. IsFiniteSet(S)
  BY <1>1, RowsAreFinite, FS_Subset
<1>3. Cardinality(T) \in Nat /\ Cardinality(S) \in Nat /\ Cardinality(T) =< Cardinality(S)
  BY <1>1, <1>2, FS_Subset, FS_CardinalityType
<1>4. Cardinality(S) =< HistoryCap
  BY DEF CapRespected
<1>5. {r \in Unpinned' : r.id \notin fresh'} = T
  BY DEF Unpinned
<1>6. Cardinality(T) =< HistoryCap
  BY ONLY <1>3, <1>4, HistoryCapAssumption
<1> QED BY <1>5, <1>6 DEF CapRespected

-----------------------------------------------------------------------------
(* Types. *)

LEMMA HistoryStart == Init => HistoryInv
<1> SUFFICES ASSUME Init PROVE HistoryInv
  OBVIOUS
<1> USE DEF Init
<1>1. TypeOK
  <2>1. now \in 0..MaxTime /\ issued \in 0..MaxQueries /\ tries \in 0..(MaxTries - 1) /\ nextRow \in Nat
    BY MaxTimeAssumption, MaxQueriesAssumption, MaxTriesAssumption
  <2>2. draining \in BOOLEAN /\ open \in BOOLEAN /\ held \in BOOLEAN
    OBVIOUS
  <2>3. ch \in Seq(EntryType) /\ Len(ch) =< ChanCap
    BY ChanCapAssumption
  <2> QED BY <2>1, <2>2, <2>3 DEF TypeOK
<1>2. Filed /\ OneCopy
  BY DEF Filed, OneCopy, PendingIds, ChIds, HandIds, RowIds
<1>3. CapRespected
  <2>1. {r \in Unpinned : r.id \notin fresh} = {}
    BY DEF Unpinned
  <2>2. Cardinality({r \in Unpinned : r.id \notin fresh}) = 0
    BY ONLY <2>1, FS_EmptySet
  <2> QED BY <2>2, HistoryCapAssumption DEF CapRespected
<1> QED BY <1>1, <1>2, <1>3 DEF HistoryInv

LEMMA ResumeTypes ==
    ASSUME TypeOK, Resume
    PROVE  /\ wpc' \in Steps /\ sel' \in {"chan", "nil"} /\ hand' = {} /\ tries' \in 0..(MaxTries - 1)
           /\ draining' \in BOOLEAN
<1>1. tries' \in 0..(MaxTries - 1)
  BY MaxTriesAssumption DEF Resume
<1>2. draining' \in BOOLEAN
  BY DEF Resume, TypeOK
<1> QED BY <1>1, <1>2 DEF Resume, TypeOK, Steps

\* The worker's own steps, apart from the insert.
LEMMA WorkerTypes ==
    ASSUME TypeOK,
           EnterSelect \/ ReceiveStop \/ DrainDone \/ InsertFails \/ PruneAfterInsert \/ PruneAfterInsertFails
    PROVE  TypeOK'
<1>1. CASE EnterSelect
  BY <1>1 DEF TypeOK, EnterSelect, closing, pool, table
<1>2. CASE ReceiveStop
  BY <1>2 DEF TypeOK, ReceiveStop, closing, pool, table
<1>3. CASE DrainDone
  BY <1>3 DEF TypeOK, DrainDone, closing, pool, table
<1>4. CASE InsertFails
  <2>1. CASE tries + 1 < MaxTries
    <3>1. tries' \in 0..(MaxTries - 1) /\ wpc' = wpc /\ sel' = sel /\ hand' = hand /\ draining' = draining
      BY <1>4, <2>1, MaxTriesAssumption DEF TypeOK, InsertFails
    <3> QED BY <1>4, <3>1 DEF TypeOK, InsertFails, closing, pool, table
  <2>2. CASE ~(tries + 1 < MaxTries)
    <3>1. Resume
      BY <1>4, <2>2 DEF InsertFails
    <3> QED BY <1>4, <3>1, ResumeTypes DEF TypeOK, Steps, InsertFails, closing, pool, table
  <2> QED BY <2>1, <2>2
<1>5. CASE PruneAfterInsert
  <2>1. rows' \subseteq RowType /\ fresh' \subseteq Ids /\ nextRow' = nextRow
    BY <1>5 DEF TypeOK, PruneAfterInsert, PruneToCap
  <2>2. Resume
    BY <1>5 DEF PruneAfterInsert
  <2> QED BY <1>5, <2>1, <2>2, ResumeTypes DEF TypeOK, Steps, PruneAfterInsert, closing, pool
<1>6. CASE PruneAfterInsertFails
  <2>1. Resume
    BY <1>6 DEF PruneAfterInsertFails
  <2> QED BY <1>6, <2>1, ResumeTypes DEF TypeOK, Steps, PruneAfterInsertFails, closing, pool, table
<1> QED BY <1>1, <1>2, <1>3, <1>4, <1>5, <1>6

\* The requests that prune, Close and Open.
LEMMA OtherTypes ==
    ASSUME TypeOK,
           \/ \E cutoff \in 0..MaxTime : PruneByAge(cutoff)
           \/ PruneManually \/ PruneManuallyFails
           \/ OpenExport \/ EndExport
           \/ CloseStop \/ ClearStop \/ CloseDb \/ Reopen
    PROVE  TypeOK'
<1>1. ASSUME NEW cutoff \in 0..MaxTime, PruneByAge(cutoff)
      PROVE  TypeOK'
  <2>1. rows' \subseteq RowType
    BY <1>1 DEF TypeOK, PruneByAge
  <2> QED BY <1>1, <2>1 DEF TypeOK, PruneByAge, worker, closing, pool
<1>2. CASE PruneManually
  <2>1. rows' \subseteq RowType /\ fresh' \subseteq Ids /\ nextRow' = nextRow
    BY <1>2 DEF TypeOK, PruneManually, PruneToCap
  <2> QED BY <1>2, <2>1 DEF TypeOK, PruneManually, worker, closing, pool
<1>3. CASE PruneManuallyFails
  BY <1>3 DEF TypeOK, PruneManuallyFails, worker, closing, pool, table
<1>4. CASE CloseStop
  BY <1>4 DEF TypeOK, CloseStop, worker, pool, table
<1>5. CASE ClearStop
  BY <1>5 DEF TypeOK, ClearStop, worker, pool, table
<1>6. CASE CloseDb
  BY <1>6 DEF TypeOK, CloseDb, worker, table
<1>7. CASE OpenExport \/ EndExport
  <2>1. held' \in BOOLEAN
    BY <1>7 DEF OpenExport, EndExport
  <2> QED BY <1>7, <2>1 DEF TypeOK, OpenExport, EndExport, worker, table
<1>8. CASE Reopen
  <2>1. tries' \in 0..(MaxTries - 1) /\ Len(ch') =< ChanCap /\ ch' \in Seq(EntryType)
    BY <1>8, MaxTriesAssumption, ChanCapAssumption DEF Reopen
  <2>2. rows' \subseteq RowType /\ draining' \in BOOLEAN /\ open' \in BOOLEAN /\ held' \in BOOLEAN
    BY <1>8 DEF TypeOK, Reopen
  <2> QED BY <1>8, <2>1, <2>2 DEF TypeOK, Reopen
<1> QED BY <1>1, <1>2, <1>3, <1>4, <1>5, <1>6, <1>7, <1>8

-----------------------------------------------------------------------------
(* Steps that give nothing to anybody: all but five. *)

LEMMA ShrinkStep ==
    ASSUME HistoryInv, TypeOK', CapRespected',
           issued' = issued, pending' \subseteq pending, ch' \in {ch, <<>>}, hand' \subseteq hand,
           rows' \subseteq rows, nextRow' = nextRow,
           wpc' # "prune" => wpc # "prune" \/ hand' = {}
    PROVE  HistoryInv'
<1>1. Filed /\ OneCopy
  BY DEF HistoryInv
<1>2. \A i \in DOMAIN ch' : i \in DOMAIN ch /\ ch'[i] = ch[i]
  OBVIOUS
<1>3. Filed'
  BY <1>1, <1>2 DEF Filed
<1>4. /\ PendingIds' \subseteq PendingIds /\ ChIds' \subseteq ChIds
      /\ HandIds' \subseteq HandIds /\ RowIds' \subseteq RowIds
      /\ hand' = {} => HandIds' = {}
  BY <1>2 DEF PendingIds, ChIds, HandIds, RowIds
<1>5. OneCopy'
  <2>1. \A i, j \in DOMAIN ch' : ch'[i].id = ch'[j].id => i = j
    BY <1>1, <1>2 DEF OneCopy
  <2>2. \A r, q \in rows' : (r.id = q.id \/ r.rowid = q.rowid) => r = q
    BY <1>1 DEF OneCopy
  <2>3. /\ PendingIds' \cap (ChIds' \cup HandIds' \cup RowIds') = {}
        /\ ChIds' \cap (HandIds' \cup RowIds') = {}
        /\ wpc' # "prune" => HandIds' \cap RowIds' = {}
    BY <1>1, <1>4 DEF OneCopy
  <2> QED BY <2>1, <2>2, <2>3 DEF OneCopy
<1> QED BY <1>3, <1>5 DEF HistoryInv

LEMMA WorkerShrinks ==
    ASSUME HistoryInv,
           EnterSelect \/ ReceiveStop \/ DrainDone \/ InsertFails \/ PruneAfterInsert \/ PruneAfterInsertFails
    PROVE  HistoryInv'
<1>1. TypeOK /\ OneCopy /\ CapRespected
  BY DEF HistoryInv
<1>2. TypeOK'
  BY <1>1, WorkerTypes
<1>3. /\ issued' = issued /\ pending' = pending /\ ch' = ch /\ hand' \subseteq hand
      /\ rows' \subseteq rows /\ nextRow' = nextRow
  <2>1. CASE InsertFails \/ PruneAfterInsert \/ PruneAfterInsertFails
    BY <2>1 DEF InsertFails, PruneAfterInsert, PruneAfterInsertFails, PruneToCap, Resume, table
  <2>2. CASE EnterSelect \/ ReceiveStop \/ DrainDone
    BY <2>2 DEF EnterSelect, ReceiveStop, DrainDone, table
  <2> QED BY <2>1, <2>2
<1>4. wpc' # "prune" => wpc # "prune" \/ hand' = {}
  BY DEF EnterSelect, ReceiveStop, DrainDone, InsertFails, PruneAfterInsert, PruneAfterInsertFails, Resume
<1>5. CapRespected'
  <2>1. CASE PruneAfterInsert
    BY <1>1, <2>1, CapAfterPrune DEF PruneAfterInsert
  <2>2. CASE ~PruneAfterInsert
    <3>1. rows' = rows /\ fresh' = fresh
      BY <2>2 DEF EnterSelect, ReceiveStop, DrainDone, InsertFails, PruneAfterInsertFails, table
    <3> QED BY <1>1, <3>1, CapStays
  <2> QED BY <2>1, <2>2
<1> QED BY <1>2, <1>3, <1>4, <1>5, ShrinkStep

LEMMA OtherShrinks ==
    ASSUME HistoryInv,
           \/ \E cutoff \in 0..MaxTime : PruneByAge(cutoff)
           \/ PruneManually \/ PruneManuallyFails
           \/ OpenExport \/ EndExport
           \/ CloseStop \/ ClearStop \/ CloseDb \/ Reopen
    PROVE  HistoryInv'
<1>1. TypeOK /\ OneCopy /\ CapRespected
  BY DEF HistoryInv
<1>2. TypeOK'
  BY <1>1, OtherTypes
<1>3. /\ issued' = issued /\ pending' \subseteq pending /\ ch' \in {ch, <<>>} /\ hand' \subseteq hand
      /\ rows' \subseteq rows /\ nextRow' = nextRow
      /\ wpc' # "prune" => wpc # "prune" \/ hand' = {}
  <2>1. CASE Reopen
    BY <2>1 DEF Reopen
  <2>2. CASE (\E cutoff \in 0..MaxTime : PruneByAge(cutoff)) \/ PruneManually
    BY <2>2 DEF PruneByAge, PruneManually, PruneToCap, worker
  <2>3. CASE PruneManuallyFails \/ OpenExport \/ EndExport \/ CloseStop \/ ClearStop \/ CloseDb
    BY <2>3 DEF PruneManuallyFails, OpenExport, EndExport, CloseStop, ClearStop, CloseDb, worker, table
  <2> QED BY <2>1, <2>2, <2>3
<1>4. CapRespected'
  <2>1. CASE PruneManually
    BY <1>1, <2>1, CapAfterPrune DEF PruneManually
  <2>2. CASE ~PruneManually
    <3>1. fresh' = fresh
      BY <2>2 DEF PruneByAge, PruneManuallyFails, OpenExport, EndExport, CloseStop, ClearStop,
                     CloseDb, Reopen, table
    <3> QED BY <1>1, <1>3, <3>1, CapStays
  <2> QED BY <2>1, <2>2
<1> QED BY <1>2, <1>3, <1>4, ShrinkStep

-----------------------------------------------------------------------------
(* The five steps that move an entry or change a row. *)

LEMMA StampStep == HistoryInv /\ Stamp => HistoryInv'
<1> SUFFICES ASSUME HistoryInv, Stamp PROVE HistoryInv'
  OBVIOUS
<1>1. TypeOK /\ Filed /\ OneCopy /\ CapRespected
  BY DEF HistoryInv
<1>2. PICK t \in 0..MaxTime :
         now' = t /\ pending' = pending \cup {[id |-> issued + 1, at |-> t]}
  BY <1>1, MaxTimeAssumption DEF Stamp, TypeOK
<1>3. /\ issued' = issued + 1 /\ issued' \in 0..MaxQueries /\ issued' \in Ids
      /\ ch' = ch /\ wpc' = wpc /\ sel' = sel /\ hand' = hand /\ tries' = tries /\ draining' = draining
      /\ stop' = stop /\ stopCh' = stopCh /\ open' = open /\ held' = held /\ rows' = rows /\ nextRow' = nextRow
      /\ fresh' = fresh /\ pruner' = pruner
  BY <1>1, MaxQueriesAssumption DEF Stamp, TypeOK, Ids, worker, closing, pool, table
<1> DEFINE n == [id |-> issued + 1, at |-> now']
<1>4. n \in EntryType /\ n.id = issued + 1
  BY <1>2, <1>3 DEF EntryType
<1>5. pending' = pending \cup {n}
  BY <1>2
<1> HIDE DEF n
<1>6. TypeOK'
  BY <1>1, <1>2, <1>3, <1>4, <1>5 DEF TypeOK
<1>7. /\ \A e \in pending : e.id \in Nat /\ e.id =< issued
      /\ \A i \in DOMAIN ch : ch[i].id \in Nat /\ ch[i].id =< issued
      /\ \A e \in hand : e.id \in Nat /\ e.id =< issued
      /\ \A r \in rows : r.id \in Nat /\ r.id =< issued
      /\ issued \in Nat
  <2>1. \A e \in pending \cup hand : e \in EntryType
    BY <1>1 DEF TypeOK
  <2>2. \A i \in DOMAIN ch : ch[i] \in EntryType
    BY <1>1 DEF TypeOK
  <2>3. \A r \in rows : r \in RowType
    BY <1>1 DEF TypeOK
  <2>4. (\A e \in EntryType : e.id \in Nat) /\ (\A r \in RowType : r.id \in Nat)
    BY DEF EntryType, RowType, Ids
  <2>5. issued \in Nat
    BY <1>1, MaxQueriesAssumption DEF TypeOK
  <2> QED BY <1>1, <2>1, <2>2, <2>3, <2>4, <2>5 DEF Filed
<1>8. Filed'
  BY <1>1, <1>3, <1>4, <1>5, <1>7 DEF Filed
<1>9. PendingIds' = PendingIds \cup {issued + 1}
  BY <1>4, <1>5 DEF PendingIds
<1>10. issued + 1 \notin ChIds /\ issued + 1 \notin HandIds /\ issued + 1 \notin RowIds
  BY <1>7 DEF ChIds, HandIds, RowIds
<1>11. ChIds' = ChIds /\ HandIds' = HandIds /\ RowIds' = RowIds
  BY <1>3 DEF ChIds, HandIds, RowIds
<1>12. OneCopy'
  BY <1>1, <1>3, <1>9, <1>10, <1>11 DEF OneCopy
<1>13. CapRespected'
  BY <1>1, <1>3, CapStays
<1> QED BY <1>6, <1>8, <1>12, <1>13 DEF HistoryInv

LEMMA SendStep == ASSUME HistoryInv, NEW e \in pending, Send(e) PROVE HistoryInv'
<1>1. TypeOK /\ Filed /\ OneCopy /\ CapRespected
  BY DEF HistoryInv
<1>2. /\ pending' = pending \ {e} /\ ch' = IF Len(ch) < ChanCap THEN Append(ch, e) ELSE ch
      /\ now' = now /\ issued' = issued
      /\ wpc' = wpc /\ sel' = sel /\ hand' = hand /\ tries' = tries /\ draining' = draining
      /\ stop' = stop /\ stopCh' = stopCh /\ open' = open /\ held' = held /\ rows' = rows /\ nextRow' = nextRow
      /\ fresh' = fresh /\ pruner' = pruner
  BY DEF Send, worker, closing, pool, table
<1>3. e \in EntryType /\ e.id =< issued /\ ch \in Seq(EntryType)
  BY <1>1 DEF TypeOK, Filed
<1>4. CapRespected'
  BY <1>1, <1>2, CapStays
<1>5. CASE ~(Len(ch) < ChanCap)
  <2>1. ch' = ch
    BY <1>2, <1>5
  <2>2. TypeOK'
    BY <1>1, <1>2, <2>1 DEF TypeOK
  <2> QED BY <1>2, <1>4, <2>1, <2>2, ShrinkStep
<1>6. CASE Len(ch) < ChanCap
  <2>1. ch' = Append(ch, e)
    BY <1>2, <1>6
  <2>2. /\ ch' \in Seq(EntryType) /\ Len(ch') = Len(ch) + 1 /\ Len(ch) \in Nat
        /\ DOMAIN ch' = 1..(Len(ch) + 1) /\ DOMAIN ch = 1..Len(ch)
        /\ \A i \in 1..Len(ch) : ch'[i] = ch[i]
        /\ ch'[Len(ch) + 1] = e
    BY <1>3, <2>1
  <2>3. Len(ch') =< ChanCap
    BY <1>6, <2>2, ChanCapAssumption
  <2>4. TypeOK'
    BY <1>1, <1>2, <2>2, <2>3 DEF TypeOK
  <2>5. Filed'
    <3>1. \A i \in DOMAIN ch' : ch'[i].id =< issued
      BY <1>1, <1>3, <2>2 DEF Filed
    <3> QED BY <1>1, <1>2, <3>1 DEF Filed
  <2>6. e.id \notin PendingIds' /\ PendingIds' \subseteq PendingIds /\ e.id \in PendingIds
    BY <1>1, <1>2 DEF Filed, PendingIds
  <2>7. ChIds' = ChIds \cup {e.id} /\ HandIds' = HandIds /\ RowIds' = RowIds
    <3>1. ChIds' = ChIds \cup {e.id}
      BY <2>2 DEF ChIds
    <3> QED BY <1>2, <3>1 DEF HandIds, RowIds
  <2>8. \A i, j \in DOMAIN ch' : ch'[i].id = ch'[j].id => i = j
    <3>1. \A i \in DOMAIN ch : ch[i].id # e.id
      BY <1>1, <2>6 DEF OneCopy, ChIds
    <3>2. \A i, j \in DOMAIN ch : ch[i].id = ch[j].id => i = j
      BY <1>1 DEF OneCopy
    <3> QED BY <2>2, <3>1, <3>2
  <2>9. OneCopy'
    BY <1>1, <1>2, <2>6, <2>7, <2>8 DEF OneCopy
  <2> QED BY <1>4, <2>4, <2>5, <2>9 DEF HistoryInv
<1> QED BY <1>5, <1>6

LEMMA ReceiveStep == HistoryInv /\ Receive => HistoryInv'
<1> SUFFICES ASSUME HistoryInv, Receive PROVE HistoryInv'
  OBVIOUS
<1>1. TypeOK /\ Filed /\ OneCopy /\ CapRespected
  BY DEF HistoryInv
<1>2. /\ ch # <<>> /\ hand' = {Head(ch)} /\ ch' = Tail(ch) /\ tries' = 0 /\ wpc' = "write"
      /\ draining' \in BOOLEAN
      /\ now' = now /\ issued' = issued /\ pending' = pending /\ sel' = sel
      /\ stop' = stop /\ stopCh' = stopCh /\ open' = open /\ held' = held /\ rows' = rows /\ nextRow' = nextRow
      /\ fresh' = fresh /\ pruner' = pruner
  BY DEF Receive, closing, pool, table
<1>3. ch \in Seq(EntryType) /\ ch # <<>>
  BY <1>1, <1>2 DEF TypeOK
<1>4. /\ ch' \in Seq(EntryType) /\ Len(ch) \in Nat /\ Len(ch') = Len(ch) - 1
      /\ DOMAIN ch = 1..Len(ch) /\ DOMAIN ch' = 1..(Len(ch) - 1)
      /\ \A i \in 1..(Len(ch) - 1) : ch'[i] = ch[i + 1]
      /\ Head(ch) = ch[1] /\ Head(ch) \in EntryType /\ 1 \in DOMAIN ch
  BY <1>2, <1>3
<1>5. TypeOK'
  <2>1. Len(ch') =< ChanCap
    BY <1>1, <1>4, ChanCapAssumption DEF TypeOK
  <2>2. tries' \in 0..(MaxTries - 1)
    BY <1>2, MaxTriesAssumption
  <2> QED BY <1>1, <1>2, <1>4, <2>1, <2>2 DEF TypeOK
<1>6. \A i \in DOMAIN ch' : i + 1 \in DOMAIN ch /\ i + 1 # 1 /\ ch'[i] = ch[i + 1]
  BY <1>4
<1>7. Filed'
  <2>1. \A i \in DOMAIN ch' : ch'[i].id =< issued
    BY <1>1, <1>6 DEF Filed
  <2>2. \A e \in hand' : e.id =< issued
    BY <1>1, <1>2, <1>4 DEF Filed
  <2> QED BY <1>1, <1>2, <2>1, <2>2 DEF Filed
<1>8. \A i, j \in DOMAIN ch : ch[i].id = ch[j].id => i = j
  BY <1>1 DEF OneCopy
<1>9. HandIds' = {ch[1].id} /\ ch[1].id \in ChIds
  BY <1>2, <1>4 DEF HandIds, ChIds
<1>10. ChIds' \subseteq ChIds /\ ch[1].id \notin ChIds'
  BY <1>4, <1>6, <1>8 DEF ChIds
<1>11. \A i, j \in DOMAIN ch' : ch'[i].id = ch'[j].id => i = j
  <2> SUFFICES ASSUME NEW i \in DOMAIN ch', NEW j \in DOMAIN ch', ch'[i].id = ch'[j].id
               PROVE  i = j
    OBVIOUS
  <2>1. i + 1 = j + 1
    BY <1>6, <1>8
  <2> QED BY <1>4, <2>1
<1>12. OneCopy'
  <2>1. PendingIds' = PendingIds /\ RowIds' = RowIds
    BY <1>2 DEF PendingIds, RowIds
  <2> QED BY <1>1, <1>2, <1>9, <1>10, <1>11, <2>1 DEF OneCopy
<1>13. CapRespected'
  BY <1>1, <1>2, CapStays
<1> QED BY <1>5, <1>7, <1>12, <1>13 DEF HistoryInv

LEMMA InsertStep == HistoryInv /\ Insert => HistoryInv'
<1> SUFFICES ASSUME HistoryInv, Insert PROVE HistoryInv'
  OBVIOUS
<1>1. TypeOK /\ Filed /\ OneCopy /\ CapRespected
  BY DEF HistoryInv
<1>2. PICK e \in hand :
         IF Written(e.id)
         THEN UNCHANGED table
         ELSE /\ rows' = rows \cup {[id |-> e.id, at |-> e.at, rowid |-> nextRow, pinned |-> FALSE]}
              /\ nextRow' = nextRow + 1
              /\ fresh' = fresh \cup {e.id}
  BY DEF Insert
<1>3. /\ wpc = "write" /\ wpc' = "prune" /\ now' = now /\ issued' = issued /\ pending' = pending
      /\ ch' = ch /\ sel' = sel /\ hand' = hand /\ tries' = tries /\ draining' = draining
      /\ stop' = stop /\ stopCh' = stopCh /\ open' = open /\ held' = held /\ pruner' = pruner
  BY DEF Insert, closing, pool
<1>4. CASE Written(e.id)
  <2>1. rows' = rows /\ nextRow' = nextRow /\ fresh' = fresh
    BY <1>2, <1>4 DEF table
  <2>2. TypeOK'
    BY <1>1, <1>3, <2>1 DEF TypeOK
  <2>3. CapRespected'
    BY <1>1, <2>1, CapStays
  <2> QED BY <1>3, <2>1, <2>2, <2>3, ShrinkStep
<1>5. CASE ~Written(e.id)
  <2> DEFINE n == [id |-> e.id, at |-> e.at, rowid |-> nextRow, pinned |-> FALSE]
  <2>1. e \in EntryType /\ nextRow \in Nat
    BY <1>1 DEF TypeOK
  <2>2. n \in RowType /\ n.id = e.id /\ n.rowid = nextRow /\ ~n.pinned /\ e.id \in Ids
    BY <2>1 DEF EntryType, RowType
  <2>3. rows' = rows \cup {n} /\ nextRow' = nextRow + 1 /\ fresh' = fresh \cup {e.id}
    BY <1>2, <1>5
  <2> HIDE DEF n
  <2>4. TypeOK'
    BY <1>1, <1>3, <2>1, <2>2, <2>3 DEF TypeOK
  <2>5. \A r \in rows : r.rowid \in Nat /\ r.rowid < nextRow /\ r.id # e.id
    BY <1>1, <1>5 DEF Filed, TypeOK, RowType, Written
  <2>6. Filed'
    BY <1>1, <1>3, <2>1, <2>2, <2>3, <2>5 DEF Filed
  <2>7. \A r, q \in rows' : (r.id = q.id \/ r.rowid = q.rowid) => r = q
    <3>1. \A r \in rows : r.id # n.id /\ r.rowid # n.rowid
      BY <2>1, <2>2, <2>5
    <3> QED BY <1>1, <2>3, <3>1 DEF OneCopy
  <2>8. RowIds' = RowIds \cup {e.id} /\ e.id \in HandIds
    BY <2>2, <2>3 DEF RowIds, HandIds
  <2>9. PendingIds' = PendingIds /\ ChIds' = ChIds /\ HandIds' = HandIds
    BY <1>3 DEF PendingIds, ChIds, HandIds
  <2>10. OneCopy'
    BY <1>1, <1>3, <2>7, <2>8, <2>9 DEF OneCopy
  <2>11. CapRespected'
    BY <1>1, <2>2, <2>3, CapStays
  <2> QED BY <2>4, <2>6, <2>10, <2>11 DEF HistoryInv
<1> QED BY <1>4, <1>5

\* What a pin makes of a row.
PinnedAs(r, id, pinned) == IF r.id = id THEN [r EXCEPT !.pinned = pinned] ELSE r

LEMMA PinnedAsIs ==
    ASSUME NEW r \in RowType, NEW id, NEW pinned \in BOOLEAN
    PROVE  /\ PinnedAs(r, id, pinned) \in RowType
           /\ PinnedAs(r, id, pinned).id = r.id /\ PinnedAs(r, id, pinned).at = r.at
           /\ PinnedAs(r, id, pinned).rowid = r.rowid
           /\ PinnedAs(r, id, pinned).pinned = IF r.id = id THEN pinned ELSE r.pinned
           /\ (r.id = id => r.pinned = pinned) => PinnedAs(r, id, pinned) = r
BY DEF PinnedAs, RowType

LEMMA SetPinnedStep ==
    ASSUME HistoryInv, NEW id \in Ids, NEW pinned \in BOOLEAN, SetPinned(id, pinned)
    PROVE  HistoryInv'
<1>1. TypeOK /\ Filed /\ OneCopy /\ CapRespected
  BY DEF HistoryInv
<1>2. /\ rows' = {PinnedAs(r, id, pinned) : r \in rows}
      /\ fresh' = IF pinned THEN fresh ELSE fresh \cup {id}
      /\ now' = now /\ issued' = issued /\ pending' = pending
      /\ ch' = ch /\ wpc' = wpc /\ sel' = sel /\ hand' = hand /\ tries' = tries /\ draining' = draining
      /\ stop' = stop /\ stopCh' = stopCh /\ open' = open /\ held' = held /\ pruner' = pruner /\ nextRow' = nextRow
  BY DEF SetPinned, PinnedAs, worker, closing, pool
<1>3. \A r \in rows : r \in RowType
  BY <1>1 DEF TypeOK
<1>4. ASSUME NEW r \in rows'
      PROVE  \E q \in rows : /\ r = PinnedAs(q, id, pinned) /\ r \in RowType
                             /\ r.id = q.id /\ r.rowid = q.rowid
                             /\ r.pinned = IF q.id = id THEN pinned ELSE q.pinned
                             /\ (q.id = id => q.pinned = pinned) => r = q
  <2>1. PICK q \in rows : r = PinnedAs(q, id, pinned)
    BY <1>2
  <2> QED BY <1>3, <2>1, PinnedAsIs
<1>5. TypeOK'
  <2>1. rows' \subseteq RowType
    BY <1>4
  <2>2. fresh' \subseteq Ids
    BY <1>1, <1>2 DEF TypeOK
  <2> QED BY <1>1, <1>2, <2>1, <2>2 DEF TypeOK
<1>6. Filed'
  <2>1. \A r \in rows' : r.id =< issued /\ r.rowid < nextRow
    BY <1>1, <1>4 DEF Filed
  <2> QED BY <1>1, <1>2, <2>1 DEF Filed
<1>7. OneCopy'
  <2>1. ASSUME NEW r \in rows', NEW q \in rows', r.id = q.id \/ r.rowid = q.rowid
        PROVE  r = q
    <3>1. PICK x \in rows : r = PinnedAs(x, id, pinned) /\ r.id = x.id /\ r.rowid = x.rowid
      BY <1>4
    <3>2. PICK y \in rows : q = PinnedAs(y, id, pinned) /\ q.id = y.id /\ q.rowid = y.rowid
      BY <1>4
    <3>3. x = y
      BY <1>1, <2>1, <3>1, <3>2 DEF OneCopy
    <3> QED BY <3>1, <3>2, <3>3
  <2>2. RowIds' \subseteq RowIds
    BY <1>4 DEF RowIds
  <2>3. PendingIds' = PendingIds /\ ChIds' = ChIds /\ HandIds' = HandIds
    BY <1>2 DEF PendingIds, ChIds, HandIds
  <2> QED BY <1>1, <1>2, <2>1, <2>2, <2>3 DEF OneCopy
<1>8. CapRespected'
  <2>1. ASSUME NEW r \in rows', ~r.pinned, r.id \notin fresh'
        PROVE  r \in rows /\ r.id \notin fresh
    <3>1. PICK q \in rows : /\ r.id = q.id
                            /\ r.pinned = IF q.id = id THEN pinned ELSE q.pinned
                            /\ (q.id = id => q.pinned = pinned) => r = q
      BY <1>4
    <3>2. q.id # id
      BY <1>2, <2>1, <3>1
    <3> QED BY <1>2, <2>1, <3>1, <3>2
  <2> QED BY <1>1, <2>1, CapStays
<1> QED BY <1>5, <1>6, <1>7, <1>8 DEF HistoryInv

-----------------------------------------------------------------------------
(* The theorems. *)

LEMMA HistoryStep == HistoryInv /\ [Next]_vars => HistoryInv'
<1> SUFFICES ASSUME HistoryInv, [Next]_vars PROVE HistoryInv'
  OBVIOUS
<1>1. CASE Stamp
  BY <1>1, StampStep
<1>2. ASSUME NEW e \in pending, Send(e) PROVE HistoryInv'
  BY <1>2, SendStep
<1>3. CASE Receive
  BY <1>3, ReceiveStep
<1>4. CASE Insert
  BY <1>4, InsertStep
<1>5. CASE EnterSelect \/ ReceiveStop \/ DrainDone \/ InsertFails \/ PruneAfterInsert \/ PruneAfterInsertFails
  BY <1>5, WorkerShrinks
<1>6. ASSUME NEW id \in Ids, NEW pinned \in BOOLEAN, SetPinned(id, pinned) PROVE HistoryInv'
  BY <1>6, SetPinnedStep
<1>7. CASE \/ \E cutoff \in 0..MaxTime : PruneByAge(cutoff)
           \/ PruneManually \/ PruneManuallyFails
           \/ OpenExport \/ EndExport
           \/ CloseStop \/ ClearStop \/ CloseDb \/ Reopen
  BY <1>7, OtherShrinks
<1>8. CASE UNCHANGED vars
  <2>1. /\ now' = now /\ issued' = issued /\ pending' = pending
        /\ ch' = ch /\ wpc' = wpc /\ sel' = sel /\ hand' = hand /\ tries' = tries /\ draining' = draining
        /\ stop' = stop /\ stopCh' = stopCh /\ open' = open /\ held' = held /\ pruner' = pruner
        /\ rows' = rows /\ nextRow' = nextRow /\ fresh' = fresh
    BY <1>8 DEF vars, worker, table, closing, pool
  <2>2. TypeOK /\ OneCopy /\ CapRespected
    BY DEF HistoryInv
  <2>3. TypeOK'
    BY <2>1, <2>2 DEF TypeOK
  <2>4. CapRespected'
    BY <2>1, <2>2, CapStays
  <2> QED BY <2>1, <2>3, <2>4, ShrinkStep
<1>9. Next \/ UNCHANGED vars
  OBVIOUS
<1> QED BY <1>1, <1>2, <1>3, <1>4, <1>5, <1>6, <1>7, <1>8, <1>9 DEF Next, WorkerLoop, WorkerStatement, Panel

LEMMA HistoryAlways == Spec => []HistoryInv
BY HistoryStart, HistoryStep, PTL DEF Spec

\* The queues of the history hold entries of RecordQuery and no more than the
\* channel takes, and no entry is tried more often than writeHistory tries.
THEOREM HistoryTypes == Spec => []TypeOK
<1>1. HistoryInv => TypeOK
  BY DEF HistoryInv
<1> QED BY <1>1, HistoryAlways, PTL

\* However often the insert of an entry is tried, it is in one place and in the
\* table once.
THEOREM EntriesAreOnce == Spec => []OneCopy
<1>1. HistoryInv => OneCopy
  BY DEF HistoryInv
<1> QED BY <1>1, HistoryAlways, PTL

\* For any maxHistoryEntries and any interleaving of worker and panel, unpinned
\* rows above the cap are new since the last prune.
THEOREM CapIsRespected == Spec => []CapRespected
<1>1. HistoryInv => CapRespected
  BY DEF HistoryInv
<1> QED BY <1>1, HistoryAlways, PTL

\* Where a row may go, or be changed.
LEMMA RowsLeave ==
    ASSUME Next, NEW r \in rows, r \notin rows'
    PROVE  \/ \E id \in Ids, pinned \in BOOLEAN : SetPinned(id, pinned)
           \/ \E cutoff \in 0..MaxTime : PruneByAge(cutoff)
           \/ PruneToCap
           \/ EmptiedByReopen
<1>1. CASE Stamp \/ (\E e \in pending : Send(e)) \/ Receive
  BY <1>1 DEF Stamp, Send, Receive, table
<1>2. CASE Insert
  BY <1>2 DEF Insert, table
<1>3. CASE EnterSelect \/ ReceiveStop \/ DrainDone \/ InsertFails \/ PruneAfterInsertFails
  BY <1>3 DEF EnterSelect, ReceiveStop, DrainDone, InsertFails, PruneAfterInsertFails, table
<1>4. CASE PruneAfterInsert \/ PruneManually
  BY <1>4 DEF PruneAfterInsert, PruneManually
<1>5. CASE PruneManuallyFails \/ OpenExport \/ EndExport \/ CloseStop \/ ClearStop \/ CloseDb
  BY <1>5 DEF PruneManuallyFails, OpenExport, EndExport, CloseStop, ClearStop, CloseDb, table
<1>6. CASE Reopen
  BY <1>6 DEF Reopen, EmptiedByReopen
<1> QED BY <1>1, <1>2, <1>3, <1>4, <1>5, <1>6 DEF Next, WorkerLoop, WorkerStatement, Panel

\* A pinned row is changed by SetPinned only and pruned by nothing.
THEOREM PinnedRowsStay == Spec => PinnedStay
<1>1. ASSUME HistoryInv, Next, NEW r \in rows, r.pinned, r \notin rows'
      PROVE  SetPinned(r.id, FALSE) \/ EmptiedByReopen
  <2>1. r \in RowType
    BY <1>1 DEF HistoryInv, TypeOK
  <2>2. ASSUME NEW id \in Ids, NEW pinned \in BOOLEAN, SetPinned(id, pinned)
        PROVE  SetPinned(r.id, FALSE)
    <3>1. PinnedAs(r, id, pinned) \in rows'
      BY <1>1, <2>2 DEF SetPinned, PinnedAs
    <3>2. PinnedAs(r, id, pinned) # r
      BY <1>1, <3>1
    <3>3. r.id = id /\ r.pinned # pinned
      BY <2>1, <3>2, PinnedAsIs
    <3>4. pinned = FALSE
      BY <1>1, <3>3
    <3> QED BY <2>2, <3>3, <3>4
  <2>3. ASSUME NEW cutoff \in 0..MaxTime, PruneByAge(cutoff)
        PROVE  FALSE
    BY <1>1, <2>3 DEF PruneByAge
  <2>4. ~PruneToCap
    BY <1>1 DEF PruneToCap
  <2> QED BY <1>1, <2>2, <2>3, <2>4, RowsLeave
<1>2. HistoryInv /\ [Next]_vars =>
         [\A r \in rows : r.pinned /\ r \notin rows' => SetPinned(r.id, FALSE) \/ EmptiedByReopen]_vars
  BY <1>1
<1> QED BY <1>2, HistoryAlways, PTL DEF Spec, PinnedStay

\* A prune by the cap leaves no row that is newer than one it takes away.
THEOREM NewestRowsStay == Spec => NewestStay
<1>1. ASSUME HistoryInv, Next, NEW r \in rows, r.id \notin RowIds'
      PROVE  \/ Cardinality({q \in rows : ~q.pinned /\ Newer(q, r)}) >= HistoryCap
             \/ \E cutoff \in 0..MaxTime : r.at < cutoff /\ PruneByAge(cutoff)
             \/ EmptiedByReopen
  <2>1. r \in RowType /\ r \notin rows'
    BY <1>1 DEF HistoryInv, TypeOK, RowIds
  <2>2. ASSUME NEW id \in Ids, NEW pinned \in BOOLEAN, SetPinned(id, pinned)
        PROVE  FALSE
    <3>1. PinnedAs(r, id, pinned) \in rows'
      BY <2>2 DEF SetPinned, PinnedAs
    <3>2. PinnedAs(r, id, pinned).id = r.id
      BY <2>1, PinnedAsIs
    <3> QED BY <1>1, <3>1, <3>2 DEF RowIds
  <2>3. ASSUME NEW cutoff \in 0..MaxTime, PruneByAge(cutoff)
        PROVE  r.at < cutoff
    <3>1. ~(r.at >= cutoff)
      BY <2>1, <2>3 DEF PruneByAge
    <3> QED BY <2>1, <3>1, MaxTimeAssumption DEF RowType
  <2>4. ASSUME PruneToCap
        PROVE  Cardinality({q \in rows : ~q.pinned /\ Newer(q, r)}) >= HistoryCap
    <3>1. ~(Cardinality(NewerUnpinned(r)) < HistoryCap)
      BY <2>1, <2>4 DEF PruneToCap
    <3>2. NewerUnpinned(r) = {q \in rows : ~q.pinned /\ Newer(q, r)}
      BY DEF NewerUnpinned, Unpinned
    <3>3. Cardinality(NewerUnpinned(r)) \in Nat
      BY <1>1, NewerIsFinite DEF HistoryInv
    <3> QED BY <3>1, <3>2, <3>3, HistoryCapAssumption
  <2> QED BY <1>1, <2>1, <2>2, <2>3, <2>4, RowsLeave
<1>2. HistoryInv /\ [Next]_vars =>
         [\A r \in rows : r.id \notin RowIds' =>
            \/ Cardinality({q \in rows : ~q.pinned /\ Newer(q, r)}) >= HistoryCap
            \/ \E cutoff \in 0..MaxTime : r.at < cutoff /\ PruneByAge(cutoff)
            \/ EmptiedByReopen]_vars
  BY <1>1
<1> QED BY <1>2, HistoryAlways, PTL DEF Spec, NewestStay

-----------------------------------------------------------------------------
(* Saved queries: how far they can exceed their limit, for any number of    *)
(* concurrent requests.                                                     *)

\* The excess is bounded by the requests that have counted and not inserted
\* yet, so the bound on both together is inductive.
SavedInv == SavedTypeOK /\ ExcessBounded

LEMMA InsertingFinite ==
    ASSUME SavedTypeOK
    PROVE  /\ IsFiniteSet(saved) /\ Cardinality(saved) \in Nat
           /\ IsFiniteSet(DOMAIN inserting) /\ Cardinality(DOMAIN inserting) \in Nat
           /\ Cardinality(DOMAIN inserting) =< Cardinality(Clients)
           /\ Cardinality(Clients) \in Nat
  BY TitlesAssumption, ClientsAssumption, FS_Subset, FS_CardinalityType DEF SavedTypeOK

\* A finished request is no longer among those in progress.
LEMMA FinishCount ==
    ASSUME SavedTypeOK, NEW c \in DOMAIN inserting, Finish(c)
    PROVE  /\ DOMAIN inserting' = DOMAIN inserting \ {c}
           /\ Cardinality(DOMAIN inserting') = Cardinality(DOMAIN inserting) - 1
           /\ \A d \in DOMAIN inserting' : inserting'[d] = inserting[d]
<1>1. /\ DOMAIN inserting' = DOMAIN inserting \ {c}
      /\ \A d \in DOMAIN inserting' : inserting'[d] = inserting[d]
  BY DEF Finish
<1> QED
  BY <1>1, InsertingFinite, FS_RemoveElement

LEMMA SavedStart == SavedInit => SavedInv
<1> SUFFICES ASSUME SavedInit PROVE SavedInv
  OBVIOUS
<1>1. saved = {} /\ DOMAIN inserting = {}
  BY DEF SavedInit
<1>2. Cardinality(Clients) \in Nat /\ Cardinality(Clients) # 0
  BY ClientsAssumption, FS_CardinalityType, FS_EmptySet
<1>3. Cardinality(saved) = 0 /\ Cardinality(DOMAIN inserting) = 0
  BY <1>1, FS_EmptySet
<1> QED
  BY <1>1, <1>2, <1>3, LimitAssumption DEF SavedInv, SavedTypeOK, ExcessBounded

LEMMA SavedStep == SavedInv /\ [SavedNext]_savedVars => SavedInv'
<1> SUFFICES ASSUME SavedInv, [SavedNext]_savedVars PROVE SavedInv'
  OBVIOUS
<1>t. SavedTypeOK /\ ExcessBounded
  BY DEF SavedInv
<1>f. /\ IsFiniteSet(saved) /\ Cardinality(saved) \in Nat
      /\ IsFiniteSet(DOMAIN inserting) /\ Cardinality(DOMAIN inserting) \in Nat
      /\ Cardinality(Clients) \in Nat
      /\ Limit \in Nat
  BY <1>t, InsertingFinite, LimitAssumption
<1>1. ASSUME NEW c \in Clients, NEW title \in Titles, Count(c, title)
      PROVE  SavedInv'
  <2>1. /\ c \notin DOMAIN inserting
        /\ Cardinality(saved) < Limit
        /\ saved' = saved
        /\ DOMAIN inserting' = DOMAIN inserting \cup {c}
        /\ \A d \in DOMAIN inserting' : inserting'[d] = IF d = c THEN title ELSE inserting[d]
    BY <1>1 DEF Count
  <2>2. SavedTypeOK'
    BY <1>t, <2>1 DEF SavedTypeOK
  <2>3. Cardinality(DOMAIN inserting') =< Cardinality(Clients) /\ Cardinality(DOMAIN inserting') \in Nat
    <3>1. DOMAIN inserting' \subseteq Clients
      BY <2>2 DEF SavedTypeOK
    <3> QED
      BY <3>1, ClientsAssumption, FS_Subset, FS_CardinalityType
  <2> QED
    BY <1>f, <2>1, <2>2, <2>3 DEF SavedInv, ExcessBounded
<1>2. ASSUME NEW c \in Clients, InsertSaved(c)
      PROVE  SavedInv'
  <2>1. c \in DOMAIN inserting /\ saved' = saved \cup {inserting[c]} /\ Finish(c)
    BY <1>2 DEF InsertSaved
  <2>2. /\ DOMAIN inserting' = DOMAIN inserting \ {c}
        /\ Cardinality(DOMAIN inserting') = Cardinality(DOMAIN inserting) - 1
        /\ \A d \in DOMAIN inserting' : inserting'[d] = inserting[d]
    BY <1>t, <2>1, FinishCount
  <2>3. Cardinality(saved') =< Cardinality(saved) + 1 /\ Cardinality(saved') \in Nat
    <3>1. /\ IsFiniteSet(saved \cup {inserting[c]})
          /\ \/ Cardinality(saved \cup {inserting[c]}) = Cardinality(saved)
             \/ Cardinality(saved \cup {inserting[c]}) = Cardinality(saved) + 1
      BY <1>f, FS_AddElement
    <3> QED
      BY <1>f, <2>1, <3>1
  <2>4. SavedTypeOK'
    BY <1>t, <2>1, <2>2 DEF SavedTypeOK
  <2> QED
    BY <1>t, <1>f, <2>2, <2>3, <2>4 DEF SavedInv, ExcessBounded
<1>3. ASSUME NEW c \in Clients, InsertSavedFails(c)
      PROVE  SavedInv'
  <2>1. c \in DOMAIN inserting /\ saved' = saved /\ Finish(c)
    BY <1>3 DEF InsertSavedFails
  <2>2. /\ DOMAIN inserting' = DOMAIN inserting \ {c}
        /\ Cardinality(DOMAIN inserting') = Cardinality(DOMAIN inserting) - 1
        /\ \A d \in DOMAIN inserting' : inserting'[d] = inserting[d]
    BY <1>t, <2>1, FinishCount
  <2> QED
    BY <1>t, <1>f, <2>1, <2>2 DEF SavedInv, SavedTypeOK, ExcessBounded
<1>4. ASSUME NEW title \in Titles, DeleteSaved(title)
      PROVE  SavedInv'
  <2>1. title \in saved /\ saved' = saved \ {title} /\ inserting' = inserting
    BY <1>4 DEF DeleteSaved
  <2>2. Cardinality(saved') = Cardinality(saved) - 1
    BY <1>f, <2>1, FS_RemoveElement
  <2> QED
    BY <1>t, <1>f, <2>1, <2>2 DEF SavedInv, SavedTypeOK, ExcessBounded
<1>5. CASE UNCHANGED savedVars
  BY <1>t, <1>5 DEF SavedInv, SavedTypeOK, ExcessBounded, savedVars
<1> QED
  BY <1>1, <1>2, <1>3, <1>4, <1>5 DEF SavedNext

LEMMA SavedInvariance == SavedSpec => []SavedInv
  BY SavedStart, SavedStep, PTL DEF SavedSpec

\* SaveQuery, type correctness: only titles of the right length are stored.
THEOREM SavedTypes == SavedSpec => []SavedTypeOK
<1>1. SavedInv => SavedTypeOK
  BY DEF SavedInv
<1> QED
  BY <1>1, SavedInvariance, PTL

\* SaveQuery with any number of concurrent requests: its two statements let the
\* table grow past the limit by less than that number.
THEOREM ExcessIsBounded == SavedSpec => []ExcessBounded
<1>1. SavedInv => ExcessBounded
  BY DEF SavedInv
<1> QED
  BY <1>1, SavedInvariance, PTL

\* SaveQuery with one request at a time: the limit of the error message holds.
THEOREM SerialLimit ==
    ASSUME Cardinality(Clients) = 1
    PROVE  SavedSpec => []LimitRespected
<1>1. SavedInv => LimitRespected
  BY InsertingFinite, LimitAssumption DEF SavedInv, ExcessBounded, LimitRespected
<1> QED
  BY <1>1, SavedInvariance, PTL

=============================================================================
