----------------------------- MODULE QueryCache -----------------------------
(***************************************************************************)
(* The query result cache of one attached database                         *)
(* (internal/engine/cache.go) together with the statements that fill and   *)
(* invalidate it (QueryCtx in database.go) and the writes that go round it *)
(* (Batch, imports and schema changes execute on the connection directly). *)
(*                                                                         *)
(* The contents of the database are a version number `db`: the number of   *)
(* mutations committed so far.  The rows of a result are the version they  *)
(* were read from.  A statement is its own cache key.                      *)
(*                                                                         *)
(* The pool has one connection (SetMaxOpenConns(1)), so running a          *)
(* statement from first to last row is one step; everything a handler does *)
(* before and after it is a step of its own, and handlers interleave.      *)
(***************************************************************************)
EXTENDS Integers, Sequences, FiniteSets, SequencesExt

CONSTANTS
    Clients,         \* HTTP requests in progress at one time
    Selects,         \* SELECT, EXPLAIN, PRAGMA and WITH ... SELECT: read only
    Dmls,            \* statements whose prefix isReadQuery does not list
    CteDmls,         \* WITH ... INSERT/UPDATE/DELETE: a write isReadQuery calls a read
    CteReturnings,   \* the same with a RETURNING clause: it has result columns
    Scripts,         \* members of Dmls that hold several statements
    Oversized,       \* members of Selects with more than cacheMaxRows rows
    CacheMaxEntries, \* cacheMaxEntries
    TTL,             \* cacheTTL, in ticks
    DirectWrites,    \* whether anybody uses Batch, imports or schema endpoints
    MaxWrites        \* bound: mutations committed in a behaviour

ASSUME StatementsAssumption ==
    /\ Scripts \subseteq Dmls
    /\ Oversized \subseteq Selects
    /\ Selects # {}
    /\ Selects \cap (Dmls \cup CteDmls \cup CteReturnings) = {}
    /\ Dmls \cap (CteDmls \cup CteReturnings) = {}
    /\ CteDmls \cap CteReturnings = {}
ASSUME CapacityAssumption == CacheMaxEntries \in Nat \ {0}
ASSUME TtlAssumption == TTL \in Nat
ASSUME DirectWritesAssumption == DirectWrites \in BOOLEAN
ASSUME MaxWritesAssumption == MaxWrites \in Nat

VARIABLES
    db,      \* version of the database contents
    ll,      \* cacheStore.ll, front first
    byKey,   \* the keys of cacheStore.byKey
    pc,      \* where each request stands
    call,    \* what each request is running and the rows it holds
    served   \* version of the rows each client was last given

vars == <<db, ll, byKey, pc, call, served>>

Stmts == Selects \cup Dmls \cup CteDmls \cup CteReturnings

\* Mutant of isReadQuery: every statement counts as a read.
EverythingReads(s) == TRUE

\* The classification by prefix, not by what the statement does.
isReadQuery(s) == s \notin Dmls
Mutates(s) == s \notin Selects
HasColumns(s) == s \in Selects \cup CteReturnings

\* History variable: why rows may be out of date.  "race": they were read
\* before an invalidation that did not see them.  "bypass": a mutation was
\* committed after them that invalidates nothing.
Causes == {"race", "bypass"}

Entries == [key: Stmts, rows: 0..MaxWrites, age: 0..(TTL + 1), marks: SUBSET Causes]
Calls == [stmt: Stmts, paged: BOOLEAN, rows: 0..MaxWrites, marks: SUBSET Causes]
NoCall == [stmt |-> CHOOSE s \in Selects : TRUE, paged |-> FALSE, rows |-> 0, marks |-> {}]

Init ==
    /\ db = 0
    /\ ll = <<>>
    /\ byKey = {}
    /\ pc = [c \in Clients |-> "idle"]
    /\ call = [c \in Clients |-> NoCall]
    /\ served = [c \in Clients |-> 0]

----------------------------------------------------------------------------
(* The cache store: each operator is one critical section under cacheStore.mu. *)

\* The list element byKey[k] points to.
Pos(k) == CHOOSE i \in DOMAIN ll : ll[i].key = k

Live(k) == k \in byKey /\ ll[Pos(k)].age =< TTL

Unlinked(k) == IF k \in byKey THEN RemoveAt(ll, Pos(k)) ELSE ll

\* Mutant of GetHit: a hit renews the entry, so a popular page never expires.
GetHitRenews(k) ==
    /\ ll' = Cons([ll[Pos(k)] EXCEPT !.age = 0], Unlinked(k))
    /\ UNCHANGED byKey

\* Get on a hit moves the element to the front and leaves its expiry alone.
GetHit(k) ==
    /\ ll' = Cons(ll[Pos(k)], Unlinked(k))
    /\ UNCHANGED byKey

\* Get on a miss; an expired element is dropped on the way.
GetMiss(k) ==
    /\ ll' = Unlinked(k)
    /\ byKey' = byKey \ {k}

\* Mutant of Set: an eviction forgets delete(c.byKey, ...).
SetLeaksKey(k, rows, marks) ==
    LET pushed == Cons([key |-> k, rows |-> rows, age |-> 0, marks |-> marks], Unlinked(k))
    IN  /\ ll' = IF Len(pushed) > CacheMaxEntries THEN Front(pushed) ELSE pushed
        /\ byKey' = byKey \cup {k}

Set(k, rows, marks) ==
    IF k \in Oversized
    THEN UNCHANGED <<ll, byKey>>
    ELSE LET pushed == Cons([key |-> k, rows |-> rows, age |-> 0, marks |-> marks], Unlinked(k))
         IN  IF Len(pushed) > CacheMaxEntries
             THEN /\ ll' = Front(pushed)
                  /\ byKey' = (byKey \cup {k}) \ {Last(pushed).key}
             ELSE /\ ll' = pushed
                  /\ byKey' = byKey \cup {k}

----------------------------------------------------------------------------
(* History bookkeeping and the return of a request. *)

Blame(cause, entries) ==
    [i \in DOMAIN entries |-> [entries[i] EXCEPT !.marks = @ \cup {cause}]]

BlameCalls(cause) == [c \in Clients |-> [call[c] EXCEPT !.marks = @ \cup (IF pc[c] = "fill" THEN {cause} ELSE {})]]

\* A mutation nobody invalidates for.
Bypass ==
    /\ db < MaxWrites
    /\ db' = db + 1
    /\ ll' = Blame("bypass", ll)
    /\ UNCHANGED byKey

Return(c) ==
    /\ pc' = [pc EXCEPT ![c] = "idle"]
    /\ call' = [call EXCEPT ![c] = NoCall]

----------------------------------------------------------------------------
(* Requests. *)

Enter(c, s, paged) ==
    /\ pc' = [pc EXCEPT ![c] = "exec"]
    /\ call' = [call EXCEPT ![c] = [NoCall EXCEPT !.stmt = s, !.paged = paged]]

\* QueryPaged finds the result: no statement runs.
PagedHit(c, s) ==
    /\ pc[c] = "idle"
    /\ Live(s)
    /\ GetHit(s)
    /\ served' = [served EXCEPT ![c] = ll[Pos(s)].rows]
    /\ UNCHANGED <<db, pc, call>>

\* QueryPaged does not find it and goes on to QueryCtx.
PagedMiss(c, s) ==
    /\ pc[c] = "idle"
    /\ ~Live(s)
    /\ GetMiss(s)
    /\ Enter(c, s, TRUE)
    /\ UNCHANGED <<db, served>>

\* A query without page or pageSize, or from the record endpoints.
Unpaged(c, s) ==
    /\ pc[c] = "idle"
    /\ Enter(c, s, FALSE)
    /\ UNCHANGED <<db, ll, byKey, served>>

\* QueryContext on a statement that only reads; a paged result waits for Set.
ExecRead(c) ==
    /\ pc[c] = "exec"
    /\ call[c].stmt \in Selects
    /\ served' = [served EXCEPT ![c] = db]
    /\ IF call[c].paged
       THEN /\ pc' = [pc EXCEPT ![c] = "fill"]
            /\ call' = [call EXCEPT ![c].rows = db]
       ELSE Return(c)
    /\ UNCHANGED <<db, ll, byKey>>

\* Mutant of ExecWrite: the statement is executed twice.
ExecWriteTwice(c) ==
    /\ pc[c] = "exec"
    /\ ~isReadQuery(call[c].stmt)
    /\ db < MaxWrites
    /\ db' = db + 2
    /\ pc' = [pc EXCEPT ![c] = "inval"]
    /\ UNCHANGED <<ll, byKey, call, served>>

\* Mutant of ExecWrite: no deferred invalidation.
ExecWriteOnly(c) ==
    /\ pc[c] = "exec"
    /\ ~isReadQuery(call[c].stmt)
    /\ db < MaxWrites
    /\ db' = db + 1
    /\ Return(c)
    /\ UNCHANGED <<ll, byKey, served>>

\* ExecContext commits; the deferred invalidation is still to come.
ExecWrite(c) ==
    /\ pc[c] = "exec"
    /\ ~isReadQuery(call[c].stmt)
    /\ db < MaxWrites
    /\ db' = db + 1
    /\ pc' = [pc EXCEPT ![c] = "inval"]
    /\ UNCHANGED <<ll, byKey, call, served>>

\* QueryContext on a write: committed, and taken for a read afterwards.
ExecCte(c) ==
    /\ pc[c] = "exec"
    /\ isReadQuery(call[c].stmt)
    /\ Mutates(call[c].stmt)
    /\ Bypass
    /\ served' = [served EXCEPT ![c] = db + 1]
    /\ IF call[c].paged /\ HasColumns(call[c].stmt)
       THEN /\ pc' = [pc EXCEPT ![c] = "fill"]
            /\ call' = [BlameCalls("bypass") EXCEPT ![c].rows = db + 1]
       ELSE /\ pc' = [pc EXCEPT ![c] = "idle"]
            /\ call' = [BlameCalls("bypass") EXCEPT ![c] = NoCall]

\* The statement fails or its context is cancelled: execErr # nil, so neither
\* invalidation nor Set.
ExecFail(c) ==
    /\ pc[c] = "exec"
    /\ Return(c)
    /\ UNCHANGED <<db, ll, byKey, served>>

\* A script fails after its first statement was committed: execErr # nil too.
ExecPartial(c) ==
    /\ pc[c] = "exec"
    /\ call[c].stmt \in Scripts
    /\ Bypass
    /\ pc' = [pc EXCEPT ![c] = "idle"]
    /\ call' = [BlameCalls("bypass") EXCEPT ![c] = NoCall]
    /\ UNCHANGED served

\* Mutant of InvalidateCache: only the least recently used entry goes.
InvalidateOldest(c) ==
    /\ pc[c] = "inval"
    /\ ll' = IF ll = <<>> THEN ll ELSE Front(ll)
    /\ byKey' = {ll'[i].key : i \in DOMAIN ll'}
    /\ pc' = [pc EXCEPT ![c] = "idle"]
    /\ call' = [BlameCalls("race") EXCEPT ![c] = NoCall]
    /\ UNCHANGED <<db, served>>

\* The deferred invalidateOnWrite of QueryCtx; a Dml has no columns, so the
\* request then returns.
InvalidateCache(c) ==
    /\ pc[c] = "inval"
    /\ ll' = <<>>
    /\ byKey' = {}
    /\ pc' = [pc EXCEPT ![c] = "idle"]
    /\ call' = [BlameCalls("race") EXCEPT ![c] = NoCall]
    /\ UNCHANGED <<db, served>>

Fill(c) ==
    /\ pc[c] = "fill"
    /\ Set(call[c].stmt, call[c].rows, call[c].marks)
    /\ Return(c)
    /\ UNCHANGED <<db, served>>

\* Batch, ImportCSV, Create, AddColumn, AlterColumn, Drop...: committed on the
\* connection without QueryCtx.
DirectWrite ==
    /\ DirectWrites
    /\ Bypass
    /\ call' = BlameCalls("bypass")
    /\ UNCHANGED <<pc, served>>

\* Time passes; ages above TTL are all alike.
Tick ==
    /\ ll' = [i \in DOMAIN ll |-> [ll[i] EXCEPT !.age = IF @ > TTL THEN @ ELSE @ + 1]]
    /\ UNCHANGED <<db, byKey, pc, call, served>>

----------------------------------------------------------------------------

Begin(c) == \E s \in Stmts : PagedHit(c, s) \/ PagedMiss(c, s) \/ Unpaged(c, s)

Continue(c) ==
    \/ ExecRead(c) \/ ExecWrite(c) \/ ExecCte(c) \/ ExecFail(c) \/ ExecPartial(c)
    \/ InvalidateCache(c)
    \/ Fill(c)

Next == (\E c \in Clients : Begin(c) \/ Continue(c)) \/ DirectWrite \/ Tick

\* A request that was begun runs to its end, and time does not stop.  Nobody
\* has to make requests.
Fairness == (\A c \in Clients : WF_vars(Continue(c))) /\ WF_vars(Tick)

Spec == Init /\ [][Next]_vars /\ Fairness

----------------------------------------------------------------------------
(* Properties. *)

TypeOK ==
    /\ db \in 0..MaxWrites
    /\ ll \in Seq(Entries)
    /\ byKey \subseteq Stmts
    /\ pc \in [Clients -> {"idle", "exec", "inval", "fill"}]
    /\ call \in [Clients -> Calls]
    /\ served \in [Clients -> 0..MaxWrites]

Keys(s) == {s[i].key : i \in DOMAIN s}
OnePerKey(s) == \A i, j \in DOMAIN s : s[i].key = s[j].key => i = j

\* cacheStore keeps two structures for one set of entries.  The list never
\* holds two elements for a key, the map knows exactly the listed keys, and
\* the list stays within cacheMaxEntries: otherwise an element would be
\* unreachable for Get and for replacement, or Get would answer from an
\* element that was already evicted.
ListMapAgree ==
    /\ OnePerKey(ll)
    /\ byKey = Keys(ll)
    /\ Len(ll) =< CacheMaxEntries

InvalidationDue == \E c \in Clients : pc[c] = "inval"

\* invalidateOnWrite: an entry that is behind the database, with no
\* invalidation still to come, has one of the two recorded causes.  In
\* particular no interleaving of requests lets an entry survive an
\* invalidation that came after the write which outdated it.
StaleHasCause ==
    InvalidationDue \/ \A i \in DOMAIN ll : ll[i].rows < db => ll[i].marks # {}

\* "DML/DDL invalidates entire cache (conservative)": once every request has
\* returned, what is cached is what the database holds.
CoherentWhenQuiet ==
    (\A c \in Clients : pc[c] = "idle") => \A i \in DOMAIN ll : ll[i].rows = db

\* cacheTTL: whatever the invalidation missed, stale pages are not served
\* forever.  Mutations end in every behaviour (MaxWrites), and from some point
\* on every hit answers with the current contents.
EventuallyFresh ==
    <>[][\A c \in Clients, s \in Stmts : PagedHit(c, s) => served'[c] = db]_vars

\* With one request at a time and every write going through QueryCtx, the cache
\* cannot be told from a service that has none.
Direct == INSTANCE ReadService
AnswersAreCurrent == Direct!Spec

\* "DML should not be cached": the answer to a statement that changes the
\* database is never an answer from the cache.
DmlNotCached == \A i \in DOMAIN ll : ~Mutates(ll[i].key)

=============================================================================
