------------------------------ MODULE AerisStore ------------------------------
(***************************************************************************)
(* web/src/store/aeris.store.ts: the database selected, its schema and the *)
(* runs of the query editor.  An async function is its code up to the      *)
(* first await, one call in flight, and one action for every answer that   *)
(* resumes it.  A run is named by the gesture that started it.  The object *)
(* tree and the schema builder change tables of the database selected at   *)
(* the click and, when the server has answered, select it once more.       *)
(***************************************************************************)
EXTENDS EventLoop

VARIABLES
    activeDb,    \* activeDb
    schema,      \* the database whose schema is shown, None for []
    loading,     \* loading
    queryAbort,  \* the run queryAbort belongs to, 0 for null
    aborted,     \* runs whose controller was aborted
    result,      \* the run whose result is shown, 0 for null
    asked,       \* calls in flight
    lost,        \* history: runs in flight when another run's finally cleared queryAbort
    latest,      \* history: the call whose schema read is the last begun, 0 once it was answered
    overtaken    \* history: that read failed, an older one was answered after it, or it was
                 \* of another database than the one selected

aerisVars ==
    <<activeDb, schema, loading, queryAbort, aborted, result, asked, lost, latest, overtaken>>

readVars == <<latest, overtaken>>

Kinds == {"attach", "list", "attached", "select", "change", "query", "reread"}

Call(of, d, n, w) == [of |-> of, db |-> d, at |-> n, write |-> w]

InFlight == {c.at : c \in {b \in asked : b.of \in {"query", "reread"}}}

\* Call n begins to read a schema, is answered, fails.  other: the schema is not
\* that of the database selected.
ReadBegins(n, other) == latest' = n /\ overtaken' = other

ReadAnswered(n) ==
    /\ latest' = (IF n = latest THEN 0 ELSE latest)
    /\ overtaken' = (overtaken \/ latest = 0)

ReadFailed(n) ==
    /\ latest' = (IF n = latest THEN 0 ELSE latest)
    /\ overtaken' = (overtaken \/ n = latest)

AerisInit ==
    /\ activeDb = None /\ schema = None
    /\ loading = FALSE
    /\ queryAbort = 0 /\ aborted = {} /\ result = 0
    /\ asked = {}
    /\ lost = {} /\ latest = 0 /\ overtaken = FALSE

----------------------------------------------------------------------------
(* selectDb and attach *)

SelectDb(d) ==
    /\ Gesture
    /\ activeDb' = d
    /\ asked' = asked \cup {Call("select", d, Now, FALSE)}
    /\ ReadBegins(Now, FALSE)
    /\ UNCHANGED <<schema, loading, queryAbort, aborted, result, lost>>

SelectAnswered(c) ==
    /\ c.of = "select"
    /\ schema' = c.db
    /\ asked' = asked \ {c}
    /\ ReadAnswered(c.at)
    /\ UNCHANGED <<activeDb, loading, queryAbort, aborted, result, lost>>

\* selectDb has no try: the rejection ends it and its caller.
SelectFailed(c) ==
    /\ c.of = "select"
    /\ asked' = asked \ {c}
    /\ ReadFailed(c.at)
    /\ UNCHANGED <<activeDb, schema, loading, queryAbort, aborted, result, lost>>

Attach(d) ==
    /\ Gesture
    /\ loading' = TRUE
    /\ asked' = asked \cup {Call("attach", d, Now, FALSE)}
    /\ UNCHANGED <<activeDb, schema, queryAbort, aborted, result, lost, readVars>>

\* refreshDatabases, then selectDb up to its await.
AttachAnswered(c) ==
    \/ /\ c.of = "attach"
       /\ asked' = (asked \ {c}) \cup {[c EXCEPT !.of = "list"]}
       /\ UNCHANGED <<activeDb, schema, loading, readVars>>
    \/ /\ c.of = "list"
       /\ activeDb' = c.db
       /\ asked' = (asked \ {c}) \cup {[c EXCEPT !.of = "attached"]}
       /\ ReadBegins(c.at, FALSE)
       /\ UNCHANGED <<schema, loading>>
    \/ /\ c.of = "attached"
       /\ schema' = c.db
       /\ loading' = FALSE
       /\ asked' = asked \ {c}
       /\ ReadAnswered(c.at)
       /\ UNCHANGED activeDb

AttachStep(c) ==
    /\ AttachAnswered(c)
    /\ UNCHANGED <<queryAbort, aborted, result, lost>>

AttachFailed(c) ==
    /\ c.of \in {"attach", "list", "attached"}
    /\ loading' = FALSE
    /\ asked' = asked \ {c}
    /\ IF c.of = "attached" THEN ReadFailed(c.at) ELSE UNCHANGED readVars
    /\ UNCHANGED <<activeDb, schema, queryAbort, aborted, result, lost>>

----------------------------------------------------------------------------
(* act of the object tree and submit of the schema builder *)

\* A table is created, renamed, dropped, loses a column, gets an index or an import.
ChangeSchema ==
    /\ activeDb # None
    /\ Gesture
    /\ asked' = asked \cup {Call("change", activeDb, Now, FALSE)}
    /\ UNCHANGED <<activeDb, schema, loading, queryAbort, aborted, result, lost, readVars>>

\* Mutant of SchemaChanged: the database of the click is made the active one again
\* and its schema is not read.
SchemaChangedBare(c) ==
    /\ c.of = "change"
    /\ activeDb' = c.db
    /\ asked' = asked \ {c}
    /\ UNCHANGED <<schema, loading, queryAbort, aborted, result, lost, readVars>>

\* selectDb up to its await, of the database of the click: also when another has
\* been selected since.
SchemaChanged(c) ==
    /\ c.of = "change"
    /\ activeDb' = c.db
    /\ asked' = (asked \ {c}) \cup {[c EXCEPT !.of = "select"]}
    /\ ReadBegins(c.at, FALSE)
    /\ UNCHANGED <<schema, loading, queryAbort, aborted, result, lost>>

ChangeFailed(c) ==
    /\ c.of = "change"
    /\ asked' = asked \ {c}
    /\ UNCHANGED <<activeDb, schema, loading, queryAbort, aborted, result, lost, readVars>>

----------------------------------------------------------------------------
(* runQuery and cancelQuery *)

\* queryAbort?.abort()
Aborting == aborted \cup ({queryAbort} \ {0})

\* Mutant of RunQuery: the previous run is not aborted.
RunBeside(w) ==
    /\ activeDb # None
    /\ Gesture
    /\ queryAbort' = Now
    /\ loading' = TRUE
    /\ asked' = asked \cup {Call("query", activeDb, Now, w)}
    /\ UNCHANGED <<activeDb, schema, aborted, result, lost, readVars>>

\* w: the statement is not one that only reads.
RunQuery(w) ==
    /\ activeDb # None
    /\ Gesture
    /\ aborted' = Aborting
    /\ queryAbort' = Now
    /\ loading' = TRUE
    /\ asked' = asked \cup {Call("query", activeDb, Now, w)}
    /\ UNCHANGED <<activeDb, schema, result, lost, readVars>>

CancelQuery ==
    /\ loading
    /\ Gesture
    /\ aborted' = Aborting
    /\ UNCHANGED <<activeDb, schema, loading, queryAbort, result, asked, lost, readVars>>

\* The finally of c's run: it clears the controller whoever's it is by now.
Finally(c) ==
    /\ loading' = FALSE
    /\ queryAbort' = 0
    /\ asked' = asked \ {c}
    /\ lost' = lost \cup (InFlight \ {c.at})

\* The signal goes with the query: an aborted one rejects, whatever the server did.
QueryAnswered(c) ==
    /\ c.of = "query"
    /\ c.at \notin aborted
    /\ result' = c.at
    /\ IF c.write
         THEN /\ asked' = (asked \ {c}) \cup {[c EXCEPT !.of = "reread"]}
              /\ ReadBegins(c.at, c.db # activeDb)
              /\ UNCHANGED <<loading, queryAbort, lost>>
         ELSE Finally(c) /\ UNCHANGED readVars
    /\ UNCHANGED <<activeDb, schema, aborted>>

\* The schema of the database that was active when the run started.
RereadAnswered(c) ==
    /\ c.of = "reread"
    /\ schema' = c.db
    /\ Finally(c)
    /\ ReadAnswered(c.at)
    /\ UNCHANGED <<activeDb, aborted, result>>

RunFailed(c) ==
    /\ c.of \in {"query", "reread"}
    /\ Finally(c)
    /\ IF c.of = "reread" THEN ReadFailed(c.at) ELSE UNCHANGED readVars
    /\ UNCHANGED <<activeDb, schema, aborted, result>>

----------------------------------------------------------------------------

\* The select element fires when its value changes, the button at any time.
HeaderGesture ==
    \/ \E d \in Dbs \ {activeDb} : SelectDb(d)
    \/ \E d \in Dbs : Attach(d)

EditorGesture ==
    \/ \E w \in BOOLEAN : RunQuery(w)
    \/ CancelQuery

AerisGesture == HeaderGesture \/ EditorGesture \/ ChangeSchema

AerisAnswer ==
    \E c \in asked :
        \/ SelectAnswered(c) \/ SelectFailed(c)
        \/ AttachStep(c) \/ AttachFailed(c)
        \/ SchemaChanged(c) \/ ChangeFailed(c)
        \/ QueryAnswered(c) \/ RereadAnswered(c) \/ RunFailed(c)

----------------------------------------------------------------------------
(* Properties. *)

AerisTypeOK ==
    /\ activeDb \in Dbs \cup {None} /\ schema \in Dbs \cup {None}
    /\ loading \in BOOLEAN
    /\ queryAbort \in 0..MaxGestures /\ result \in 0..MaxGestures
    /\ aborted \subseteq 1..MaxGestures /\ lost \subseteq 1..MaxGestures
    /\ asked \subseteq [of : Kinds, db : Dbs, at : 1..MaxGestures, write : BOOLEAN]
    /\ latest \in 0..MaxGestures /\ overtaken \in BOOLEAN

\* runQuery aborts the run before it, so that the result shown is never
\* replaced by that of an older run, unless the older one was in flight when
\* another run's finally cleared queryAbort: from then on nothing aborts it.
ResultIsNewest == [][result' >= result \/ result' \in lost]_aerisVars

\* The object tree shows the database selected as soon as the read of a schema
\* begun last is answered, however many others overlap it, are answered before it
\* or fail, and whichever database a change of tables selects again.  Excused are
\* a read that failed or was overtaken by an older one, and the last read of a run
\* that was started in another database.
SchemaIsActive == latest = 0 /\ ~overtaken => schema = activeDb

=============================================================================
