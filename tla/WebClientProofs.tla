---------------------------- MODULE WebClientProofs ----------------------------
(***************************************************************************)
(* Theorems about the run of queries and the schema shown by aeris.store.  *)
(* The explorer's actions leave the store's variables alone, so all of     *)
(* them are stutters here.                                                 *)
(***************************************************************************)
EXTENDS WebClient, SequenceTheorems, FiniteSetTheorems, TLAPS

Runs == {c \in asked : c.of \in {"query", "reread"}}

\* Gestures number the calls, and only a statement that writes re-reads the schema.
Numbered ==
    /\ gestures \in 0..MaxGestures
    /\ AerisTypeOK
    /\ \A c \in asked : c.at =< gestures /\ (c.of = "reread" => c.write)
    /\ queryAbort =< gestures /\ result =< gestures /\ latest =< gestures
    /\ \A b, c \in asked : b.at = c.at => b = c

\* A run that may still show its result is the newest one or was lost.
Ordered ==
    /\ \A c \in Runs : c.at \in aborted \cup {queryAbort} \cup lost
    /\ queryAbort # 0 => result =< queryAbort /\ \A c \in Runs : c.at =< queryAbort

\* The read begun last, unless it was overtaken, is one of the database selected.
Settled ==
    ~overtaken =>
        /\ latest = 0 => schema = activeDb
        /\ \A c \in asked : c.at = latest => c.db = activeDb

AerisInv == Numbered /\ Ordered /\ Settled

-----------------------------------------------------------------------------
(* Numbered *)

CallType == [of : Kinds, db : Dbs, at : 1..MaxGestures, write : BOOLEAN]

\* A gesture has a number that no call has.
LEMMA GestureIsNew ==
    ASSUME gestures \in 0..MaxGestures, Gesture
    PROVE  /\ Now \in 1..MaxGestures
           /\ gestures' = Now
           /\ gestures' \in 0..MaxGestures
           /\ Now > gestures
BY GesturesAssumption DEF Gesture, Now

\* A call that is made.
LEMMA CallIs ==
    ASSUME NEW of \in Kinds, NEW d \in Dbs, NEW n \in 1..MaxGestures, NEW w \in BOOLEAN
    PROVE  /\ Call(of, d, n, w) \in CallType
           /\ Call(of, d, n, w).of = of
           /\ Call(of, d, n, w).db = d
           /\ Call(of, d, n, w).at = n
           /\ Call(of, d, n, w).write = w
BY DEF Call, CallType

\* A call that awaits the next thing.
LEMMA NextCallIs ==
    ASSUME NEW c \in CallType, NEW of \in Kinds
    PROVE  /\ [c EXCEPT !.of = of] \in CallType
           /\ [c EXCEPT !.of = of].of = of
           /\ [c EXCEPT !.of = of].db = c.db
           /\ [c EXCEPT !.of = of].at = c.at
           /\ [c EXCEPT !.of = of].write = c.write
BY DEF CallType

\* What Numbered says of the calls, after a gesture, an answer and a last answer.
CallsNumbered ==
    /\ asked \subseteq CallType
    /\ \A c \in asked : c.at =< gestures /\ (c.of = "reread" => c.write)
    /\ \A b, c \in asked : b.at = c.at => b = c

LEMMA CallsAfterCall ==
    ASSUME CallsNumbered, gestures \in 0..MaxGestures, gestures' = Now, Now \in 1..MaxGestures,
           NEW of \in Kinds \ {"reread"}, NEW d \in Dbs, NEW w \in BOOLEAN,
           asked' = asked \cup {Call(of, d, Now, w)}
    PROVE  CallsNumbered'
<1> DEFINE n == Call(of, d, Now, w)
<1>1. n \in CallType /\ n.of = of /\ n.at = Now
  BY CallIs
<1>2. \A c \in asked : c.at < Now
  BY GesturesAssumption DEF CallsNumbered, Now, CallType
<1> HIDE DEF n
<1>3. asked' = asked \cup {n}
  BY DEF n
<1>4. \A b, c \in asked' : b.at = c.at => b = c
  BY <1>1, <1>2, <1>3, GesturesAssumption DEF CallsNumbered, Now
<1>5. \A c \in asked' : c.at =< gestures' /\ (c.of = "reread" => c.write)
  BY <1>1, <1>2, <1>3, GesturesAssumption DEF CallsNumbered, Now, CallType
<1> QED BY <1>1, <1>3, <1>4, <1>5 DEF CallsNumbered

LEMMA CallsAfterAnswer ==
    ASSUME CallsNumbered, gestures' = gestures, NEW c \in asked, NEW of \in Kinds,
           of = "reread" => c.write,
           asked' = (asked \ {c}) \cup {[c EXCEPT !.of = of]}
    PROVE  CallsNumbered'
<1> DEFINE n == [c EXCEPT !.of = of]
<1>1. n \in CallType /\ n.of = of /\ n.at = c.at /\ n.write = c.write
  BY NextCallIs DEF CallsNumbered
<1> HIDE DEF n
<1>2. asked' = (asked \ {c}) \cup {n}
  BY DEF n
<1>3. \A b, e \in asked' : b.at = e.at => b = e
  BY <1>1, <1>2 DEF CallsNumbered
<1> QED BY <1>1, <1>2, <1>3 DEF CallsNumbered

LEMMA CallsAfterLast ==
    ASSUME CallsNumbered, gestures' = gestures, asked' \subseteq asked
    PROVE  CallsNumbered'
BY DEF CallsNumbered

LEMMA NumberedIs ==
    Numbered <=>
        /\ gestures \in 0..MaxGestures
        /\ activeDb \in Dbs \cup {None} /\ schema \in Dbs \cup {None}
        /\ loading \in BOOLEAN
        /\ queryAbort \in 0..MaxGestures /\ result \in 0..MaxGestures
        /\ aborted \subseteq 1..MaxGestures /\ lost \subseteq 1..MaxGestures
        /\ latest \in 0..MaxGestures /\ overtaken \in BOOLEAN
        /\ queryAbort =< gestures /\ result =< gestures /\ latest =< gestures
        /\ CallsNumbered
BY DEF Numbered, AerisTypeOK, CallsNumbered, CallType

LEMMA AerisStart == Init => AerisInv
<1> SUFFICES ASSUME Init PROVE AerisInv
  OBVIOUS
<1>1. asked = {} /\ Runs = {} /\ schema = None /\ activeDb = None
  BY DEF Init, AerisInit, Runs
<1>2. Numbered
  <2>1. CallsNumbered
    BY <1>1 DEF CallsNumbered
  <2>2. /\ gestures = 0 /\ loading = FALSE /\ queryAbort = 0 /\ aborted = {} /\ result = 0
        /\ lost = {} /\ latest = 0 /\ overtaken = FALSE
    BY DEF Init, AerisInit
  <2>3. loading \in BOOLEAN /\ overtaken \in BOOLEAN
    BY <2>2
  <2>4. 0 \in 0..MaxGestures /\ gestures =< 0 /\ 0 =< gestures
    BY <2>2, GesturesAssumption
  <2> QED BY <1>1, <2>1, <2>2, <2>3, <2>4, NumberedIs
<1>3. Ordered /\ Settled
  BY <1>1 DEF Init, AerisInit, Ordered, Settled
<1> QED BY <1>2, <1>3 DEF AerisInv

\* What the steps of a read do to the history of the reads.
LEMMA ReadsNumbered ==
    ASSUME Numbered, gestures' = gestures, NEW c \in asked,
           \/ UNCHANGED readVars
           \/ \E b \in BOOLEAN : ReadBegins(c.at, b)
           \/ ReadAnswered(c.at) \/ ReadFailed(c.at)
    PROVE  latest' \in 0..MaxGestures /\ overtaken' \in BOOLEAN /\ latest' =< gestures'
<1>1. c.at \in 1..MaxGestures /\ c.at =< gestures
  BY NumberedIs DEF CallsNumbered, CallType
<1>2. gestures \in Nat /\ latest \in 0..MaxGestures /\ latest =< gestures /\ overtaken \in BOOLEAN
  BY NumberedIs, GesturesAssumption
<1>3. overtaken' \in BOOLEAN
  BY <1>2 DEF readVars, ReadBegins, ReadAnswered, ReadFailed
<1>4. latest' \in {0, latest, c.at}
  BY DEF readVars, ReadBegins, ReadAnswered, ReadFailed
<1> QED BY <1>1, <1>2, <1>3, <1>4, GesturesAssumption

LEMMA FlightIsNumbered == CallsNumbered => InFlight \subseteq 1..MaxGestures
BY DEF CallsNumbered, InFlight, CallType

LEMMA NumberedAnswer ==
    ASSUME Numbered, gestures' = gestures, NEW c \in asked,
           \/ SelectAnswered(c) \/ SelectFailed(c)
           \/ AttachStep(c) \/ AttachFailed(c)
           \/ SchemaChanged(c) \/ ChangeFailed(c)
           \/ QueryAnswered(c) \/ RereadAnswered(c) \/ RunFailed(c)
    PROVE  Numbered'
<1>1. CallsNumbered /\ c \in CallType /\ c.at =< gestures
  BY NumberedIs DEF CallsNumbered
<1>2. InFlight \subseteq 1..MaxGestures
  BY <1>1, FlightIsNumbered
<1>3. CallsNumbered'
  <2>1. CASE SelectAnswered(c)
    BY <1>1, <2>1, CallsAfterLast DEF SelectAnswered
  <2>2. CASE SelectFailed(c)
    BY <1>1, <2>2, CallsAfterLast DEF SelectFailed
  <2>3. CASE AttachStep(c)
    BY <1>1, <2>3, CallsAfterLast, CallsAfterAnswer DEF AttachStep, AttachAnswered, Kinds
  <2>4. CASE AttachFailed(c)
    BY <1>1, <2>4, CallsAfterLast DEF AttachFailed
  <2>5. CASE QueryAnswered(c)
    <3>1. CASE c.write
      BY <1>1, <2>5, <3>1, CallsAfterAnswer DEF QueryAnswered, Kinds
    <3>2. CASE ~c.write
      BY <1>1, <2>5, <3>2, CallsAfterLast DEF QueryAnswered, Finally
    <3> QED BY <3>1, <3>2
  <2>6. CASE RereadAnswered(c)
    BY <1>1, <2>6, CallsAfterLast DEF RereadAnswered, Finally
  <2>7. CASE RunFailed(c)
    BY <1>1, <2>7, CallsAfterLast DEF RunFailed, Finally
  <2>8. CASE SchemaChanged(c)
    BY <1>1, <2>8, CallsAfterAnswer DEF SchemaChanged, Kinds
  <2>9. CASE ChangeFailed(c)
    BY <1>1, <2>9, CallsAfterLast DEF ChangeFailed
  <2> QED BY <2>1, <2>2, <2>3, <2>4, <2>5, <2>6, <2>7, <2>8, <2>9
<1>4. /\ c.db \in Dbs /\ c.at \in 1..MaxGestures /\ c.write \in BOOLEAN
  BY <1>1 DEF CallType
<1> DEFINE Rest ==
      /\ gestures \in 0..MaxGestures
      /\ activeDb \in Dbs \cup {None} /\ schema \in Dbs \cup {None}
      /\ loading \in BOOLEAN
      /\ queryAbort \in 0..MaxGestures /\ result \in 0..MaxGestures
      /\ aborted \subseteq 1..MaxGestures /\ lost \subseteq 1..MaxGestures
      /\ queryAbort =< gestures /\ result =< gestures
<1>5. Rest
  BY NumberedIs
<1>6. Rest'
  <2>1. CASE SelectAnswered(c) \/ SelectFailed(c) \/ SchemaChanged(c) \/ ChangeFailed(c)
    BY <1>4, <1>5, <2>1 DEF SelectAnswered, SelectFailed, SchemaChanged, ChangeFailed
  <2>2. CASE AttachStep(c) \/ AttachFailed(c)
    BY <1>4, <1>5, <2>2 DEF AttachStep, AttachAnswered, AttachFailed
  <2>3. CASE QueryAnswered(c)
    <3>1. result' = c.at /\ lost' \subseteq lost \cup InFlight /\ queryAbort' \in {0, queryAbort}
      BY <2>3 DEF QueryAnswered, Finally
    <3>2. loading' \in BOOLEAN
      BY <1>5, <2>3 DEF QueryAnswered, Finally
    <3>3. UNCHANGED <<activeDb, schema, aborted>>
      BY <2>3 DEF QueryAnswered
    <3>4. lost' \subseteq 1..MaxGestures
      BY <1>2, <1>5, <3>1
    <3> QED BY <1>1, <1>4, <1>5, <3>1, <3>2, <3>3, <3>4, GesturesAssumption
  <2>4. CASE RereadAnswered(c) \/ RunFailed(c)
    <3>1. queryAbort' = 0 /\ lost' \subseteq lost \cup InFlight /\ loading' \in BOOLEAN
      BY <2>4 DEF RereadAnswered, RunFailed, Finally
    <3>2. /\ UNCHANGED <<activeDb, aborted, result>>
          /\ schema' \in {schema, c.db}
      BY <2>4 DEF RereadAnswered, RunFailed
    <3>3. lost' \subseteq 1..MaxGestures
      BY <1>2, <1>5, <3>1
    <3> QED BY <1>4, <1>5, <3>1, <3>2, <3>3, GesturesAssumption
  <2> QED BY <2>1, <2>2, <2>3, <2>4
<1>7. latest' \in 0..MaxGestures /\ overtaken' \in BOOLEAN /\ latest' =< gestures'
  <2>1. CASE SelectAnswered(c) \/ RereadAnswered(c) \/ SelectFailed(c) \/ ChangeFailed(c)
    BY <2>1, ReadsNumbered DEF SelectAnswered, RereadAnswered, SelectFailed, ChangeFailed
  <2>2. CASE AttachStep(c)
    BY <2>2, ReadsNumbered DEF AttachStep, AttachAnswered
  <2>3. CASE AttachFailed(c) \/ RunFailed(c)
    BY <2>3, ReadsNumbered DEF AttachFailed, RunFailed
  <2>4. CASE SchemaChanged(c) \/ QueryAnswered(c)
    BY <2>4, ReadsNumbered DEF SchemaChanged, QueryAnswered
  <2> QED BY <2>1, <2>2, <2>3, <2>4
<1> QED BY <1>3, <1>6, <1>7 DEF Numbered, AerisTypeOK, CallsNumbered, CallType

LEMMA NumberedGesture == Numbered /\ AerisGesture => Numbered'
<1> SUFFICES ASSUME Numbered, AerisGesture PROVE Numbered'
  OBVIOUS
<1> USE GesturesAssumption
<1>1. CallsNumbered
  BY NumberedIs
<1> DEFINE Rest ==
      /\ gestures \in 0..MaxGestures
      /\ activeDb \in Dbs \cup {None} /\ schema \in Dbs \cup {None}
      /\ loading \in BOOLEAN
      /\ queryAbort \in 0..MaxGestures /\ result \in 0..MaxGestures
      /\ aborted \subseteq 1..MaxGestures /\ lost \subseteq 1..MaxGestures
      /\ latest \in 0..MaxGestures /\ overtaken \in BOOLEAN
      /\ queryAbort =< gestures /\ result =< gestures /\ latest =< gestures
<1>2. Rest
  BY NumberedIs
<1>3. Gesture
  BY DEF AerisGesture, HeaderGesture, EditorGesture, SelectDb, Attach, RunQuery, CancelQuery, ChangeSchema
<1>4. /\ gestures' = Now /\ Now \in 1..MaxGestures /\ Now > gestures
      /\ gestures' \in 0..MaxGestures
  BY <1>2, <1>3, GestureIsNew
<1>5. Aborting \subseteq 1..MaxGestures
  BY <1>2 DEF Aborting
<1>6. ASSUME NEW d \in Dbs, SelectDb(d) PROVE CallsNumbered' /\ Rest'
  <2>1. CallsNumbered'
    BY <1>1, <1>2, <1>4, <1>6, CallsAfterCall DEF SelectDb, Kinds
  <2>2. /\ activeDb' = d /\ latest' = Now
        /\ UNCHANGED <<schema, queryAbort, aborted, result, lost>>
    BY <1>6 DEF SelectDb, ReadBegins
  <2>3. loading' \in BOOLEAN /\ overtaken' \in BOOLEAN
    BY <1>2, <1>6 DEF SelectDb, ReadBegins
  <2> QED BY <1>2, <1>4, <1>6, <2>1, <2>2, <2>3
<1>7. ASSUME NEW d \in Dbs, Attach(d) PROVE CallsNumbered' /\ Rest'
  <2>1. CallsNumbered'
    BY <1>1, <1>2, <1>4, <1>7, CallsAfterCall DEF Attach, Kinds
  <2> QED BY <1>2, <1>4, <1>7, <2>1 DEF Attach, readVars
<1>8. ASSUME NEW w \in BOOLEAN, RunQuery(w) PROVE CallsNumbered' /\ Rest'
  <2>1. CallsNumbered'
    BY <1>1, <1>2, <1>4, <1>8, CallsAfterCall DEF RunQuery, Kinds
  <2>2. UNCHANGED <<activeDb, schema, result, lost, latest, overtaken>> /\ aborted' = Aborting
        /\ queryAbort' = Now /\ loading' = TRUE
    BY <1>8 DEF RunQuery, readVars
  <2> QED BY <1>2, <1>4, <1>5, <2>1, <2>2
<1>9. ASSUME CancelQuery PROVE CallsNumbered' /\ Rest'
  <2>1. CallsNumbered'
    BY <1>1, <1>2, <1>4, <1>9 DEF CancelQuery, CallsNumbered, CallType
  <2>2. UNCHANGED <<activeDb, schema, queryAbort, result, lost, latest>> /\ aborted' = Aborting
    BY <1>9 DEF CancelQuery, readVars
  <2>3. loading' \in BOOLEAN /\ overtaken' \in BOOLEAN
    BY <1>2, <1>9 DEF CancelQuery, readVars
  <2> QED BY <1>2, <1>4, <1>5, <2>1, <2>2, <2>3
<1>10. ASSUME ChangeSchema PROVE CallsNumbered' /\ Rest'
  <2>1. activeDb \in Dbs
    BY <1>2, <1>10 DEF ChangeSchema
  <2>2. CallsNumbered'
    BY <1>1, <1>2, <1>4, <1>10, <2>1, CallsAfterCall DEF ChangeSchema, Kinds
  <2> QED BY <1>2, <1>4, <1>10, <2>2 DEF ChangeSchema, readVars
<1> QED BY <1>6, <1>7, <1>8, <1>9, <1>10
        DEF AerisGesture, HeaderGesture, EditorGesture, Numbered, AerisTypeOK, CallsNumbered, CallType

-----------------------------------------------------------------------------
(* Ordered *)

LEMMA OrderedAnswer ==
    ASSUME Numbered, Ordered, NEW c \in asked,
           \/ SelectAnswered(c) \/ SelectFailed(c)
           \/ AttachStep(c) \/ AttachFailed(c)
           \/ SchemaChanged(c) \/ ChangeFailed(c)
           \/ QueryAnswered(c) \/ RereadAnswered(c) \/ RunFailed(c)
    PROVE  Ordered' /\ (result' >= result \/ result' \in lost)
<1>1. CallsNumbered /\ c \in CallType /\ queryAbort \in Nat /\ result \in Nat
  BY NumberedIs, GesturesAssumption DEF CallsNumbered
<1>2. c.at \in Nat /\ \A b \in asked : b.at \in Nat
  BY <1>1, GesturesAssumption DEF CallsNumbered, CallType
<1>7. c.at # 0
  BY <1>1, GesturesAssumption DEF CallType
<1> DEFINE Tracked(b) == b.at \in aborted \cup {queryAbort} \cup lost
<1>3. \A b \in Runs : Tracked(b)
  BY DEF Ordered
<1>4. CASE \/ SelectAnswered(c) \/ SelectFailed(c)
           \/ AttachStep(c) \/ AttachFailed(c)
           \/ SchemaChanged(c) \/ ChangeFailed(c)
  <2>1. UNCHANGED <<queryAbort, aborted, result, lost>>
    BY <1>4 DEF SelectAnswered, SelectFailed, AttachStep, AttachFailed, SchemaChanged, ChangeFailed
  <2>2. CASE AttachStep(c) \/ SchemaChanged(c)
    <3>1. ASSUME NEW of \in {"list", "attached", "select"},
                 asked' = (asked \ {c}) \cup {[c EXCEPT !.of = of]}
          PROVE  Runs' \subseteq Runs
      <4>1. [c EXCEPT !.of = of].of = of
        BY <1>1, NextCallIs DEF Kinds
      <4> QED BY <3>1, <4>1 DEF Runs
    <3>2. Runs' \subseteq Runs
      BY <2>2, <3>1 DEF AttachStep, AttachAnswered, SchemaChanged, Runs
    <3> QED BY <1>1, <1>3, <2>1, <3>2 DEF Ordered
  <2>3. CASE SelectAnswered(c) \/ SelectFailed(c) \/ AttachFailed(c) \/ ChangeFailed(c)
    <3>1. Runs' \subseteq Runs
      BY <2>3 DEF SelectAnswered, SelectFailed, AttachFailed, ChangeFailed, Runs
    <3> QED BY <1>1, <1>3, <2>1, <3>1 DEF Ordered
  <2> QED BY <1>4, <2>2, <2>3
<1>5. ASSUME Finally(c), aborted' = aborted, c \in Runs
      PROVE  Ordered'
  <2>1. queryAbort' = 0 /\ lost' = lost \cup (InFlight \ {c.at})
    BY <1>5 DEF Finally
  <2>2. \A b \in Runs' : b \in Runs /\ b # c
    BY <1>5 DEF Finally, Runs
  <2>3. \A b \in Runs' : b.at \in InFlight /\ b.at # c.at
    BY <1>1, <1>5, <2>2 DEF InFlight, Runs, CallsNumbered
  <2> QED BY <2>1, <2>3 DEF Ordered
<1>6. CASE QueryAnswered(c)
  <2>1. c \in Runs /\ c.at \notin aborted /\ result' = c.at /\ aborted' = aborted
    BY <1>6 DEF QueryAnswered, Runs
  <2>2. c.at = queryAbort \/ c.at \in lost
    BY <1>3, <2>1
  <2>3. c.at >= result \/ c.at \in lost
    BY <1>1, <1>2, <1>7, <2>2 DEF Ordered
  <2>4. CASE ~c.write
    <3>1. Finally(c) /\ aborted' = aborted
      BY <1>6, <2>4 DEF QueryAnswered
    <3>2. lost \subseteq lost'
      BY <3>1 DEF Finally
    <3> QED BY <1>2, <1>5, <2>1, <2>3, <3>1, <3>2
  <2>5. CASE c.write
    <3>1. /\ asked' = (asked \ {c}) \cup {[c EXCEPT !.of = "reread"]}
          /\ UNCHANGED <<queryAbort, lost>>
      BY <1>6, <2>5 DEF QueryAnswered
    <3>2. [c EXCEPT !.of = "reread"].at = c.at
      BY <1>1, NextCallIs DEF Kinds
    <3>3. \A b \in Runs' : b.at \in aborted' \cup {queryAbort'} \cup lost'
      BY <1>3, <2>1, <3>1, <3>2 DEF Runs
    <3>4. queryAbort # 0 => c.at =< queryAbort /\ \A b \in Runs' : b.at =< queryAbort
      BY <2>1, <3>1, <3>2 DEF Ordered, Runs
    <3> QED BY <2>1, <2>3, <3>1, <3>3, <3>4 DEF Ordered
  <2> QED BY <2>4, <2>5
<1>8. CASE RereadAnswered(c) \/ RunFailed(c)
  <2>1. c \in Runs /\ Finally(c) /\ UNCHANGED <<aborted, result>>
    BY <1>8 DEF RereadAnswered, RunFailed, Runs
  <2> QED BY <1>1, <1>5, <2>1
<1> QED BY <1>4, <1>6, <1>8

LEMMA OrderedGesture ==
    ASSUME Numbered, Ordered, AerisGesture
    PROVE  Ordered' /\ result' >= result
<1>1. CallsNumbered /\ queryAbort \in Nat /\ result \in Nat /\ queryAbort =< gestures /\ result =< gestures
  BY NumberedIs, GesturesAssumption DEF CallsNumbered
<1>2. \A b \in asked : b.at \in Nat /\ b.at =< gestures
  BY <1>1, GesturesAssumption DEF CallsNumbered, CallType
<1>3. gestures \in Nat /\ Now \in Nat /\ Now > gestures
  BY GesturesAssumption DEF Numbered, Now
<1>4. result' = result
  BY DEF AerisGesture, HeaderGesture, EditorGesture, SelectDb, Attach, RunQuery, CancelQuery, ChangeSchema
<1>5. CASE (\E d \in Dbs : SelectDb(d) \/ Attach(d)) \/ CancelQuery \/ ChangeSchema
  <2>1. Runs' = Runs
    <3>1. ASSUME NEW of \in {"select", "attach", "change"}, NEW d,
                 asked' = asked \cup {Call(of, d, Now, FALSE)}
          PROVE  Runs' = Runs
      BY <3>1 DEF Runs, Call
    <3> QED BY <1>5, <3>1 DEF SelectDb, Attach, CancelQuery, ChangeSchema, Runs
  <2>2. queryAbort' = queryAbort /\ lost' = lost /\ aborted \subseteq aborted'
    BY <1>5 DEF SelectDb, Attach, CancelQuery, ChangeSchema, Aborting
  <2> QED BY <1>1, <1>4, <2>1, <2>2 DEF Ordered
<1>6. ASSUME NEW w \in BOOLEAN, RunQuery(w)
      PROVE  Ordered'
  <2>1. /\ queryAbort' = Now /\ lost' = lost
        /\ aborted' = aborted \cup ({queryAbort} \ {0})
        /\ asked' = asked \cup {Call("query", activeDb, Now, w)}
    BY <1>6 DEF RunQuery, Aborting
  <2>2. Call("query", activeDb, Now, w).at = Now
    BY DEF Call
  <2>3. \A b \in Runs' : b \in Runs \/ b.at = Now
    BY <2>1, <2>2 DEF Runs
  <2>4. \A b \in Runs' : b.at \in aborted' \cup {queryAbort'} \cup lost'
    <3>1. \A b \in Runs : b.at # 0
      BY <1>1, GesturesAssumption DEF Runs, CallsNumbered, CallType
    <3> QED BY <2>1, <2>3, <3>1 DEF Ordered
  <2>5. \A b \in Runs' : b.at =< Now
    BY <1>2, <1>3, <2>3 DEF Runs
  <2> QED BY <1>1, <1>3, <1>4, <2>1, <2>4, <2>5 DEF Ordered
<1>7. Ordered'
  BY <1>5, <1>6 DEF AerisGesture, HeaderGesture, EditorGesture
<1> QED BY <1>1, <1>4, <1>7

-----------------------------------------------------------------------------
(* Settled *)

LEMMA SettledGesture ==
    ASSUME Numbered, Settled, AerisGesture
    PROVE  Settled'
<1>1. /\ gestures \in Nat /\ latest \in Nat /\ latest =< gestures /\ Now > gestures
      /\ \A c \in asked : c.at \in Nat /\ c.at < Now
  BY NumberedIs, GesturesAssumption DEF CallsNumbered, CallType, Now
<1>2. ASSUME NEW d \in Dbs, SelectDb(d)
      PROVE  Settled'
  <2> DEFINE n == Call("select", d, Now, FALSE)
  <2>1. n.at = Now /\ n.db = d
    BY DEF Call
  <2>2. asked' = asked \cup {n} /\ activeDb' = d /\ latest' = Now
    BY <1>2 DEF SelectDb, ReadBegins
  <2> HIDE DEF n
  <2> QED BY <1>1, <2>1, <2>2 DEF Settled
<1>3. ASSUME NEW of, NEW d, NEW w, asked' = asked \cup {Call(of, d, Now, w)},
             UNCHANGED <<activeDb, schema, readVars>>
      PROVE  Settled'
  <2>1. Call(of, d, Now, w).at # latest
    BY <1>1 DEF Call
  <2> QED BY <1>3, <2>1 DEF Settled, readVars
<1>4. CASE \E d \in Dbs : Attach(d)
  BY <1>3, <1>4 DEF Attach
<1>5. CASE \E w \in BOOLEAN : RunQuery(w)
  BY <1>3, <1>5 DEF RunQuery
<1>6. CASE CancelQuery
  BY <1>6 DEF CancelQuery, Settled, readVars
<1>7. CASE ChangeSchema
  BY <1>3, <1>7 DEF ChangeSchema
<1> QED BY <1>2, <1>4, <1>5, <1>6, <1>7 DEF AerisGesture, HeaderGesture, EditorGesture

LEMMA SettledAnswer ==
    ASSUME Numbered, Settled, NEW c \in asked,
           \/ SelectAnswered(c) \/ SelectFailed(c)
           \/ AttachStep(c) \/ AttachFailed(c)
           \/ SchemaChanged(c) \/ ChangeFailed(c)
           \/ QueryAnswered(c) \/ RereadAnswered(c) \/ RunFailed(c)
    PROVE  Settled'
<1>1. /\ c \in CallType
      /\ \A b \in asked : b.at # 0 /\ (b.at = c.at => b = c)
  BY NumberedIs DEF CallsNumbered, CallType
\* A read that is answered shows its database.
<1>2. ASSUME ReadAnswered(c.at), schema' = c.db, activeDb' = activeDb, asked' = asked \ {c}
      PROVE  Settled'
  BY <1>1, <1>2 DEF ReadAnswered, Settled
<1>3. ASSUME ReadFailed(c.at) \/ UNCHANGED readVars, asked' = asked \ {c}, UNCHANGED <<activeDb, schema>>
      PROVE  Settled'
  BY <1>1, <1>3 DEF ReadFailed, readVars, Settled
\* A call awaits the next thing, which may be the read begun last.
<1>4. ASSUME NEW of \in Kinds, asked' = (asked \ {c}) \cup {[c EXCEPT !.of = of]},
             \/ UNCHANGED <<activeDb, schema, readVars>>
             \/ ReadBegins(c.at, c.db # activeDb')
      PROVE  Settled'
  <2> DEFINE n == [c EXCEPT !.of = of]
  <2>1. n.at = c.at /\ n.db = c.db
    BY <1>1, NextCallIs
  <2> HIDE DEF n
  <2>2. asked' = (asked \ {c}) \cup {n}
    BY <1>4 DEF n
  <2> QED BY <1>1, <1>4, <2>1, <2>2 DEF ReadBegins, readVars, Settled
<1>5. CASE SelectAnswered(c) \/ RereadAnswered(c)
  BY <1>2, <1>5 DEF SelectAnswered, RereadAnswered, Finally
<1>6. CASE SelectFailed(c) \/ AttachFailed(c) \/ ChangeFailed(c) \/ RunFailed(c)
  BY <1>3, <1>6 DEF SelectFailed, AttachFailed, ChangeFailed, RunFailed, Finally
<1>7. CASE AttachStep(c)
  <2>1. CASE c.of = "attach"
    BY <1>4, <1>7, <2>1 DEF AttachStep, AttachAnswered, Kinds
  <2>2. CASE c.of = "list"
    <3>1. ReadBegins(c.at, c.db # activeDb')
      BY <1>7, <2>2 DEF AttachStep, AttachAnswered, ReadBegins
    <3> QED BY <1>4, <1>7, <2>2, <3>1 DEF AttachStep, AttachAnswered, Kinds
  <2>3. CASE c.of = "attached"
    BY <1>2, <1>7, <2>3 DEF AttachStep, AttachAnswered
  <2> QED BY <1>7, <2>1, <2>2, <2>3 DEF AttachStep, AttachAnswered
<1>8. CASE SchemaChanged(c)
  <2>1. ReadBegins(c.at, c.db # activeDb')
    BY <1>8 DEF SchemaChanged, ReadBegins
  <2> QED BY <1>4, <1>8, <2>1 DEF SchemaChanged, Kinds
<1>9. CASE QueryAnswered(c)
  <2>1. CASE c.write
    <3>1. ReadBegins(c.at, c.db # activeDb')
      BY <1>9, <2>1 DEF QueryAnswered, ReadBegins
    <3> QED BY <1>4, <1>9, <2>1, <3>1 DEF QueryAnswered, Kinds
  <2>2. CASE ~c.write
    BY <1>3, <1>9, <2>2 DEF QueryAnswered, Finally
  <2> QED BY <2>1, <2>2
<1> QED BY <1>5, <1>6, <1>7, <1>8, <1>9

-----------------------------------------------------------------------------

LEMMA AerisStep == AerisInv /\ [Next]_vars => AerisInv' /\ (result' >= result \/ result' \in lost)
<1> SUFFICES ASSUME AerisInv, [Next]_vars
             PROVE  AerisInv' /\ (result' >= result \/ result' \in lost)
  OBVIOUS
<1> USE DEF AerisInv
<1>1. result \in Nat
  BY NumberedIs, GesturesAssumption
<1>2. CASE Aeris
  <2>1. CASE AerisGesture
    BY <1>1, <2>1, NumberedGesture, OrderedGesture, SettledGesture
  <2>2. CASE AerisAnswer /\ UNCHANGED gestures
    BY <2>2, NumberedAnswer, OrderedAnswer, SettledAnswer DEF AerisAnswer
  <2> QED BY <1>2, <2>1, <2>2 DEF Aeris
<1>3. ASSUME UNCHANGED aerisVars, gestures' = gestures \/ Gesture
      PROVE  AerisInv' /\ result' = result
  <2>1. gestures' \in 0..MaxGestures /\ gestures' >= gestures
    BY <1>3, GesturesAssumption DEF Gesture, Numbered
  <2>2. Runs' = Runs /\ AerisTypeOK' /\ result' = result
    BY <1>3 DEF aerisVars, Runs, AerisTypeOK, Numbered
  <2>3. Ordered' /\ Settled'
    BY <1>3, <2>2 DEF aerisVars, Ordered, Settled
  <2>4. Numbered'
    <3>1. \A c \in asked : c.at \in Nat
      BY GesturesAssumption DEF Numbered, AerisTypeOK
    <3>2. gestures \in Nat /\ gestures' \in Nat /\ queryAbort \in Nat /\ latest \in Nat
      BY <2>1, GesturesAssumption DEF Numbered, AerisTypeOK
    <3> QED BY <1>1, <1>3, <2>1, <2>2, <3>1, <3>2 DEF aerisVars, Numbered
  <2> QED BY <2>2, <2>3, <2>4
<1>4. CASE Explorer
  BY <1>1, <1>3, <1>4 DEF Explorer, ExplorerGesture, OpenTable, SetPage, Close, AddRow, ClearPending,
                   Commit, TypeInto, ClickDelete
<1>5. CASE Resume \/ UNCHANGED vars
  BY <1>1, <1>3, <1>5 DEF Resume, vars
<1> QED BY <1>2, <1>4, <1>5 DEF Next

\* The invariant, for any number of databases, tables and gestures.
LEMMA AerisAlways == Spec => []AerisInv
<1>1. AerisInv /\ [Next]_vars => AerisInv'
  BY AerisStep
<1> QED BY <1>1, AerisStart, PTL DEF Spec

\* The object tree shows the database selected once the read of a schema begun last
\* is answered, whoever began it, selectDb's callers (select element, attach, a change
\* of tables) or a run, unless that read failed, was overtaken by an older one or was
\* that of a run started in another database.
THEOREM SchemaFollows == Spec => []SchemaIsActive
<1>1. AerisInv => SchemaIsActive
  BY DEF AerisInv, Settled, SchemaIsActive
<1> QED BY <1>1, AerisAlways, PTL

\* The result shown is replaced by a newer run's only, but for runs that lost
\* their controller to another one's finally: runQuery, cancelQuery.
THEOREM NewestShown == Spec => ResultIsNewest
<1>1. AerisInv /\ [Next]_vars => [result' >= result \/ result' \in lost]_aerisVars
  BY AerisStep
<1> QED BY <1>1, AerisAlways, PTL DEF Spec, ResultIsNewest

-----------------------------------------------------------------------------
(* The pending changes of explorer.store. *)

Excused(x) == x.busy \/ x.hidden

\* At most a commit is awaited at a time, and what it sends are the changes
\* that were pending, but for those made since, which are excused.
CommitInv ==
    /\ \A c \in loads : c.of \in {"batch", "reload"} => committing
    /\ \A x \in expected : x \in PendingChanges \/ Excused(x)
    /\ stored # {} => committing \/ unsure
    /\ \A c \in loads : c.of = "batch" =>
          /\ \A x \in expected : x \in Changes(c) \/ Excused(x)
          /\ stored # {} => unsure
    /\ \A c \in loads : c.of = "reload" => \A x \in expected : Excused(x)
    /\ \A b, c \in loads : b.of \in {"batch", "reload"} /\ c.of \in {"batch", "reload"} => b = c

\* The batch holds every change that is pending.
LEMMA SentIsPending == \A x \in PendingChanges : \E o \in ToBatchOps : o.change = x
<1> SUFFICES ASSUME NEW x \in PendingChanges
             PROVE  \E o \in ToBatchOps : o.change = x
  OBVIOUS
<1>1. CASE x \in Values(edits)
  <2>1. PICK r \in DOMAIN edits : x = edits[r]
    BY <1>1 DEF Values
  <2>2. [to |-> r, change |-> edits[r]] \in ToBatchOps
    BY DEF ToBatchOps
  <2> QED BY <2>1, <2>2
<1>2. CASE x \in Values(deletes)
  <2>1. PICK r \in DOMAIN deletes : x = deletes[r]
    BY <1>2 DEF Values
  <2>2. [to |-> r, change |-> deletes[r]] \in ToBatchOps
    BY DEF ToBatchOps
  <2> QED BY <2>1, <2>2
<1>3. ASSUME NEW j \in DOMAIN inserts, x \in {inserts[j].made} \cup inserts[j].typed
      PROVE  \E o \in ToBatchOps : o.change = x
  <2> DEFINE sent == {[to |-> -inserts[j].made.at, change |-> c] :
                        c \in {inserts[j].made} \cup inserts[j].typed}
  <2>1. [to |-> -inserts[j].made.at, change |-> x] \in sent
    BY <1>3, Zenon
  <2>2. sent \subseteq ToBatchOps
    BY Zenon DEF ToBatchOps
  <2> QED BY <2>1, <2>2
<1> QED BY <1>1, <1>2, <1>3 DEF PendingChanges

LEMMA CommitStart == Init => CommitInv
BY DEF Init, ExplorerInit, CommitInv

LEMMA WithIs ==
    ASSUME NEW f, NEW r, NEW c
    PROVE  /\ c \in Values(With(f, r, c))
           /\ \A x \in Values(f) : x \in Values(With(f, r, c)) \/ (r \in DOMAIN f /\ x = f[r])
           /\ \A x \in Values(With(f, r, c)) : x = c \/ x \in Values(f)
BY DEF Values, With

\* Change x is noted and pending, in the place of those it replaces.
Adds(x) ==
    \E replaced : /\ Noted(x, replaced)
                  /\ PendingChanges' \subseteq PendingChanges \cup {x}
                  /\ PendingChanges \subseteq PendingChanges' \cup replaced

\* A change is noted: it is pending now, or one that is excused, and nothing but
\* the changes it replaces is pending no more.
LEMMA ChangeNoted ==
    ASSUME CommitInv, NEW x, Adds(x), x \in PendingChanges' \/ x.hidden, committing => x.busy
    PROVE  CommitInv'
<1>0. PICK replaced : Noted(x, replaced) /\ PendingChanges \subseteq PendingChanges' \cup replaced
  BY DEF Adds
<1>1. /\ expected' = (expected \ replaced) \cup {x} /\ stored' = stored \ replaced
      /\ UNCHANGED <<committing, loads, unsure>>
  BY <1>0 DEF Noted
<1>2. \A y \in expected' : y \in PendingChanges' \/ Excused(y)
  BY <1>0, <1>1 DEF CommitInv, Excused
<1>3. \A c \in loads : c.of = "batch" => \A y \in expected' : y \in Changes(c) \/ Excused(y)
  BY <1>1 DEF CommitInv, Excused
<1>4. \A c \in loads : c.of = "reload" => \A y \in expected' : Excused(y)
  BY <1>1 DEF CommitInv, Excused
<1>5. \A c : Changes(c)' = Changes(c)
  BY DEF Changes
<1> QED BY <1>1, <1>2, <1>3, <1>4, <1>5 DEF CommitInv

LEMMA ChangeIs ==
    ASSUME NEW row
    PROVE  /\ Change(row).busy = committing
           /\ Change(row).hidden <=> \E k \in DOMAIN data.ids : data.ids[k] \in DOMAIN deletes
           /\ Change(row).row = row /\ Change(row).db = data.db /\ Change(row).table = data.table
           /\ Change(row).at = Now
BY DEF Change

\* The inserts are a sequence of what AddRow makes.
InsertsAre(S) == inserts \in Seq([made : S, typed : SUBSET S])

InsertsType == \E S : InsertsAre(S)

LEMMA PendingIs ==
    ASSUME NEW x
    PROVE  x \in PendingChanges <=>
              \/ x \in Values(edits) \/ x \in Values(deletes)
              \/ \E j \in DOMAIN inserts : x = inserts[j].made \/ x \in inserts[j].typed
BY DEF PendingChanges

LEMMA Added ==
    ASSUME NEW S, InsertsAre(S), NEW c, inserts' = Append(inserts, [made |-> c, typed |-> {}])
    PROVE  /\ InsertsType'
           /\ \E j \in DOMAIN inserts' : inserts'[j].made = c
           /\ \A j \in DOMAIN inserts : j \in DOMAIN inserts' /\ inserts'[j] = inserts[j]
           /\ \A j \in DOMAIN inserts' \ DOMAIN inserts : inserts'[j].made = c /\ inserts'[j].typed = {}
<1> DEFINE n == [made |-> c, typed |-> {}]
           R == [made : S \cup {c}, typed : SUBSET (S \cup {c})]
<1>1. n \in R /\ n.made = c /\ n.typed = {}
  OBVIOUS
<1>2. [made : S, typed : SUBSET S] \subseteq R
  OBVIOUS
<1>3. inserts \in Seq(R)
  BY <1>2, SeqMonotonic DEF InsertsAre
<1> HIDE DEF n, R
<1>4. inserts' = Append(inserts, n)
  BY DEF n
<1>5. inserts' \in Seq(R)
  BY <1>1, <1>3, <1>4
<1>6. Len(inserts) + 1 \in DOMAIN inserts' /\ inserts'[Len(inserts) + 1] = n
  BY <1>1, <1>3, <1>4
<1>7. \A j \in DOMAIN inserts : j \in DOMAIN inserts' /\ inserts'[j] = inserts[j]
  BY <1>1, <1>3, <1>4
<1>8. InsertsType'
  BY <1>5 DEF InsertsType, InsertsAre, R
<1>9. \A j \in DOMAIN inserts' \ DOMAIN inserts : inserts'[j] = n
  BY <1>1, <1>3, <1>4
<1> QED BY <1>1, <1>6, <1>7, <1>8, <1>9

LEMMA Typed ==
    ASSUME NEW S, InsertsAre(S), NEW c, NEW j \in DOMAIN inserts,
           inserts' = [inserts EXCEPT ![j].typed = {c}]
    PROVE  /\ InsertsType'
           /\ DOMAIN inserts' = DOMAIN inserts
           /\ inserts'[j].made = inserts[j].made /\ inserts'[j].typed = {c}
           /\ \A k \in DOMAIN inserts \ {j} : inserts'[k] = inserts[k]
<1> DEFINE R == [made : S \cup {c}, typed : SUBSET (S \cup {c})]
           n == [inserts[j] EXCEPT !.typed = {c}]
<1>1. inserts \in Seq([made : S, typed : SUBSET S]) /\ inserts[j] \in [made : S, typed : SUBSET S]
  BY ElementOfSeq, LenProperties DEF InsertsAre
<1>2. n \in R /\ n.made = inserts[j].made /\ n.typed = {c}
  BY <1>1
<1>3. [made : S, typed : SUBSET S] \subseteq R
  OBVIOUS
<1>4. inserts \in Seq(R)
  BY <1>1, <1>3, SeqMonotonic
<1> HIDE DEF n, R
<1>5. inserts' = [inserts EXCEPT ![j] = n]
  BY DEF n
<1>6. DOMAIN inserts' = DOMAIN inserts
  BY <1>5
<1>7. inserts'[j] = n /\ \A k \in DOMAIN inserts \ {j} : inserts'[k] = inserts[k]
  BY <1>4, <1>5
<1>8. inserts' \in Seq(R)
  <2>1. j \in 1..Len(inserts)
    BY <1>4
  <2>2. n \in R
    BY <1>2
  <2>3. [inserts EXCEPT ![j] = n] \in Seq(R)
    BY ONLY <1>4, <2>1, <2>2, ExceptSeq
  <2> QED BY <1>5, <2>3
<1>9. InsertsType'
  BY <1>8 DEF InsertsType, InsertsAre, R
<1> QED BY <1>2, <1>6, <1>7, <1>9

PendingInv == CommitInv /\ InsertsType

\* With nothing pending any more.
LEMMA Emptied ==
    ASSUME EmptyPending
    PROVE  InsertsType'
<1>1. <<>> \in Seq([made : {}, typed : SUBSET {}])
  OBVIOUS
<1> QED BY <1>1 DEF EmptyPending, InsertsType, InsertsAre

LEMMA Forgotten ==
    ASSUME CommitInv, Forget, committing' = committing,
           \A c \in loads' : c \in loads \/ c.of \in {"open", "page"}
    PROVE  CommitInv'
<1>1. expected' = {} /\ stored' = {} /\ unsure' = FALSE
  BY DEF Forget
<1> QED BY <1>1 DEF CommitInv

\* A page is asked for or shown: nothing pending changes.
LEMMA Unmoved ==
    ASSUME CommitInv, UNCHANGED <<pendingVars, expected, stored, unsure, committing>>,
           \A c \in loads' : c \in loads \/ c.of \in {"open", "page"}
    PROVE  CommitInv'
<1>1. PendingChanges' = PendingChanges
  BY DEF pendingVars, PendingChanges, Values
<1>2. \A c : Changes(c)' = Changes(c)
  BY DEF Changes
<1> QED BY <1>1, <1>2 DEF CommitInv

LEMMA Asked ==
    ASSUME NEW of, NEW d, NEW t
    PROVE  Load(of, d, t).of = of
BY DEF Load

\* A gesture on the rows adds one change.
LEMMA RowGesture ==
    ASSUME InsertsType, NEW row,
           \/ AddRow /\ row = -Now
           \/ \E i : TypeInto(i, row) \/ ClickDelete(i, row)
    PROVE  /\ Adds(Change(row))
           /\ Change(row) \in PendingChanges' \/ Change(row).hidden
           /\ InsertsType'
<1>0. PICK S : InsertsAre(S)
  BY DEF InsertsType
<1> DEFINE n == Change(row)
<1>1. CASE AddRow /\ row = -Now
  <2>1. inserts' = Append(inserts, [made |-> n, typed |-> {}]) /\ UNCHANGED <<edits, deletes>>
        /\ Noted(n, {})
    BY <1>1 DEF AddRow
  <2> HIDE DEF n
  <2>2. /\ InsertsType'
        /\ \E j \in DOMAIN inserts' : inserts'[j].made = n
        /\ \A j \in DOMAIN inserts : j \in DOMAIN inserts' /\ inserts'[j] = inserts[j]
        /\ \A j \in DOMAIN inserts' \ DOMAIN inserts : inserts'[j].made = n /\ inserts'[j].typed = {}
    BY <1>0, <2>1, Added
  <2>3. n \in PendingChanges'
    BY <2>2 DEF PendingChanges
  <2>4. PendingChanges \subseteq PendingChanges'
    BY <2>1, <2>2 DEF PendingChanges, Values
  <2>5. PendingChanges' \subseteq PendingChanges \cup {n}
    <3> SUFFICES ASSUME NEW y \in PendingChanges', y # n
                 PROVE  y \in PendingChanges
      OBVIOUS
    <3>1. CASE y \in Values(edits)' \/ y \in Values(deletes)'
      BY <2>1, <3>1, PendingIs DEF Values
    <3>2. ASSUME NEW k \in DOMAIN inserts', y = inserts'[k].made \/ y \in inserts'[k].typed
          PROVE  y \in PendingChanges
      BY <2>2, <3>2, PendingIs
    <3> QED BY <3>1, <3>2 DEF PendingChanges
  <2> QED BY <2>1, <2>2, <2>3, <2>4, <2>5 DEF Adds, n
<1>2. ASSUME NEW i, TypeInto(i, row), i > Len(data.ids)
      PROVE  Adds(n) /\ n \in PendingChanges' /\ InsertsType'
  <2> DEFINE j == i - Len(data.ids)
  <2>1. SetInsertValue(j, n)
    BY <1>2 DEF TypeInto
  <2> HIDE DEF n, j
  <2>2. /\ j \in DOMAIN inserts
        /\ inserts' = [inserts EXCEPT ![j].typed = {n}] /\ UNCHANGED <<edits, deletes>>
        /\ Noted(n, inserts[j].typed)
    BY <2>1 DEF SetInsertValue
  <2>3. /\ InsertsType'
        /\ DOMAIN inserts' = DOMAIN inserts
        /\ inserts'[j].made = inserts[j].made /\ inserts'[j].typed = {n}
        /\ \A k \in DOMAIN inserts \ {j} : inserts'[k] = inserts[k]
    BY <1>0, <2>2, Typed
  <2>4. n \in PendingChanges'
    BY <2>2, <2>3 DEF PendingChanges
  <2>5. \A y \in PendingChanges : y \in PendingChanges' \/ y \in inserts[j].typed
    <3> SUFFICES ASSUME NEW y \in PendingChanges, y \notin inserts[j].typed
                 PROVE  y \in PendingChanges'
      OBVIOUS
    <3>1. CASE y \in Values(edits) \/ y \in Values(deletes)
      BY <2>2, <3>1 DEF PendingChanges, Values
    <3>2. ASSUME NEW k \in DOMAIN inserts, y = inserts[k].made \/ y \in inserts[k].typed
          PROVE  y \in PendingChanges'
      <4>1. y = inserts'[k].made \/ y \in inserts'[k].typed
        BY <2>3, <3>2
      <4> QED BY <2>3, <4>1 DEF PendingChanges
    <3> QED BY <3>1, <3>2, PendingIs
  <2>6. \A y \in PendingChanges' : y = n \/ y \in PendingChanges
    <3> SUFFICES ASSUME NEW y \in PendingChanges', y # n
                 PROVE  y \in PendingChanges
      OBVIOUS
    <3>1. CASE y \in Values(edits)' \/ y \in Values(deletes)'
      BY <2>2, <3>1, PendingIs DEF Values
    <3>2. ASSUME NEW k \in DOMAIN inserts', y = inserts'[k].made \/ y \in inserts'[k].typed
          PROVE  y \in PendingChanges
      <4>1. k \in DOMAIN inserts /\ (y = inserts[k].made \/ y \in inserts[k].typed)
        BY <2>3, <3>2
      <4> QED BY <4>1, PendingIs
    <3> QED BY <3>1, <3>2 DEF PendingChanges
  <2> QED BY <2>2, <2>3, <2>4, <2>5, <2>6 DEF Adds
<1>3. ASSUME NEW i, TypeInto(i, row), ~(i > Len(data.ids))
      PROVE  Adds(n) /\ n \in PendingChanges' /\ InsertsType'
  <2> DEFINE r == data.ids[i]
  <2>1. EditCell(r, n)
    BY <1>3 DEF TypeInto
  <2> HIDE DEF n, r
  <2> DEFINE old == IF r \in DOMAIN edits THEN {edits[r]} ELSE {}
  <2>2. /\ edits' = With(edits, r, n) /\ UNCHANGED <<inserts, deletes>>
        /\ Noted(n, old)
    BY <2>1 DEF EditCell
  <2>3. n \in PendingChanges' /\ \A y \in PendingChanges' : y = n \/ y \in PendingChanges
    BY <2>2, WithIs DEF PendingChanges, Values
  <2>4. \A y \in PendingChanges : y \in PendingChanges' \/ y \in old
    BY <2>2, WithIs DEF PendingChanges, Values
  <2>5. InsertsType'
    BY <1>0, <2>2 DEF InsertsType, InsertsAre
  <2> HIDE DEF old
  <2> QED BY <2>2, <2>3, <2>4, <2>5 DEF Adds
<1>4. ASSUME NEW i, ClickDelete(i, row)
      PROVE  Adds(n) /\ (n \in PendingChanges' \/ n.hidden) /\ InsertsType'
  <2> DEFINE r == data.ids[i]
  <2>1. i \in DOMAIN data.ids /\ DeleteRow(r, n)
    BY <1>4 DEF ClickDelete
  <2>2. r \in DOMAIN deletes => n.hidden
    BY <2>1, ChangeIs
  <2> HIDE DEF n, r
  <2>3. /\ deletes' = IF r \in DOMAIN deletes THEN deletes ELSE With(deletes, r, n)
        /\ UNCHANGED <<inserts, edits>>
        /\ Noted(n, {})
    BY <2>1 DEF DeleteRow
  <2>4. n \in PendingChanges' \/ n.hidden
    BY <2>2, <2>3, WithIs DEF PendingChanges
  <2>5. /\ \A y \in PendingChanges : y \in PendingChanges'
        /\ \A y \in PendingChanges' : y = n \/ y \in PendingChanges
    BY <2>3, WithIs DEF PendingChanges, Values
  <2>6. InsertsType'
    BY <1>0, <2>3 DEF InsertsType, InsertsAre
  <2> QED BY <2>3, <2>4, <2>5, <2>6 DEF Adds
<1> QED BY <1>1, <1>2, <1>3, <1>4

LEMMA PendingGesture ==
    ASSUME PendingInv, NEW d, ExplorerGesture(d)
    PROVE  PendingInv'
<1>0. PICK S : InsertsAre(S)
  BY DEF PendingInv, InsertsType
<1>1. CommitInv
  BY DEF PendingInv
<1>2. CASE \E t \in Tables : OpenTable(d, t)
  <2>1. EmptyPending /\ Forget /\ committing' = committing
    BY <1>2 DEF OpenTable
  <2>2. \A c \in loads' : c \in loads \/ c.of \in {"open", "page"}
    BY <1>2, Asked DEF OpenTable
  <2> QED BY <1>1, <2>1, <2>2, Emptied, Forgotten DEF PendingInv
<1>3. CASE Close \/ ClearPending
  <2>1. EmptyPending /\ Forget /\ UNCHANGED <<committing, loads>>
    BY <1>3 DEF Close, ClearPending
  <2> QED BY <1>1, <2>1, Emptied, Forgotten DEF PendingInv
<1>4. CASE SetPage(d)
  <2>1. \A c \in loads' : c \in loads \/ c.of \in {"open", "page"}
    BY <1>4, Asked DEF SetPage
  <2>2. UNCHANGED <<pendingVars, expected, stored, unsure, committing>>
    BY <1>4 DEF SetPage, historyVars
  <2>3. InsertsType'
    BY <1>0, <2>2 DEF InsertsType, InsertsAre, pendingVars
  <2> QED BY <1>1, <2>1, <2>2, <2>3, Unmoved DEF PendingInv
<1>5. ASSUME NEW row,
             \/ AddRow /\ row = -Now
             \/ \E i : TypeInto(i, row) \/ ClickDelete(i, row)
      PROVE  PendingInv'
  BY <1>1, <1>5, RowGesture, ChangeIs, ChangeNoted DEF PendingInv
<1>6. CASE AddRow
  BY <1>5, <1>6
<1>7. CASE \E s \in Shown : TypeInto(s.at, s.row) \/ ClickDelete(s.at, s.row)
  BY <1>5, <1>7
<1>8. CASE Commit(d)
  <2> DEFINE n == [of |-> "batch", db |-> d, table |-> table, at |-> Now,
                   ops |-> ToBatchOps, calm |-> calm]
  <2>1. /\ ~committing /\ committing' = TRUE /\ loads' = loads \cup {n}
        /\ UNCHANGED <<pendingVars, expected, stored, unsure>>
    BY <1>8 DEF Commit, historyVars
  <2>2. n.of = "batch" /\ n.ops = ToBatchOps
    OBVIOUS
  <2>3. PendingChanges \subseteq Changes(n)
    BY <2>2, SentIsPending DEF Changes
  <2> HIDE DEF n
  <2>4. PendingChanges' = PendingChanges
    BY <2>1 DEF pendingVars, PendingChanges, Values
  <2>5. \A c : Changes(c)' = Changes(c)
    BY DEF Changes
  <2>6. \A c \in loads : c.of \notin {"batch", "reload"}
    BY <1>1, <2>1 DEF CommitInv
  <2>7. CommitInv'
    BY <1>1, <2>1, <2>2, <2>3, <2>4, <2>5, <2>6 DEF CommitInv
  <2>8. InsertsType'
    BY <1>0, <2>1 DEF InsertsType, InsertsAre, pendingVars
  <2> QED BY <2>7, <2>8 DEF PendingInv
<1> QED BY <1>2, <1>3, <1>4, <1>5, <1>6, <1>7, <1>8 DEF ExplorerGesture

LEMMA PendingAnswer ==
    ASSUME PendingInv, NEW c \in loads,
           \/ Browsed(c) \/ BrowseFailed(c)
           \/ BatchAnswered(c) \/ BatchFailed(c)
           \/ Reloaded(c) \/ ReloadFailed(c)
    PROVE  PendingInv'
<1>0. PICK S : InsertsAre(S)
  BY DEF PendingInv, InsertsType
<1>1. CommitInv
  BY DEF PendingInv
<1>2. \A b : Changes(b)' = Changes(b)
  BY DEF Changes
<1>3. ASSUME UNCHANGED pendingVars
      PROVE  InsertsType' /\ PendingChanges' = PendingChanges
  BY <1>0, <1>3 DEF InsertsType, InsertsAre, pendingVars, PendingChanges, Values
<1>4. CASE Browsed(c) \/ BrowseFailed(c)
  <2>1. UNCHANGED <<pendingVars, expected, stored, unsure, committing>> /\ loads' \subseteq loads
    BY <1>4 DEF Browsed, BrowseFailed, historyVars
  <2> QED BY <1>1, <1>3, <2>1, Unmoved DEF PendingInv
<1>5. CASE BatchAnswered(c)
  <2> DEFINE n == [of |-> "reload", db |-> c.db, table |-> c.table, at |-> c.at]
  <2>1. /\ c.of = "batch" /\ loads' = (loads \ {c}) \cup {n}
        /\ stored' = stored \cup (Changes(c) \cap PendingChanges)
        /\ expected' = expected \ Changes(c)
        /\ UNCHANGED <<pendingVars, committing, unsure>>
    BY <1>5 DEF BatchAnswered, Applied
  <2>2. n.of = "reload"
    OBVIOUS
  <2> HIDE DEF n
  <2>3. \A b \in loads \ {c} : b.of \notin {"batch", "reload"}
    BY <1>1, <2>1 DEF CommitInv
  <2>4. committing /\ \A x \in expected' : Excused(x)
    BY <1>1, <2>1 DEF CommitInv
  <2>5. CommitInv'
    BY <1>1, <2>1, <2>2, <2>3, <2>4 DEF CommitInv
  <2> QED BY <1>3, <2>1, <2>5 DEF PendingInv
<1>6. CASE BatchFailed(c)
  <2>1. /\ c.of = "batch" /\ loads' = loads \ {c} /\ committing' = FALSE
        /\ expected' \subseteq expected
        /\ unsure' \/ (stored' = stored /\ unsure' = unsure)
        /\ UNCHANGED pendingVars
    BY <1>6 DEF BatchFailed, Applied
  <2>2. \A b \in loads' : b.of \notin {"batch", "reload"}
    BY <1>1, <2>1 DEF CommitInv
  <2>3. stored' # {} => unsure'
    BY <1>1, <2>1 DEF CommitInv
  <2>4. PendingChanges' = PendingChanges
    BY <1>3, <2>1
  <2>5. CommitInv'
    BY <1>1, <2>1, <2>2, <2>3, <2>4 DEF CommitInv
  <2> QED BY <1>3, <2>1, <2>5 DEF PendingInv
<1>7. CASE Reloaded(c)
  <2>1. /\ c.of = "reload" /\ loads' = loads \ {c} /\ EmptyPending
        /\ stored' = {} /\ expected' = expected
    BY <1>7 DEF Reloaded
  <2>2. \A b \in loads' : b.of \notin {"batch", "reload"}
    BY <1>1, <2>1 DEF CommitInv
  <2>3. \A x \in expected' : Excused(x)
    BY <1>1, <2>1 DEF CommitInv
  <2>4. CommitInv'
    BY <2>1, <2>2, <2>3 DEF CommitInv
  <2> QED BY <2>1, <2>4, Emptied DEF PendingInv
<1>8. CASE ReloadFailed(c)
  <2>1. /\ c.of = "reload" /\ loads' = loads \ {c} /\ unsure' = TRUE
        /\ UNCHANGED <<pendingVars, expected, stored>>
    BY <1>8 DEF ReloadFailed
  <2>2. \A b \in loads' : b.of \notin {"batch", "reload"}
    BY <1>1, <2>1 DEF CommitInv
  <2>3. PendingChanges' = PendingChanges
    BY <1>3, <2>1
  <2>4. CommitInv'
    BY <1>1, <2>1, <2>2, <2>3 DEF CommitInv
  <2> QED BY <1>3, <2>1, <2>4 DEF PendingInv
<1> QED BY <1>4, <1>5, <1>6, <1>7, <1>8

LEMMA PendingStep == PendingInv /\ [Next]_vars => PendingInv'
<1> SUFFICES ASSUME PendingInv, [Next]_vars PROVE PendingInv'
  OBVIOUS
<1>1. CASE Aeris \/ UNCHANGED vars
  <2>1. UNCHANGED <<pendingVars, expected, stored, unsure, committing, loads>>
    BY <1>1 DEF Aeris, vars, explorerVars, historyVars
  <2>2. InsertsType'
    BY <2>1 DEF PendingInv, InsertsType, InsertsAre, pendingVars
  <2> QED BY <2>1, <2>2, Unmoved DEF PendingInv
<1>2. CASE Explorer \/ Resume
  BY <1>2, PendingGesture, PendingAnswer DEF Explorer, Resume, ExplorerAnswer
<1> QED BY <1>1, <1>2 DEF Next

LEMMA PendingAlways == Spec => []PendingInv
<1>1. Init => PendingInv
  <2>1. Init => InsertsType
    <3>1. <<>> \in Seq([made : {}, typed : SUBSET {}])
      OBVIOUS
    <3> QED BY <3>1 DEF Init, ExplorerInit, InsertsType, InsertsAre
  <2> QED BY <2>1, CommitStart DEF PendingInv
<1> QED BY <1>1, PendingStep, PTL DEF Spec

\* Commit, its failures and the edits made meanwhile, in any order: what is pending
\* is what is not stored yet, with the exceptions PendingIsUnsaved names.
THEOREM UnsavedStaysPending == Spec => []PendingIsUnsaved
<1>1. PendingInv => PendingIsUnsaved
  BY DEF PendingInv, CommitInv, PendingIsUnsaved, Excused
<1> QED BY <1>1, PendingAlways, PTL

-----------------------------------------------------------------------------
(* Types. *)

\* What TypeOK says of the explorer's state.
ExplorerTypeOK ==
    /\ table \in Tables \cup {None}
    /\ data = None \/ data \in [db : Dbs, table : Tables, ids : Pages]
    /\ PendingChanges \subseteq ChangeType
    /\ expected \subseteq ChangeType /\ stored \subseteq PendingChanges
    /\ browsing \in BOOLEAN /\ committing \in BOOLEAN /\ calm \in BOOLEAN /\ unsure \in BOOLEAN
    /\ \A c \in loads : c.db \in Dbs /\ c.table \in Tables /\ c.at \in 1..gestures

LEMMA TypeIs == AerisInv => (TypeOK <=> ExplorerTypeOK)
BY DEF AerisInv, Numbered, TypeOK, ExplorerTypeOK

\* The number of a gesture is one that no call has.
LEMMA GestureType ==
    ASSUME AerisInv, ExplorerTypeOK, Gesture
    PROVE  /\ Now \in 1..MaxGestures /\ Now \in 1..gestures'
           /\ \A c \in loads : c.at \in 1..gestures'
<1>1. gestures \in 0..MaxGestures
  BY DEF AerisInv, Numbered
<1>2. Now \in 1..MaxGestures /\ gestures' = Now /\ Now = gestures + 1
  BY <1>1, GestureIsNew DEF Now
<1>3. \A c \in loads : c.at \in 1..gestures
  BY DEF ExplorerTypeOK
<1>4. \A n \in 1..gestures : n \in 1..gestures + 1
  BY <1>1, GesturesAssumption
<1> QED BY <1>1, <1>2, <1>3, <1>4, GesturesAssumption

\* Nothing is pending, stored or expected that was not.
LEMMA EmptiedTypes ==
    ASSUME EmptyPending
    PROVE  PendingChanges' = {}
<1>1. \A x : ~(x \in PendingChanges')
  BY DEF EmptyPending, Nowhere, PendingChanges, Values
<1> QED BY <1>1

LEMMA ShownIsInt ==
    ASSUME ExplorerTypeOK, AerisInv, InsertsType, Open, NEW s \in Shown
    PROVE  s.row \in Int
<1>1. data.ids \in Seq(Nat \ {0})
  BY PagesAssumption DEF ExplorerTypeOK, Open
<1>2. \A k \in DOMAIN data.ids : data.ids[k] \in Int
  BY <1>1
<1>3. \A j \in DOMAIN inserts : inserts[j].made \in ChangeType
  BY PendingIs DEF ExplorerTypeOK
<1>4. \A j \in DOMAIN inserts : -inserts[j].made.at \in Int
  BY <1>3, GesturesAssumption DEF ChangeType
<1>5. CASE \E k \in Staying : s = [at |-> Cardinality({j \in Staying : j =< k}), row |-> data.ids[k]]
  BY <1>2, <1>5 DEF Staying
<1>6. CASE \E j \in DOMAIN inserts : s = [at |-> Cardinality(Staying) + j, row |-> -inserts[j].made.at]
  BY <1>4, <1>6
<1> QED BY <1>5, <1>6 DEF Shown

LEMMA ChangeTyped ==
    ASSUME ExplorerTypeOK, AerisInv, Open, Gesture, NEW row \in Int
    PROVE  Change(row) \in ChangeType
<1>1. Now \in 1..MaxGestures
  BY GestureType
<1>2. data \in [db : Dbs, table : Tables, ids : Pages]
  BY DEF ExplorerTypeOK, Open
<1>3. committing \in BOOLEAN
  BY DEF ExplorerTypeOK
<1> QED BY <1>1, <1>2, <1>3 DEF Change, ChangeType

LEMMA AddsTypes ==
    ASSUME ExplorerTypeOK, AerisInv, Gesture, NEW x \in ChangeType, Adds(x)
    PROVE  ExplorerTypeOK'
<1>1. PICK replaced : /\ Noted(x, replaced)
                      /\ PendingChanges' \subseteq PendingChanges \cup {x}
                      /\ PendingChanges \subseteq PendingChanges' \cup replaced
  BY DEF Adds
<1>2. /\ expected' = (expected \ replaced) \cup {x} /\ stored' = stored \ replaced
      /\ calm' \in BOOLEAN
      /\ UNCHANGED <<table, data, browsing, committing, loads, unsure>>
  BY <1>1 DEF Noted
<1>3. \A c \in loads : c.at \in 1..gestures'
  BY GestureType
<1>4. stored' \subseteq PendingChanges'
  BY <1>1, <1>2 DEF ExplorerTypeOK
<1>5. PendingChanges' \subseteq ChangeType /\ expected' \subseteq ChangeType
  BY <1>1, <1>2 DEF ExplorerTypeOK
<1> QED BY <1>2, <1>3, <1>4, <1>5 DEF ExplorerTypeOK

LEMMA TypesGesture ==
    ASSUME ExplorerTypeOK, AerisInv, InsertsType, NEW d \in Dbs, ExplorerGesture(d)
    PROVE  ExplorerTypeOK'
<1>1. Gesture
  BY DEF ExplorerGesture, OpenTable, SetPage, Close, AddRow, ClearPending, Commit, TypeInto, ClickDelete
<1>2. Now \in 1..MaxGestures /\ Now \in 1..gestures' /\ \A c \in loads : c.at \in 1..gestures'
  BY <1>1, GestureType
<1>3. ASSUME NEW t \in Tables, OpenTable(d, t)
      PROVE  ExplorerTypeOK'
  <2> DEFINE n == Load("open", d, t)
  <2>1. n.db = d /\ n.table = t /\ n.at = Now
    BY DEF Load
  <2>2. /\ table' = t /\ browsing' = TRUE /\ loads' = loads \cup {n} /\ calm' = (loads = {})
        /\ expected' = {} /\ stored' = {} /\ unsure' = FALSE
        /\ UNCHANGED <<data, committing>>
    BY <1>3 DEF OpenTable, Forget
  <2> HIDE DEF n
  <2>3. PendingChanges' = {}
    BY <1>3, EmptiedTypes DEF OpenTable
  <2> QED BY <1>2, <2>1, <2>2, <2>3 DEF ExplorerTypeOK
<1>4. CASE SetPage(d)
  <2> DEFINE n == Load("page", d, table)
  <2>1. n.db = d /\ n.table = table /\ n.at = Now
    BY DEF Load
  <2>2. /\ browsing' = TRUE /\ loads' = loads \cup {n} /\ table # None
        /\ UNCHANGED <<table, data, pendingVars, committing, historyVars>>
    BY <1>4 DEF SetPage, Open
  <2> HIDE DEF n
  <2>3. PendingChanges' = PendingChanges
    BY <2>2 DEF pendingVars, PendingChanges, Values
  <2> QED BY <1>2, <2>1, <2>2, <2>3 DEF ExplorerTypeOK, historyVars
<1>5. CASE Close \/ ClearPending
  <2>1. /\ (table' = None /\ data' = None) \/ UNCHANGED <<table, data>>
        /\ expected' = {} /\ stored' = {} /\ unsure' = FALSE
        /\ UNCHANGED <<browsing, committing, loads, calm>>
    BY <1>5 DEF Close, ClearPending, Forget
  <2>2. PendingChanges' = {}
    BY <1>5, EmptiedTypes DEF Close, ClearPending
  <2> QED BY <1>2, <2>1, <2>2 DEF ExplorerTypeOK
<1>6. CASE AddRow
  <2>1. Open /\ -Now \in Int
    BY <1>2, <1>6, GesturesAssumption DEF AddRow
  <2> QED BY <1>1, <1>6, <2>1, RowGesture, ChangeTyped, AddsTypes
<1>7. ASSUME Open, NEW s \in Shown, TypeInto(s.at, s.row) \/ ClickDelete(s.at, s.row)
      PROVE  ExplorerTypeOK'
  <2>1. s.row \in Int
    BY <1>7, ShownIsInt
  <2>2. Adds(Change(s.row))
    BY <1>7, RowGesture
  <2> QED BY <1>1, <1>7, <2>1, <2>2, ChangeTyped, AddsTypes
<1>8. CASE Commit(d)
  <2> DEFINE n == [of |-> "batch", db |-> d, table |-> table, at |-> Now,
                   ops |-> ToBatchOps, calm |-> calm]
  <2>1. n.db = d /\ n.table = table /\ n.at = Now
    OBVIOUS
  <2>2. /\ committing' = TRUE /\ loads' = loads \cup {n} /\ table # None
        /\ UNCHANGED <<table, data, pendingVars, browsing, historyVars>>
    BY <1>8 DEF Commit, Open
  <2> HIDE DEF n
  <2>3. PendingChanges' = PendingChanges
    BY <2>2 DEF pendingVars, PendingChanges, Values
  <2> QED BY <1>2, <2>1, <2>2, <2>3 DEF ExplorerTypeOK, historyVars
<1> QED BY <1>3, <1>4, <1>5, <1>6, <1>7, <1>8 DEF ExplorerGesture

LEMMA TypesAnswer ==
    ASSUME ExplorerTypeOK, NEW c \in loads, UNCHANGED gestures,
           \/ Browsed(c) \/ BrowseFailed(c)
           \/ BatchAnswered(c) \/ BatchFailed(c)
           \/ Reloaded(c) \/ ReloadFailed(c)
    PROVE  ExplorerTypeOK'
<1>1. c.db \in Dbs /\ c.table \in Tables /\ c.at \in 1..gestures
  BY DEF ExplorerTypeOK
<1>2. ASSUME UNCHANGED pendingVars
      PROVE  PendingChanges' = PendingChanges
  BY <1>2 DEF pendingVars, PendingChanges, Values
<1>3. ASSUME NEW p \in Pages
      PROVE  [db |-> c.db, table |-> c.table, ids |-> p] \in [db : Dbs, table : Tables, ids : Pages]
  BY <1>1
<1>4. CASE Browsed(c) \/ BrowseFailed(c)
  BY <1>2, <1>3, <1>4 DEF Browsed, BrowseFailed, ExplorerTypeOK, historyVars
<1>5. CASE BatchAnswered(c)
  <2> DEFINE n == [of |-> "reload", db |-> c.db, table |-> c.table, at |-> c.at]
  <2>1. n.db = c.db /\ n.table = c.table /\ n.at = c.at
    OBVIOUS
  <2>2. /\ loads' = (loads \ {c}) \cup {n}
        /\ stored' \subseteq stored \cup PendingChanges /\ expected' \subseteq expected
        /\ UNCHANGED <<table, data, pendingVars, browsing, committing, calm, unsure>>
    BY <1>5 DEF BatchAnswered, Applied
  <2> HIDE DEF n
  <2> QED BY <1>1, <1>2, <2>1, <2>2 DEF ExplorerTypeOK
<1>6. CASE BatchFailed(c) \/ ReloadFailed(c)
  <2>1. /\ loads' = loads \ {c} /\ committing' = FALSE
        /\ stored' \subseteq stored \cup PendingChanges /\ expected' \subseteq expected
        /\ unsure' = unsure \/ unsure' = TRUE
        /\ UNCHANGED <<table, data, pendingVars, browsing, calm>>
    BY <1>6 DEF BatchFailed, ReloadFailed, Applied
  <2> QED BY <1>2, <2>1 DEF ExplorerTypeOK
<1>7. CASE Reloaded(c)
  <2>1. PendingChanges' = {}
    BY <1>7, EmptiedTypes DEF Reloaded
  <2> QED BY <1>3, <1>7, <2>1 DEF Reloaded, ExplorerTypeOK
<1> QED BY <1>4, <1>5, <1>6, <1>7

LEMMA TypesStep ==
    ASSUME ExplorerTypeOK, AerisInv, PendingInv, [Next]_vars
    PROVE  ExplorerTypeOK'
<1>1. CASE Aeris
  <2>1. UNCHANGED <<table, data, pendingVars, browsing, committing, loads, expected, stored, unsure>>
        /\ calm' \in BOOLEAN
    BY <1>1 DEF Aeris
  <2>2. PendingChanges' = PendingChanges
    BY <2>1 DEF pendingVars, PendingChanges, Values
  <2>3. gestures' = gestures \/ Gesture
    BY <1>1 DEF Aeris, AerisGesture, HeaderGesture, EditorGesture, SelectDb, Attach, RunQuery,
                       CancelQuery, ChangeSchema
  <2>4. \A c \in loads : c.at \in 1..gestures'
    BY <2>3, GestureType DEF ExplorerTypeOK
  <2> QED BY <2>1, <2>2, <2>4 DEF ExplorerTypeOK
<1>2. CASE Explorer
  <2>1. activeDb \in Dbs
    BY <1>2 DEF Explorer, AerisInv, Numbered, AerisTypeOK
  <2> QED BY <1>2, <2>1, TypesGesture DEF Explorer, PendingInv
<1>3. CASE Resume
  BY <1>3, TypesAnswer DEF Resume, ExplorerAnswer
<1>4. CASE UNCHANGED vars
  BY <1>4 DEF vars, explorerVars, pendingVars, historyVars, ExplorerTypeOK, PendingChanges, Values
<1> QED BY <1>1, <1>2, <1>3, <1>4 DEF Next

LEMMA TypesAlways == Spec => []ExplorerTypeOK
<1>1. Init => ExplorerTypeOK
  <2> SUFFICES ASSUME Init PROVE ExplorerTypeOK
    OBVIOUS
  <2>1. \A x : ~(x \in PendingChanges)
    BY DEF Init, ExplorerInit, Nowhere, PendingChanges, Values
  <2> QED BY <2>1 DEF Init, ExplorerInit, ExplorerTypeOK
<1>2. ExplorerTypeOK /\ AerisInv /\ PendingInv /\ [Next]_vars => ExplorerTypeOK'
  BY TypesStep
<1> QED BY <1>1, <1>2, AerisAlways, PendingAlways, PTL DEF Spec

\* Types of both stores: the calls in flight name databases and tables that are
\* there, and what a commit has stored is still pending until it ends.
THEOREM ClientTypes == Spec => []TypeOK
<1>1. AerisInv /\ ExplorerTypeOK => TypeOK
  BY TypeIs
<1> QED BY <1>1, AerisAlways, TypesAlways, PTL

-----------------------------------------------------------------------------
(* Changes hit the row that their user pointed at. *)

\* Change x, pending for row r of the open table, is one that a user made there.
OnTarget(x, r) == x.hidden \/ (x.db = activeDb /\ x.table = table /\ x.row = r)

PendingOnTarget ==
    /\ \A r \in DOMAIN edits : OnTarget(edits[r], r)
    /\ \A r \in DOMAIN deletes : OnTarget(deletes[r], r)
    /\ \A j \in DOMAIN inserts :
          /\ OnTarget(inserts[j].made, -inserts[j].made.at)
          /\ \A x \in inserts[j].typed : OnTarget(x, -inserts[j].made.at)

\* While calm, every call is about the open table of the active database, and so
\* is the page on the screen unless that table's first is still awaited.
Aligned ==
    calm /\ table # None =>
        /\ \A c \in loads : c.db = activeDb /\ c.table = table
        /\ (\A c \in loads : c.of # "open") =>
              data = None \/ (data.db = activeDb /\ data.table = table)
        /\ PendingOnTarget

HitsInv == Aligned /\ ChangesHitTheirRow

\* With no row of the page hidden, the rows shown are those of the page, in their
\* places, and then the inserted ones.
LEMMA ShownPlaces ==
    ASSUME data.ids \in Seq(Nat \ {0}), InsertsType,
           ~\E k \in DOMAIN data.ids : data.ids[k] \in DOMAIN deletes,
           NEW s \in Shown
    PROVE  \/ s.at \in 1..Len(data.ids) /\ s.row = data.ids[s.at]
           \/ /\ s.at > Len(data.ids) /\ s.at - Len(data.ids) \in DOMAIN inserts
              /\ s.row = -inserts[s.at - Len(data.ids)].made.at
<1> DEFINE n == Len(data.ids)
<1>1. n \in Nat /\ DOMAIN data.ids = 1..n
  OBVIOUS
<1>2. Staying = 1..n
  BY <1>1 DEF Staying
<1>3. DOMAIN inserts \subseteq Nat \ {0}
  <2>1. PICK S : inserts \in Seq([made : S, typed : SUBSET S])
    BY DEF InsertsType, InsertsAre
  <2>2. DOMAIN inserts = 1..Len(inserts) /\ Len(inserts) \in Nat
    BY <2>1
  <2> QED BY <2>2
<1> HIDE DEF n
<1>4. ASSUME NEW k \in Staying, s = [at |-> Cardinality({j \in Staying : j =< k}), row |-> data.ids[k]]
      PROVE  s.at \in 1..n /\ s.row = data.ids[s.at]
  <2>1. k \in 1..n
    BY <1>2
  <2>2. \A j : j \in Staying /\ j =< k <=> j \in 1..k
    BY <1>1, <1>2, <2>1
  <2>3. {j \in Staying : j =< k} = 1..k
    BY <2>2
  <2>4. Cardinality(1..k) = k
    BY <1>1, <2>1, FS_Interval
  <2> QED BY <1>4, <2>1, <2>3, <2>4
<1>5. ASSUME NEW j \in DOMAIN inserts, s = [at |-> Cardinality(Staying) + j, row |-> -inserts[j].made.at]
      PROVE  s.at > n /\ s.at - n \in DOMAIN inserts /\ s.row = -inserts[s.at - n].made.at
  <2>1. Cardinality(Staying) = n
    BY <1>1, <1>2, FS_Interval
  <2>2. j \in Nat \ {0}
    BY <1>3
  <2>3. s.at = n + j /\ s.row = -inserts[j].made.at
    BY <1>5, <2>1
  <2>4. s.at > n /\ s.at - n = j
    BY <1>1, <2>2, <2>3
  <2> QED BY <2>3, <2>4
<1> QED BY <1>4, <1>5 DEF Shown, n

\* The batch sends each pending change where it is pending.
LEMMA SentOnTarget ==
    ASSUME PendingOnTarget, NEW o \in ToBatchOps
    PROVE  OnTarget(o.change, o.to)
<1>1. CASE \E r \in DOMAIN edits : o = [to |-> r, change |-> edits[r]]
  BY <1>1 DEF PendingOnTarget
<1>2. CASE \E r \in DOMAIN deletes : o = [to |-> r, change |-> deletes[r]]
  BY <1>2 DEF PendingOnTarget
<1>3. CASE \E j \in DOMAIN inserts : \E c \in {inserts[j].made} \cup inserts[j].typed :
              o = [to |-> -inserts[j].made.at, change |-> c]
  BY <1>3 DEF PendingOnTarget
<1> QED BY <1>1, <1>2, <1>3 DEF ToBatchOps

LEMMA NothingPending == EmptyPending => PendingOnTarget'
BY DEF EmptyPending, Nowhere, PendingOnTarget

LEMMA HitsRow ==
    ASSUME HitsInv, ExplorerTypeOK, InsertsType, activeDb' = activeDb, Open, NEW row,
           \/ AddRow /\ row = -Now
           \/ \E s \in Shown : row = s.row /\ (TypeInto(s.at, row) \/ ClickDelete(s.at, row))
    PROVE  HitsInv'
<1> DEFINE n == Change(row)
<1>0. PICK S : InsertsAre(S)
  BY DEF InsertsType
<1>1. PICK replaced : Noted(n, replaced)
  BY RowGesture DEF Adds
<1>2. UNCHANGED <<table, data, loads>> /\ (calm' => calm /\ \A l \in loads : l.of # "open")
  BY <1>1 DEF Noted
<1>3. ChangesHitTheirRow'
  BY <1>2 DEF HitsInv, ChangesHitTheirRow, Hits
<1>4. SUFFICES ASSUME calm', table # None
               PROVE  PendingOnTarget'
  BY <1>2, <1>3 DEF HitsInv, Aligned
<1>5. data.db = activeDb /\ data.table = table /\ PendingOnTarget
  BY <1>2, <1>4 DEF HitsInv, Aligned, Open
<1>6. \A x, r : OnTarget(x, r)' <=> OnTarget(x, r)
  BY <1>2 DEF OnTarget
<1>7. \A r : n.hidden \/ r = row => OnTarget(n, r)
  BY <1>5, ChangeIs DEF OnTarget
<1>8. data.ids \in Seq(Nat \ {0})
  BY PagesAssumption DEF ExplorerTypeOK, Open
<1>9. n.hidden <=> \E k \in DOMAIN data.ids : data.ids[k] \in DOMAIN deletes
  BY ChangeIs
<1>10. n.at = Now
  BY ChangeIs
<1>11. CASE AddRow /\ row = -Now
  <2>1. inserts' = Append(inserts, [made |-> n, typed |-> {}]) /\ UNCHANGED <<edits, deletes>>
    BY <1>11 DEF AddRow
  <2> HIDE DEF n
  <2>2. /\ \A j \in DOMAIN inserts : j \in DOMAIN inserts' /\ inserts'[j] = inserts[j]
        /\ \A j \in DOMAIN inserts' \ DOMAIN inserts : inserts'[j].made = n /\ inserts'[j].typed = {}
    BY <1>0, <2>1, Added
  <2>3. OnTarget(n, -n.at)
    BY <1>7, <1>10, <1>11
  <2> QED BY <1>5, <1>6, <2>1, <2>2, <2>3 DEF PendingOnTarget
<1>12. ASSUME NEW s \in Shown, row = s.row, TypeInto(s.at, row) \/ ClickDelete(s.at, row)
       PROVE  PendingOnTarget'
  <2> DEFINE i == s.at
             j == i - Len(data.ids)
             r == data.ids[i]
  <2>1. n.hidden \/ \/ i \in 1..Len(data.ids) /\ row = r
                    \/ i > Len(data.ids) /\ row = -inserts[j].made.at
    BY <1>8, <1>9, <1>12, ShownPlaces
  <2>2. i \in 1..Len(data.ids) => ~(i > Len(data.ids))
    BY <1>8
  <2>3. DOMAIN data.ids = 1..Len(data.ids)
    BY <1>8
  <2>4. CASE TypeInto(i, row) /\ i > Len(data.ids)
    <3>1. SetInsertValue(j, n)
      BY <2>4 DEF TypeInto
    <3>2. OnTarget(n, -inserts[j].made.at)
      BY <1>7, <2>1, <2>2, <2>4
    <3> HIDE DEF n, j
    <3>3. /\ j \in DOMAIN inserts
          /\ inserts' = [inserts EXCEPT ![j].typed = {n}] /\ UNCHANGED <<edits, deletes>>
      BY <3>1 DEF SetInsertValue
    <3>4. /\ DOMAIN inserts' = DOMAIN inserts
          /\ inserts'[j].made = inserts[j].made /\ inserts'[j].typed = {n}
          /\ \A k \in DOMAIN inserts \ {j} : inserts'[k] = inserts[k]
      BY <1>0, <3>3, Typed
    <3> QED BY <1>5, <1>6, <3>2, <3>3, <3>4 DEF PendingOnTarget
  <2>5. CASE TypeInto(i, row) /\ ~(i > Len(data.ids))
    <3>1. EditCell(r, n)
      BY <2>5 DEF TypeInto
    <3>2. OnTarget(n, r)
      BY <1>7, <2>1, <2>5
    <3> HIDE DEF n, r
    <3>3. edits' = With(edits, r, n) /\ UNCHANGED <<inserts, deletes>>
      BY <3>1 DEF EditCell
    <3> QED BY <1>5, <1>6, <3>2, <3>3 DEF PendingOnTarget, With
  <2>6. CASE ClickDelete(i, row)
    <3>1. i \in DOMAIN data.ids /\ DeleteRow(r, n)
      BY <2>6 DEF ClickDelete
    <3>2. OnTarget(n, r)
      BY <1>7, <2>1, <2>2, <2>3, <3>1
    <3> HIDE DEF n, r
    <3>3. /\ deletes' = IF r \in DOMAIN deletes THEN deletes ELSE With(deletes, r, n)
          /\ UNCHANGED <<inserts, edits>>
      BY <3>1 DEF DeleteRow
    <3> QED BY <1>5, <1>6, <3>2, <3>3 DEF PendingOnTarget, With
  <2> QED BY <1>12, <2>4, <2>5, <2>6
<1> QED BY <1>11, <1>12

LEMMA HitsGesture ==
    ASSUME HitsInv, ExplorerTypeOK, InsertsType, activeDb' = activeDb, ExplorerGesture(activeDb)
    PROVE  HitsInv'
<1>1. ASSUME NEW t \in Tables, OpenTable(activeDb, t)
      PROVE  HitsInv'
  <2> DEFINE n == Load("open", activeDb, t)
  <2>1. n.of = "open" /\ n.db = activeDb /\ n.table = t
    BY DEF Load
  <2>2. table' = t /\ loads' = loads \cup {n} /\ calm' = (loads = {}) /\ PendingOnTarget'
    BY <1>1, NothingPending DEF OpenTable
  <2> HIDE DEF n
  <2> QED BY <2>1, <2>2 DEF HitsInv, Aligned, ChangesHitTheirRow, Hits
<1>2. CASE SetPage(activeDb)
  <2> DEFINE n == Load("page", activeDb, table)
  <2>1. n.of = "page" /\ n.db = activeDb /\ n.table = table
    BY DEF Load
  <2>2. loads' = loads \cup {n} /\ UNCHANGED <<table, data, pendingVars, calm>>
    BY <1>2 DEF SetPage, historyVars
  <2> HIDE DEF n
  <2>3. PendingOnTarget' <=> PendingOnTarget
    BY <2>2 DEF pendingVars, PendingOnTarget, OnTarget
  <2> QED BY <2>1, <2>2, <2>3 DEF HitsInv, Aligned, ChangesHitTheirRow, Hits
<1>3. CASE Close
  BY <1>3 DEF Close, HitsInv, Aligned, ChangesHitTheirRow, Hits
<1>4. CASE ClearPending
  BY <1>4, NothingPending DEF ClearPending, HitsInv, Aligned, ChangesHitTheirRow, Hits
<1>5. CASE AddRow
  BY <1>5, HitsRow DEF AddRow
<1>6. CASE Open /\ \E s \in Shown : TypeInto(s.at, s.row) \/ ClickDelete(s.at, s.row)
  BY <1>6, HitsRow
<1>7. CASE Commit(activeDb)
  <2> DEFINE n == [of |-> "batch", db |-> activeDb, table |-> table, at |-> Now,
                   ops |-> ToBatchOps, calm |-> calm]
  <2>1. n.of = "batch" /\ n.db = activeDb /\ n.table = table /\ n.ops = ToBatchOps /\ n.calm = calm
    OBVIOUS
  <2>2. /\ loads' = loads \cup {n} /\ table # None
        /\ UNCHANGED <<table, data, pendingVars, calm>>
    BY <1>7 DEF Commit, Open, historyVars
  <2> HIDE DEF n
  <2>3. PendingOnTarget' <=> PendingOnTarget
    BY <2>2 DEF pendingVars, PendingOnTarget, OnTarget
  <2>4. n.calm => \A o \in n.ops : o.change.hidden \/ Hits(n, o)
    <3> SUFFICES ASSUME calm, NEW o \in ToBatchOps
                 PROVE  o.change.hidden \/ Hits(n, o)
      BY <2>1
    <3>1. OnTarget(o.change, o.to)
      BY <2>2, SentOnTarget DEF HitsInv, Aligned
    <3> QED BY <2>1, <3>1 DEF OnTarget, Hits
  <2>5. ChangesHitTheirRow'
    BY <2>2, <2>4 DEF HitsInv, ChangesHitTheirRow, Hits
  <2> QED BY <2>1, <2>2, <2>3, <2>5 DEF HitsInv, Aligned
<1> QED BY <1>1, <1>2, <1>3, <1>4, <1>5, <1>6, <1>7 DEF ExplorerGesture

LEMMA HitsAnswer ==
    ASSUME HitsInv, NEW c \in loads, activeDb' = activeDb,
           \/ Browsed(c) \/ BrowseFailed(c)
           \/ BatchAnswered(c) \/ BatchFailed(c)
           \/ Reloaded(c) \/ ReloadFailed(c)
    PROVE  HitsInv'
<1>1. table' = table
  BY DEF Browsed, BrowseFailed, BatchAnswered, BatchFailed, Reloaded, ReloadFailed
<1>2. ASSUME UNCHANGED pendingVars
      PROVE  PendingOnTarget' <=> PendingOnTarget
  BY <1>1, <1>2 DEF pendingVars, PendingOnTarget, OnTarget
<1>3. CASE Browsed(c) \/ Reloaded(c)
  <2>1. PICK p : data' = [db |-> c.db, table |-> c.table, ids |-> p]
    BY <1>3 DEF Browsed, Reloaded
  <2>2. data'.db = c.db /\ data'.table = c.table
    BY <2>1
  <2>3. loads' = loads \ {c} /\ calm' = calm
    BY <1>3 DEF Browsed, Reloaded, historyVars
  <2>4. PendingOnTarget => PendingOnTarget'
    BY <1>2, <1>3, NothingPending DEF Browsed, Reloaded
  <2> QED BY <1>1, <2>2, <2>3, <2>4 DEF HitsInv, Aligned, ChangesHitTheirRow, Hits
<1>4. CASE BrowseFailed(c) \/ BatchFailed(c) \/ ReloadFailed(c)
  <2>1. /\ loads' = loads \ {c} /\ UNCHANGED <<data, pendingVars>>
        /\ calm' => calm /\ c.of # "open"
    <3>1. CASE BrowseFailed(c)
      BY <3>1 DEF BrowseFailed, pendingVars
    <3>2. CASE BatchFailed(c) \/ ReloadFailed(c)
      BY <3>2 DEF BatchFailed, ReloadFailed
    <3> QED BY <1>4, <3>1, <3>2
  <2>2. PendingOnTarget' <=> PendingOnTarget
    BY <1>2, <2>1
  <2> QED BY <1>1, <2>1, <2>2 DEF HitsInv, Aligned, ChangesHitTheirRow, Hits
<1>5. CASE BatchAnswered(c)
  <2> DEFINE n == [of |-> "reload", db |-> c.db, table |-> c.table, at |-> c.at]
  <2>1. n.of = "reload" /\ n.db = c.db /\ n.table = c.table
    OBVIOUS
  <2>2. /\ c.of = "batch" /\ loads' = (loads \ {c}) \cup {n} /\ UNCHANGED <<data, pendingVars, calm>>
    BY <1>5 DEF BatchAnswered
  <2> HIDE DEF n
  <2>3. PendingOnTarget' <=> PendingOnTarget
    BY <1>2, <2>2
  <2> QED BY <1>1, <2>1, <2>2, <2>3 DEF HitsInv, Aligned, ChangesHitTheirRow, Hits
<1> QED BY <1>3, <1>4, <1>5

LEMMA HitsStep ==
    ASSUME HitsInv, ExplorerTypeOK, PendingInv, [Next]_vars
    PROVE  HitsInv'
<1>1. CASE Aeris
  <2>1. UNCHANGED <<table, data, pendingVars, loads>> /\ (calm' => calm /\ activeDb' = activeDb)
    BY <1>1 DEF Aeris
  <2>2. activeDb' = activeDb => (PendingOnTarget' <=> PendingOnTarget)
    BY <2>1 DEF pendingVars, PendingOnTarget, OnTarget
  <2> QED BY <2>1, <2>2 DEF HitsInv, Aligned, ChangesHitTheirRow, Hits
<1>2. CASE Explorer
  BY <1>2, HitsGesture DEF Explorer, aerisVars, PendingInv
<1>3. CASE Resume
  BY <1>3, HitsAnswer DEF Resume, ExplorerAnswer, aerisVars
<1>4. CASE UNCHANGED vars
  <2>1. UNCHANGED <<activeDb, table, data, pendingVars, loads, calm>>
    BY <1>4 DEF vars, aerisVars, explorerVars, historyVars
  <2>2. PendingOnTarget' <=> PendingOnTarget
    BY <2>1 DEF pendingVars, PendingOnTarget, OnTarget
  <2> QED BY <2>1, <2>2 DEF HitsInv, Aligned, ChangesHitTheirRow, Hits
<1> QED BY <1>1, <1>2, <1>3, <1>4 DEF Next

\* commit: every change goes to the row its user pointed at, in the database and
\* table it was made in, for any pages, tables, databases and number of gestures,
\* with the exceptions ChangesHitTheirRow names.
THEOREM RowsAreHit == Spec => []ChangesHitTheirRow
<1>1. Init => HitsInv
  BY DEF Init, ExplorerInit, HitsInv, Aligned, ChangesHitTheirRow
<1>2. HitsInv /\ ExplorerTypeOK /\ PendingInv /\ [Next]_vars => HitsInv'
  BY HitsStep
<1>3. HitsInv => ChangesHitTheirRow
  BY DEF HitsInv
<1> QED BY <1>1, <1>2, <1>3, TypesAlways, PendingAlways, PTL DEF Spec

=============================================================================
