---------------------------- MODULE SavedQueries ----------------------------
(***************************************************************************)
(* The saved queries of one attached database (SaveQuery, DeleteSaved in   *)
(* internal/engine/history.go).  SaveQuery counts the rows and inserts in  *)
(* two statements; concurrent requests run between them.                   *)
(*                                                                         *)
(* A saved query is its title: the column is UNIQUE, so a title is a row.  *)
(* Titles that are empty or too long are refused before any statement.     *)
(***************************************************************************)
EXTENDS Integers, FiniteSets

CONSTANTS
    Clients,   \* concurrent requests
    Titles,    \* titles of 1 to 120 characters
    Limit      \* 200

ASSUME ClientsAssumption == IsFiniteSet(Clients) /\ Clients # {}
ASSUME TitlesAssumption == IsFiniteSet(Titles)
ASSUME LimitAssumption == Limit \in Nat \ {0}

VARIABLES
    saved,     \* titles in _system_saved_queries
    inserting  \* requests that have passed the count, with their title

savedVars == <<saved, inserting>>

SavedInit == saved = {} /\ inserting = [c \in {} |-> {}]

\* Mutant of Count: one title too many.
CountInclusive(c, title) ==
    /\ c \notin DOMAIN inserting
    /\ Cardinality(saved) =< Limit
    /\ inserting' = [d \in DOMAIN inserting \cup {c} |-> IF d = c THEN title ELSE inserting[d]]
    /\ UNCHANGED saved

\* Mutant of Count: a title that is empty after trimming gets through.
CountUntitled(c, title) ==
    /\ c \notin DOMAIN inserting
    /\ Cardinality(saved) < Limit
    /\ inserting' = [d \in DOMAIN inserting \cup {c} |-> IF d = c THEN "" ELSE inserting[d]]
    /\ UNCHANGED saved

\* SELECT COUNT: below the limit the request goes on to insert.
Count(c, title) ==
    /\ c \notin DOMAIN inserting
    /\ Cardinality(saved) < Limit
    /\ inserting' = [d \in DOMAIN inserting \cup {c} |-> IF d = c THEN title ELSE inserting[d]]
    /\ UNCHANGED saved

Finish(c) == inserting' = [d \in DOMAIN inserting \ {c} |-> inserting[d]]

\* INSERT: a title that is there is ERR_SAVED_QUERY_DUPLICATE.
InsertSaved(c) ==
    /\ c \in DOMAIN inserting
    /\ saved' = saved \cup {inserting[c]}
    /\ Finish(c)

\* INSERT fails otherwise.
InsertSavedFails(c) ==
    /\ c \in DOMAIN inserting
    /\ Finish(c)
    /\ UNCHANGED saved

DeleteSaved(title) ==
    /\ title \in saved
    /\ saved' = saved \ {title}
    /\ UNCHANGED inserting

SavedNext ==
    \/ \E c \in Clients : (\E title \in Titles : Count(c, title)) \/ InsertSaved(c) \/ InsertSavedFails(c)
    \/ \E title \in Titles : DeleteSaved(title)

SavedSpec == SavedInit /\ [][SavedNext]_savedVars

----------------------------------------------------------------------------

SavedTypeOK ==
    /\ saved \subseteq Titles
    /\ DOMAIN inserting \subseteq Clients
    /\ \A c \in DOMAIN inserting : inserting[c] \in Titles

\* "Saved query limit (200) reached for this database": the database never
\* holds more saved queries than the limit.
LimitRespected == Cardinality(saved) =< Limit

\* What the two statements do guarantee: each request in progress may take the
\* table one row past what it counted, so the excess is below the number of
\* concurrent requests.
ExcessBounded ==
    Cardinality(saved) + Cardinality(DOMAIN inserting) =< Limit + Cardinality(Clients) - 1

=============================================================================
