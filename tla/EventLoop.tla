------------------------------ MODULE EventLoop ------------------------------
(***************************************************************************)
(* The event loop of the web client, as far as its stores share it: the    *)
(* user's gestures run one at a time and are numbered, and what a handler  *)
(* awaits is answered later, in any order, or fails.                       *)
(***************************************************************************)
EXTENDS Integers

CONSTANTS
    Dbs,          \* the databases the server lists
    MaxGestures,  \* bound: gestures in one session
    None          \* null in the stores

ASSUME GesturesAssumption == MaxGestures \in Nat

ASSUME NoneAssumption == None \notin Dbs

VARIABLE gestures   \* gestures so far: the last one's number

Gesture ==
    /\ gestures < MaxGestures
    /\ gestures' = gestures + 1

Now == gestures + 1   \* the number of the gesture being handled

=============================================================================
