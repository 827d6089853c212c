----------------------------- MODULE ReadService -----------------------------
(***************************************************************************)
(* What a query service without a cache promises: every answer is the      *)
(* contents of the database at the moment it is given.                     *)
(***************************************************************************)
EXTENDS Integers

CONSTANTS Clients

VARIABLES
    db,      \* version of the contents
    served   \* version each client was last given

Init == db = 0 /\ served = [c \in Clients |-> 0]

Write == db' = db + 1 /\ UNCHANGED served

Answer(c) == served' = [served EXCEPT ![c] = db] /\ UNCHANGED db

Next == Write \/ \E c \in Clients : Answer(c)

Spec == Init /\ [][Next]_<<db, served>>

=============================================================================
