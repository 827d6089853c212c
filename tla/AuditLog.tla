------------------------------ MODULE AuditLog ------------------------------
(***************************************************************************)
(* What an append-only ledger of changes promises: a change is entered     *)
(* after it happened, at most once, and an entry is never taken back.      *)
(***************************************************************************)
EXTENDS Sequences

VARIABLES
    applied,   \* the changes that happened
    ledger     \* the changes entered, in the order of entry

Entered == {ledger[i] : i \in DOMAIN ledger}

Init == applied = {} /\ ledger = <<>>

Happen == (\E n \in applied' \ applied : applied' = applied \cup {n}) /\ UNCHANGED ledger

Enter == \E n \in applied \ Entered : ledger' = Append(ledger, n) /\ UNCHANGED applied

Next == Happen \/ Enter

Spec == Init /\ [][Next]_<<applied, ledger>>

=============================================================================
