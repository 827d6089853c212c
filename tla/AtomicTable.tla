----------------------------- MODULE AtomicTable -----------------------------
(***************************************************************************)
(* What Batch promises (data.go:200-202): a batch is applied as a whole to *)
(* the table of that moment, or not at all, and nothing else changes rows  *)
(* but the deletion of the records with a key and a rebuild.               *)
(***************************************************************************)
EXTENDS RowOps

CONSTANTS Requests

VARIABLES
    table,      \* what readers see
    composite,  \* whether the primary key has two columns
    want,       \* the operations each request asked for
    run         \* each request's private sequence of tables

vars == <<table, composite, want, run>>

Init ==
    /\ table \in Tables
    /\ composite \in BOOLEAN
    /\ want = [r \in Requests |-> <<>>] /\ run = [r \in Requests |-> <<>>]

\* A run of the operations: from t, one outcome after the other.
IsRun(ops, w, t) ==
    /\ Len(w) = Len(ops) + 1
    /\ w[1] = t
    /\ \A n \in 1..Len(ops) : w[n + 1] \in Outcomes(ops[n], w[n], composite)

Others(r) == \A q \in Requests \ {r} : want'[q] = want[q] /\ run'[q] = run[q]

\* A request states its operations once, works in private, and may give up.
Ask(r) ==
    /\ want[r] = <<>> /\ run'[r] = run[r]
    /\ Others(r)
    /\ UNCHANGED <<table, composite>>

Work(r) ==
    /\ want'[r] = want[r]
    /\ Others(r)
    /\ UNCHANGED <<table, composite>>

GiveUp(r) ==
    /\ want'[r] = <<>>
    /\ Others(r)
    /\ UNCHANGED <<table, composite>>

Apply(r) ==
    /\ IsRun(want[r], run[r], table)
    /\ table' = run[r][Len(run[r])]
    /\ want'[r] = <<>>
    /\ Others(r)
    /\ UNCHANGED composite

Delete(k) ==
    /\ table' = Without(table, Named(table, k))
    /\ UNCHANGED <<composite, want, run>>

Rebuild ==
    /\ table' \in Renumbered(table)
    /\ UNCHANGED <<composite, want, run>>

Restart ==
    /\ want' = [r \in Requests |-> <<>>] /\ run' = [r \in Requests |-> <<>>]
    /\ UNCHANGED <<table, composite>>

Next ==
    \/ \E r \in Requests : Ask(r) \/ Work(r) \/ GiveUp(r) \/ Apply(r)
    \/ \E k \in Keys : Delete(k)
    \/ Rebuild \/ Restart

Spec == Init /\ [][Next]_vars

=============================================================================
