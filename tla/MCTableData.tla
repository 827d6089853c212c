----------------------------- MODULE MCTableData -----------------------------
EXTENDS TableData

CONSTANTS k1, k2, v1, v2, b

Ins(k, v) == [op |-> "insert", row |-> 0, set |-> [key |-> k, val |-> v]]
Upd(i, set) == [op |-> "update", row |-> i, set |-> set]
Del(i) == [op |-> "delete", row |-> i, set |-> Nothing]

\* Inserts, updates of a value and of a key, deletes, in one batch and alone,
\* and operations that fail after others.
MCBatches ==
    {<<Ins(k1, v1)>>,
     <<Upd(1, [key |-> k2])>>,
     <<Del(1), Ins(k2, v1)>>,
     <<Ins(k1, v2), Upd(2, [val |-> b])>>}
MCBodies == {[key |-> k1]}
MCFilters == {{v1}}

=============================================================================
