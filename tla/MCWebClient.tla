----------------------------- MODULE MCWebClient -----------------------------
(* Two pages: both rows of the table, and the second alone. *)
EXTENDS WebClient

MCPages == {<<1, 2>>, <<2>>}

CONSTANTS d1, d2, t1, t2

MCSymmetry == Permutations(Dbs) \cup Permutations(Tables)

=============================================================================
