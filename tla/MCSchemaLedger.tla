--------------------------- MODULE MCSchemaLedger ---------------------------
EXTENDS SchemaLedger, TLC

\* Requests are interchangeable, and columns are compared for equality only.
\* Tables are not: Schema() asks for them in the order of their names.
Symmetry == Permutations(Clients) \cup Permutations(Columns)

=============================================================================
