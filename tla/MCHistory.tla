------------------------------ MODULE MCHistory ------------------------------
EXTENDS History
=============================================================================
