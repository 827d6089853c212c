---------------------------- MODULE MCQueryCache ----------------------------
EXTENDS QueryCache
=============================================================================
