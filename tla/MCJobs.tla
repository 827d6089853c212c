------------------------------- MODULE MCJobs -------------------------------
EXTENDS Jobs, TLC

\* Requests are interchangeable.
ClientSymmetry == Permutations(Clients)

=============================================================================
