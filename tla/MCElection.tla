----------------------------- MODULE MCElection -----------------------------
EXTENDS Election, TLC

\* Replicas and lease ids are interchangeable.
Symmetry == Permutations(Nodes) \cup Permutations(Leases)
=============================================================================
