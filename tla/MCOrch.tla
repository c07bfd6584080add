------------------------------- MODULE MCOrch -------------------------------
EXTENDS Orch, TLC

Symmetry == Permutations(Ids)
=============================================================================
