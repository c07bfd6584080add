----------------------------- MODULE MCFcBackend -----------------------------
EXTENDS FcBackend, TLC

OneEach == [p \in {"warm", "hot"} |-> 1]
NoPools == [p \in {"warm", "hot"} |-> 0]

Symmetry == Permutations(Ids)
=============================================================================
