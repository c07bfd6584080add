----------------------------- MODULE MCCluster -----------------------------
\* Instances of Cluster: two nodes of equal size.
EXTENDS Cluster, TLC

Threads == Permutations(Reqs)

CapTwo == 1 :> 2 @@ 2 :> 2
=============================================================================
