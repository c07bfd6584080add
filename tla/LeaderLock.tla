----------------------------- MODULE LeaderLock -----------------------------
(***************************************************************************)
(* What the leader key promises: a lock held by at most one node, free     *)
(* between two holders.                                                    *)
(***************************************************************************)
CONSTANTS Nodes, None

VARIABLE holder

Init == holder = None

Acquire(n) == holder = None /\ holder' = n

Release == holder # None /\ holder' = None

Next == Release \/ \E n \in Nodes : Acquire(n)

Spec == Init /\ [][Next]_holder
=============================================================================
