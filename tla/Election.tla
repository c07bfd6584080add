------------------------------ MODULE Election ------------------------------
(***************************************************************************)
(* Leader election of the control-plane replicas (sl-store/election.rs)    *)
(* as the election thread of `serve` runs it: try_campaign again and       *)
(* again, its result stored in the flag the reaper thread reads.  Every    *)
(* store call of try_campaign is a step of its own, so the campaigns of    *)
(* several replicas interleave, and every call may fail, before or after   *)
(* the etcd server applied it.                                             *)
(*                                                                         *)
(*   leader     the key `leader`: [owner, lease], or None                  *)
(*   alive      the leases the server knows                                *)
(*   lease[n]   Election.lease of replica n (None: no lease)               *)
(*   tmp[n]     the lease try_campaign has just been granted               *)
(*   flag[n]    the AtomicBool is_leader of replica n                      *)
(*   pc[n]      the call try_campaign makes next; "down" after a crash     *)
(*   errors     failed calls and stalls so far, at most MaxErrors          *)
(***************************************************************************)
EXTENDS Naturals

CONSTANTS Nodes, Leases, None, MaxErrors

ASSUME NoneAssumption ==
    None \notin Nodes \cup Leases \cup [owner : Nodes, lease : Leases]
ASSUME MaxErrorsAssumption == MaxErrors \in Nat

VARIABLES leader, alive, lease, tmp, flag, pc, errors

vars == <<leader, alive, lease, tmp, flag, pc, errors>>

TypeOK ==
    /\ leader \in [owner : Nodes, lease : Leases] \cup {None}
    /\ alive \subseteq Leases
    /\ lease \in [Nodes -> Leases \cup {None}]
    /\ tmp \in [Nodes -> Leases \cup {None}]
    /\ flag \in [Nodes -> BOOLEAN]
    /\ pc \in [Nodes -> {"idle", "keepalive", "check", "grant", "cas", "revoke", "down"}]
    /\ errors \in 0..MaxErrors

Init ==
    /\ leader = None
    /\ alive = {}
    /\ lease = [n \in Nodes |-> None]
    /\ tmp = [n \in Nodes |-> None]
    /\ flag = [n \in Nodes |-> FALSE]
    /\ pc = [n \in Nodes |-> "idle"]
    /\ errors = 0

Goto(n, l) == pc' = [pc EXCEPT ![n] = l]

\* Mutant of Return: a result of false is not stored.
ReturnSticky(n, r) == Goto(n, "idle") /\ flag' = [flag EXCEPT ![n] = @ \/ r]

\* try_campaign returns r and the election thread stores unwrap_or(false).
Return(n, r) == Goto(n, "idle") /\ flag' = [flag EXCEPT ![n] = r]

Fault == errors < MaxErrors /\ errors' = errors + 1

\* Mutants of EndLease: the key survives its lease; any lease takes the key.
EndLeaseOnly(l) == alive' = alive \ {l} /\ UNCHANGED leader

EndLeaseAnyKey(l) == alive' = alive \ {l} /\ leader' = None

\* Losing a lease takes the key attached to it along.
EndLease(l) ==
    /\ alive' = alive \ {l}
    /\ leader' = IF leader # None /\ leader.lease = l THEN None ELSE leader

Begin(n) ==
    /\ pc[n] = "idle"
    /\ Goto(n, IF lease[n] # None THEN "keepalive" ELSE "grant")
    /\ UNCHANGED <<leader, alive, lease, tmp, flag, errors>>

\* lease_keepalive(l).is_ok(): a lease that is gone and a failed call look
\* the same, and both make the replica forget its lease.
Keepalive(n) ==
    /\ pc[n] = "keepalive"
    /\ \/ /\ lease[n] \in alive
          /\ Goto(n, "check")
          /\ UNCHANGED <<lease, errors>>
       \/ /\ IF lease[n] \in alive THEN Fault ELSE UNCHANGED errors
          /\ lease' = [lease EXCEPT ![n] = None]
          /\ Goto(n, "grant")
    /\ UNCHANGED <<leader, alive, tmp, flag>>

OwnsKey(n) == leader # None /\ leader.owner = n

\* holds_leadership()?: an error leaves try_campaign with the lease kept.
Check(n) ==
    /\ pc[n] = "check"
    /\ \/ /\ OwnsKey(n)
          /\ Return(n, TRUE)
          /\ UNCHANGED <<lease, errors>>
       \/ /\ ~OwnsKey(n)
          /\ lease' = [lease EXCEPT ![n] = None]
          /\ Goto(n, "grant")
          /\ UNCHANGED <<flag, errors>>
       \/ /\ Fault
          /\ Return(n, FALSE)
          /\ UNCHANGED lease
    /\ UNCHANGED <<leader, alive, tmp>>

\* The server never hands out an id twice: an id nobody refers to is fresh.
Unreferenced(l) ==
    /\ l \notin alive
    /\ \A m \in Nodes : lease[m] # l /\ tmp[m] # l

Grant(n) ==
    /\ pc[n] = "grant"
    /\ \/ \E l \in Leases :
            /\ Unreferenced(l)
            /\ alive' = alive \cup {l}
            /\ \/ tmp' = [tmp EXCEPT ![n] = l] /\ Goto(n, "cas") /\ UNCHANGED <<flag, errors>>
               \/ Fault /\ Return(n, FALSE) /\ UNCHANGED tmp
       \/ Fault /\ Return(n, FALSE) /\ UNCHANGED <<alive, tmp>>
    /\ UNCHANGED <<leader, lease>>

\* Mutant of CasSucceeds: a put in place of the compare-and-swap.
CasUnconditional(n) == tmp[n] \in alive

CasSucceeds(n) == leader = None /\ tmp[n] \in alive

\* Mutant of LeaderKey: the key is not attached to the lease.
LeaderKeyUnleased(n) == [owner |-> n, lease |-> None]

LeaderKey(n) == [owner |-> n, lease |-> tmp[n]]

\* compare_and_swap(key, None, node_id, lease): won, lost, or an error whose
\* transaction the server may have committed all the same.
Cas(n) ==
    /\ pc[n] = "cas"
    /\ \/ /\ CasSucceeds(n)
          /\ leader' = LeaderKey(n)
          /\ \/ /\ lease' = [lease EXCEPT ![n] = tmp[n]]
                /\ tmp' = [tmp EXCEPT ![n] = None]
                /\ Return(n, TRUE)
                /\ UNCHANGED errors
             \/ /\ Fault
                /\ tmp' = [tmp EXCEPT ![n] = None]
                /\ Return(n, FALSE)
                /\ UNCHANGED lease
       \/ /\ leader # None
          /\ Goto(n, "revoke")
          /\ UNCHANGED <<leader, lease, tmp, flag, errors>>
       \/ /\ IF leader = None /\ tmp[n] \notin alive THEN UNCHANGED errors ELSE Fault
          /\ tmp' = [tmp EXCEPT ![n] = None]
          /\ Return(n, FALSE)
          /\ UNCHANGED <<leader, lease>>
    /\ UNCHANGED alive

\* let _ = lease_revoke(new): the result is ignored.
Revoke(n) ==
    /\ pc[n] = "revoke"
    /\ \/ EndLease(tmp[n]) /\ UNCHANGED errors
       \/ Fault /\ UNCHANGED <<leader, alive>>
    /\ tmp' = [tmp EXCEPT ![n] = None]
    /\ Return(n, FALSE)
    /\ UNCHANGED lease

Step(n) == Begin(n) \/ Keepalive(n) \/ Check(n) \/ Grant(n) \/ Cas(n) \/ Revoke(n)

\* resign(): take the lease, revoke it.
Resign(n) ==
    /\ pc[n] = "idle" /\ lease[n] # None
    /\ lease' = [lease EXCEPT ![n] = None]
    /\ flag' = [flag EXCEPT ![n] = FALSE]
    /\ \/ EndLease(lease[n]) /\ UNCHANGED errors
       \/ Fault /\ UNCHANGED <<leader, alive>>
    /\ UNCHANGED <<tmp, pc>>

\* A replica dies; the process that replaces it has another pid, hence
\* another node id, and is another element of Nodes.
Crash(n) ==
    /\ pc[n] # "down"
    /\ Goto(n, "down")
    /\ flag' = [flag EXCEPT ![n] = FALSE]
    /\ lease' = [lease EXCEPT ![n] = None]
    /\ tmp' = [tmp EXCEPT ![n] = None]
    /\ UNCHANGED <<leader, alive, errors>>

Held(l) == \E n \in Nodes : lease[n] = l \/ tmp[n] = l

\* A lease nobody renews any more runs out.
ExpireAbandoned(l) ==
    /\ l \in alive /\ ~Held(l)
    /\ EndLease(l)
    /\ UNCHANGED <<lease, tmp, flag, pc, errors>>

\* A lease runs out under its holder: the holder stalled for a whole ttl.
ExpireHeld(l) ==
    /\ l \in alive /\ Held(l)
    /\ Fault
    /\ EndLease(l)
    /\ UNCHANGED <<lease, tmp, flag, pc>>

Next ==
    \/ \E n \in Nodes : Step(n) \/ Resign(n) \/ Crash(n)
    \/ \E l \in Leases : ExpireAbandoned(l) \/ ExpireHeld(l)

\* The election thread is an endless loop; the server expires leases.
Fairness ==
    /\ \A n \in Nodes : WF_vars(Step(n))
    /\ \A l \in Leases : WF_vars(ExpireAbandoned(l))

Spec == Init /\ [][Next]_vars

FairSpec == Spec /\ Fairness
-----------------------------------------------------------------------------
\* A replica whose lease is still alive is the one named by the leader key,
\* and the key hangs on that very lease (try_campaign keeps a lease only
\* after the CAS that attached the key to it).
HolderOwnsKey ==
    \A n \in Nodes : lease[n] \in alive => leader = [owner |-> n, lease |-> lease[n]]

\* No two replicas hold live leadership leases: the mutual exclusion the CAS
\* on the leader key is there for.
AtMostOneHolder ==
    \A m, n \in Nodes : lease[m] \in alive /\ lease[n] \in alive => m = n

\* The leader key behaves as a lock: never handed over without being free.
Lock == INSTANCE LeaderLock WITH holder <- IF leader = None THEN None ELSE leader.owner

LockSpec == Lock!Spec

\* As long as a replica runs, some replica is leader again and again, after
\* every crash, lost reply or leaked lease.
LeaderAgain ==
    []<>((\A n \in Nodes : pc[n] = "down") \/ (\E n \in Nodes : flag[n]))

\* A replica whose lease lapsed does not go on believing it leads.
LossNoticed ==
    \A n \in Nodes : (flag[n] /\ lease[n] \notin alive) ~> (~flag[n] \/ lease[n] \in alive)
=============================================================================
