-------------------------- MODULE Election_proofs --------------------------
(***************************************************************************)
(* Proofs about Election: the types, the mutual exclusion of the holders   *)
(* of live leadership leases, and that the leader key is a LeaderLock.     *)
(* HolderOwnsKey together with TypeOK is inductive; the exclusion follows  *)
(* from it because one key cannot name two owners.                         *)
(***************************************************************************)
EXTENDS Election, TLAPS

\* The record a CAS writes is never None.
LEMMA KeyNotNone == \A n \in Nodes, l \in Leases : [owner |-> n, lease |-> l] # None
  BY NoneAssumption

\* Every store call, crash and expiry keeps the variables in their types.
LEMMA TypeStep == TypeOK /\ [Next]_vars => TypeOK'
  <1> SUFFICES ASSUME TypeOK, [Next]_vars PROVE TypeOK'
    OBVIOUS
  <1> USE MaxErrorsAssumption DEF TypeOK, Goto, Return, Fault, EndLease
  <1>1. ASSUME NEW n \in Nodes, Begin(n) PROVE TypeOK'
    BY <1>1 DEF Begin
  <1>2. ASSUME NEW n \in Nodes, Keepalive(n) PROVE TypeOK'
    BY <1>2 DEF Keepalive
  <1>3. ASSUME NEW n \in Nodes, Check(n) PROVE TypeOK'
    <2>1. flag' = flag \/ \E r \in BOOLEAN : flag' = [flag EXCEPT ![n] = r]
      BY <1>3, Zenon DEF Check
    <2>2. flag' \in [Nodes -> BOOLEAN]
      BY <2>1, Zenon
    <2>3. /\ leader' \in [owner : Nodes, lease : Leases] \cup {None}
          /\ alive' \subseteq Leases
          /\ lease' \in [Nodes -> Leases \cup {None}]
          /\ tmp' \in [Nodes -> Leases \cup {None}]
          /\ pc' \in [Nodes -> {"idle", "keepalive", "check", "grant", "cas", "revoke", "down"}]
          /\ errors' \in 0..MaxErrors
      BY <1>3 DEF Check
    <2> QED
      BY <2>2, <2>3
  <1>4. ASSUME NEW n \in Nodes, Grant(n) PROVE TypeOK'
    <2>1. flag' = flag \/ \E r \in BOOLEAN : flag' = [flag EXCEPT ![n] = r]
      BY <1>4, Zenon DEF Grant
    <2>2. flag' \in [Nodes -> BOOLEAN]
      BY <2>1, Zenon
    <2>3. /\ leader' \in [owner : Nodes, lease : Leases] \cup {None}
          /\ alive' \subseteq Leases
          /\ lease' \in [Nodes -> Leases \cup {None}]
          /\ tmp' \in [Nodes -> Leases \cup {None}]
          /\ pc' \in [Nodes -> {"idle", "keepalive", "check", "grant", "cas", "revoke", "down"}]
          /\ errors' \in 0..MaxErrors
      BY <1>4 DEF Grant
    <2> QED
      BY <2>2, <2>3
  <1>5. ASSUME NEW n \in Nodes, Cas(n) PROVE TypeOK'
    <2>1. flag' = flag \/ \E r \in BOOLEAN : flag' = [flag EXCEPT ![n] = r]
      BY <1>5, Zenon DEF Cas
    <2>2. flag' \in [Nodes -> BOOLEAN]
      BY <2>1, Zenon
    <2>3. /\ leader' \in [owner : Nodes, lease : Leases] \cup {None}
          /\ alive' \subseteq Leases
          /\ lease' \in [Nodes -> Leases \cup {None}]
          /\ tmp' \in [Nodes -> Leases \cup {None}]
          /\ pc' \in [Nodes -> {"idle", "keepalive", "check", "grant", "cas", "revoke", "down"}]
          /\ errors' \in 0..MaxErrors
      BY <1>5 DEF Cas, LeaderKey, CasSucceeds
    <2> QED
      BY <2>2, <2>3
  <1>6. ASSUME NEW n \in Nodes, Revoke(n) PROVE TypeOK'
    <2>1. flag' = flag \/ \E r \in BOOLEAN : flag' = [flag EXCEPT ![n] = r]
      BY <1>6, Zenon DEF Revoke
    <2>2. flag' \in [Nodes -> BOOLEAN]
      BY <2>1, Zenon
    <2>3. /\ leader' \in [owner : Nodes, lease : Leases] \cup {None}
          /\ alive' \subseteq Leases
          /\ lease' \in [Nodes -> Leases \cup {None}]
          /\ tmp' \in [Nodes -> Leases \cup {None}]
          /\ pc' \in [Nodes -> {"idle", "keepalive", "check", "grant", "cas", "revoke", "down"}]
          /\ errors' \in 0..MaxErrors
      BY <1>6 DEF Revoke
    <2> QED
      BY <2>2, <2>3
  <1>7. ASSUME NEW n \in Nodes, Resign(n) PROVE TypeOK'
    BY <1>7 DEF Resign
  <1>8. ASSUME NEW n \in Nodes, Crash(n) PROVE TypeOK'
    BY <1>8 DEF Crash
  <1>9. ASSUME NEW l \in Leases, ExpireAbandoned(l) PROVE TypeOK'
    BY <1>9 DEF ExpireAbandoned
  <1>10. ASSUME NEW l \in Leases, ExpireHeld(l) PROVE TypeOK'
    BY <1>10 DEF ExpireHeld
  <1>11. CASE UNCHANGED vars
    BY <1>11 DEF vars
  <1> QED
    BY <1>1, <1>2, <1>3, <1>4, <1>5, <1>6, <1>7, <1>8, <1>9, <1>10, <1>11 DEF Next, Step

\* The variables of the campaign keep their types in every behaviour.
THEOREM TypeCorrect == Spec => []TypeOK
  <1>1. Init => TypeOK
    BY MaxErrorsAssumption DEF Init, TypeOK
  <1> QED
    BY <1>1, TypeStep, PTL DEF Spec
-----------------------------------------------------------------------------
\* Ending any lease keeps HolderOwnsKey: the key goes with its own lease only.
LEMMA EndLeaseKeepsHolder ==
  ASSUME NEW l, TypeOK, HolderOwnsKey, EndLease(l),
         \A n \in Nodes : lease'[n] \in {lease[n], None}
  PROVE  HolderOwnsKey'
  <1> SUFFICES ASSUME NEW n \in Nodes, lease'[n] \in alive'
               PROVE  leader' = [owner |-> n, lease |-> lease'[n]]
    BY DEF HolderOwnsKey
  <1>1. lease'[n] \in alive /\ lease'[n] # l
    BY DEF EndLease
  <1>2. lease'[n] = lease[n]
    BY <1>1, NoneAssumption DEF TypeOK
  <1>3. leader = [owner |-> n, lease |-> lease[n]]
    BY <1>1, <1>2 DEF HolderOwnsKey
  <1> QED
    BY <1>1, <1>2, <1>3 DEF EndLease

\* A step that leaves the key and the leases alone keeps HolderOwnsKey.
LEMMA ForgettingKeepsHolder ==
  ASSUME TypeOK, HolderOwnsKey, UNCHANGED <<leader, alive>>,
         \A n \in Nodes : lease'[n] \in {lease[n], None}
  PROVE  HolderOwnsKey'
  BY NoneAssumption DEF HolderOwnsKey, TypeOK

\* HolderOwnsKey is preserved by every step: a grant brings in a lease nobody
\* refers to, a CAS wins only while no live lease is held.
LEMMA HolderStep == TypeOK /\ HolderOwnsKey /\ [Next]_vars => HolderOwnsKey'
  <1> SUFFICES ASSUME TypeOK, HolderOwnsKey, [Next]_vars PROVE HolderOwnsKey'
    OBVIOUS
  <1>1. ASSUME NEW n \in Nodes, Begin(n) PROVE HolderOwnsKey'
    BY <1>1 DEF Begin, HolderOwnsKey
  <1>2. ASSUME NEW n \in Nodes, Keepalive(n) PROVE HolderOwnsKey'
    BY <1>2, ForgettingKeepsHolder DEF Keepalive, TypeOK
  <1>3. ASSUME NEW n \in Nodes, Check(n) PROVE HolderOwnsKey'
    BY <1>3, ForgettingKeepsHolder DEF Check, TypeOK
  <1>4. ASSUME NEW n \in Nodes, Grant(n) PROVE HolderOwnsKey'
    BY <1>4 DEF Grant, HolderOwnsKey, Unreferenced
  <1>5. ASSUME NEW n \in Nodes, Cas(n) PROVE HolderOwnsKey'
    <2>1. CASE leader = None
      <3>1. \A m \in Nodes : lease[m] \notin alive
        BY <2>1, KeyNotNone DEF HolderOwnsKey, TypeOK
      <3> QED
        BY <1>5, <2>1, <3>1 DEF Cas, LeaderKey, CasSucceeds, HolderOwnsKey, TypeOK
    <2>2. CASE leader # None
      BY <1>5, <2>2 DEF Cas, LeaderKey, CasSucceeds, HolderOwnsKey
    <2> QED
      BY <2>1, <2>2
  <1>6. ASSUME NEW n \in Nodes, Revoke(n) PROVE HolderOwnsKey'
    BY <1>6, EndLeaseKeepsHolder, ForgettingKeepsHolder DEF Revoke
  <1>7. ASSUME NEW n \in Nodes, Resign(n) PROVE HolderOwnsKey'
    BY <1>7, EndLeaseKeepsHolder, ForgettingKeepsHolder DEF Resign, TypeOK
  <1>8. ASSUME NEW n \in Nodes, Crash(n) PROVE HolderOwnsKey'
    BY <1>8, ForgettingKeepsHolder DEF Crash, TypeOK
  <1>9. ASSUME NEW l \in Leases, ExpireAbandoned(l) PROVE HolderOwnsKey'
    BY <1>9, EndLeaseKeepsHolder DEF ExpireAbandoned
  <1>10. ASSUME NEW l \in Leases, ExpireHeld(l) PROVE HolderOwnsKey'
    BY <1>10, EndLeaseKeepsHolder DEF ExpireHeld
  <1>11. CASE UNCHANGED vars
    BY <1>11 DEF vars, HolderOwnsKey
  <1> QED
    BY <1>1, <1>2, <1>3, <1>4, <1>5, <1>6, <1>7, <1>8, <1>9, <1>10, <1>11 DEF Next, Step

\* A replica with a live lease is the one the leader key names, always.
THEOREM HolderCorrect == Spec => []HolderOwnsKey
  <1>1. Init => HolderOwnsKey
    BY DEF Init, HolderOwnsKey
  <1> QED
    BY <1>1, TypeCorrect, HolderStep, PTL DEF Spec

\* Two replicas never hold live leadership leases, whatever calls fail,
\* whoever crashes and whenever leases expire.
THEOREM MutualExclusion == Spec => []AtMostOneHolder
  <1>1. HolderOwnsKey => AtMostOneHolder
    <2> SUFFICES ASSUME HolderOwnsKey, NEW m \in Nodes, NEW n \in Nodes,
                        lease[m] \in alive, lease[n] \in alive
                 PROVE  m = n
      BY DEF AtMostOneHolder
    <2>1. [owner |-> m, lease |-> lease[m]] = [owner |-> n, lease |-> lease[n]]
      BY DEF HolderOwnsKey
    <2>2. [owner |-> m, lease |-> lease[m]].owner = [owner |-> n, lease |-> lease[n]].owner
      BY <2>1
    <2> QED
      BY <2>2
  <1> QED
    BY <1>1, HolderCorrect, PTL
-----------------------------------------------------------------------------
\* Every step of the campaign is a step of the lock or leaves it alone.
LEMMA LockStep == TypeOK /\ [Next]_vars => [Lock!Next]_(IF leader = None THEN None ELSE leader.owner)
  <1> SUFFICES ASSUME TypeOK, [Next]_vars
               PROVE  [Lock!Next]_(IF leader = None THEN None ELSE leader.owner)
    OBVIOUS
  <1> USE DEF Lock!Next, Lock!Acquire, Lock!Release
  <1>1. ASSUME NEW l, EndLease(l) PROVE leader' = leader \/ (Lock!Release /\ leader' = None)
    BY <1>1, NoneAssumption DEF EndLease, TypeOK
  <1>2. ASSUME NEW n \in Nodes, Cas(n)
        PROVE  leader' = leader \/ Lock!Acquire(n)
    <2>1. leader' = leader \/ (leader = None /\ leader' = [owner |-> n, lease |-> tmp[n]] /\ tmp[n] \in Leases)
      BY <1>2 DEF Cas, LeaderKey, CasSucceeds, TypeOK
    <2> QED
      BY <2>1, KeyNotNone
  <1>3. leader' = leader \/ Lock!Release \/ \E n \in Nodes : Lock!Acquire(n)
    BY <1>1, <1>2 DEF Next, Step, Begin, Keepalive, Check, Grant, Revoke, Resign,
                      Crash, ExpireAbandoned, ExpireHeld, vars
  <1> QED
    BY <1>3

\* The leader key implements LeaderLock: it is free between two owners.
THEOREM ImplementsLock == Spec => LockSpec
  <1>1. Init => Lock!Init
    BY DEF Init, Lock!Init
  <1> QED
    BY <1>1, TypeCorrect, LockStep, PTL DEF Spec, LockSpec, Lock!Spec
=============================================================================
