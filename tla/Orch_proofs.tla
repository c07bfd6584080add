---------------------------- MODULE Orch_proofs ----------------------------
(***************************************************************************)
(* Proofs about Orch and the store under it, for any set of sandboxes, any *)
(* ttl, idle and retention values, any quota, any number of faults and     *)
(* restarts:                                                               *)
(*   - no instance is leaked or forgotten except by a restart              *)
(*     (VmsAccounted, either store);                                       *)
(*   - no record outlives its lease (RecordsLeased, either store);         *)
(*   - with etcd the lease of a sandbox is its own (LeaseIsOwn);           *)
(*   - the reaper destroys only what is past its ttl or idle               *)
(*     (ReaperSpares, either store);                                       *)
(*   - the project stays within its quota (QuotaHeld, either store);       *)
(*   - on one node with SQLite, while no retained record can be collected, *)
(*     what lives is recorded and its state key is true (LiveRecorded,     *)
(*     StateMatches).                                                      *)
(* The operators handlers are built from (Kill, Destroyed, Reclaim, ...)   *)
(* get a lemma each; the step lemmas have one case per action.             *)
(***************************************************************************)
EXTENDS Orch, FiniteSetTheorems, TLAPS

-----------------------------------------------------------------------------
\* The store: every key hangs on a lease that exists, and a granted lease id
\* is in use by nobody.  For SQLite the new id is a maximum plus one; that the
\* maximum exists comes from the least number principle, applied to the upper
\* bounds of the ids in use.

\* A non-empty set of naturals has a least element.
LEMMA LeastNat ==
  ASSUME NEW T, T \subseteq Nat, T # {}
  PROVE  \E x \in T : \A y \in T : x <= y
  <1> USE Zenon
  <1> DEFINE R == OpToRel(<, Nat)
  <1>1. \A x, y \in Nat : x < y => <<x, y>> \in R
    BY DEF OpToRel
  <1>2. IsWellFoundedOn(R, Nat)
    BY NatLessThanWellFounded
  <1> HIDE DEF R
  <1>3. PICK x \in T : \A y \in T : ~(<<y, x>> \in R)
    BY <1>2, WFMin
  <1>4. ASSUME NEW y \in T PROVE x <= y
    <2>1. x \in Nat /\ y \in Nat
      OBVIOUS
    <2>2. ~(y < x)
      BY <1>1, <1>3, <2>1
    <2> QED
      BY <2>1, <2>2, SMT
  <1> QED
    BY <1>4

\* A non-empty bounded set of naturals has a greatest element.
LEMMA MaxBounded ==
  ASSUME NEW S, S \subseteq Nat, S # {}, NEW b \in Nat, \A x \in S : x <= b
  PROVE  Max(S) \in S /\ \A x \in S : x <= Max(S)
  <1> USE Zenon
  <1> DEFINE B == {n \in Nat : \A x \in S : x <= n}
  <1>1. PICK m \in B : \A n \in B : m <= n
    BY LeastNat
  <1>2. m \in S
    <2> SUFFICES ASSUME m \notin S PROVE FALSE
      OBVIOUS
    <2>1. m \in Nat /\ \A x \in S : x < m
      BY <1>1, SMT
    <2>2. m # 0
      <3>1. PICK x \in S : TRUE
        OBVIOUS
      <3>2. x \in Nat /\ x < m
        BY <2>1
      <3> QED
        BY <2>1, <3>2, SMT
    <2>3. m - 1 \in B
      BY <2>1, <2>2, SMT
    <2> QED
      BY <1>1, <2>1, <2>3, SMT
  <1>3. \A x \in S : m >= x
    BY <1>1
  <1>4. \E x \in S : \A y \in S : x >= y
    BY <1>2, <1>3
  <1> HIDE DEF B
  <1>5. Max(S) \in S /\ \A y \in S : Max(S) >= y
    BY <1>4 DEF Max
  <1> QED
    BY <1>5

\* A store in which nothing dangles: ids are bounded positive numbers below
\* the server's next one, and every key's lease exists.
StoreOK(s) ==
    /\ DOMAIN s.leases \subseteq Nat \ {0}
    /\ \E b \in Nat : \A l \in DOMAIN s.leases : l <= b
    /\ s.next \in Nat \ {0}
    /\ Etcd => \A l \in DOMAIN s.leases : l < s.next
    /\ \A k \in DOMAIN s.kv : s.kv[k].lease \in DOMAIN s.leases

\* lease_grant hands out an id that no existing lease has.
LEMMA NewLeaseFresh ==
  ASSUME NEW s, StoreOK(s)
  PROVE  /\ NewLease(s) \in Nat \ {0}
         /\ NewLease(s) \notin DOMAIN s.leases
         /\ Etcd => NewLease(s) = s.next
  <1> USE Zenon
  <1>1. CASE Etcd
    BY <1>1, SMT DEF StoreOK, NewLease
  <1>2. CASE ~Etcd
    <2> DEFINE S == DOMAIN s.leases \cup {0}
    <2>1. PICK b \in Nat : \A l \in DOMAIN s.leases : l <= b
      BY DEF StoreOK
    <2>2. S \subseteq Nat /\ S # {} /\ \A x \in S : x <= b
      BY <2>1, SMT DEF StoreOK
    <2>3. Max(S) \in S /\ \A x \in S : x <= Max(S)
      BY <2>2, MaxBounded
    <2>4. Max(S) \in Nat
      BY <2>2, <2>3
    <2> HIDE DEF S
    <2>5. Max(S) + 1 \notin S
      <3>1. ASSUME NEW m \in Nat, \A x \in S : x <= m PROVE m + 1 \notin S
        BY <3>1, SMT
      <3> QED
        BY <2>3, <2>4, <3>1
    <2>6. NewLease(s) = Max(S) + 1
      BY <1>2 DEF NewLease, S
    <2> QED
      BY <1>2, <2>4, <2>5, <2>6, SMT DEF S
  <1> QED
    BY <1>1, <1>2, EtcdAssumption

\* Granting keeps the store sound and adds exactly the new lease.
LEMMA GrantOK ==
  ASSUME NEW s, StoreOK(s), NEW ttl, NEW t
  PROVE  /\ StoreOK(LeaseGrant(s, ttl, t))
         /\ LeaseGrant(s, ttl, t).kv = s.kv
         /\ DOMAIN LeaseGrant(s, ttl, t).leases = DOMAIN s.leases \cup {NewLease(s)}
         /\ Etcd => LeaseGrant(s, ttl, t).next = s.next + 1
  <1> USE Zenon
  <1> DEFINE n == NewLease(s)
             g == LeaseGrant(s, ttl, t)
  <1>1. n \in Nat \ {0} /\ (Etcd => n = s.next)
    BY NewLeaseFresh
  <1>2. g.kv = s.kv /\ DOMAIN g.leases = DOMAIN s.leases \cup {n} /\ g.next = IF Etcd THEN s.next + 1 ELSE s.next
    BY DEF LeaseGrant, Bind
  <1> HIDE DEF n, g
  <1>3. PICK b \in Nat : \A l \in DOMAIN s.leases : l <= b
    BY DEF StoreOK
  <1>4. b + n \in Nat /\ \A l \in DOMAIN g.leases : l <= b + n
    BY <1>1, <1>2, <1>3, SMT DEF StoreOK
  <1>5. DOMAIN g.leases \subseteq Nat \ {0} /\ g.next \in Nat \ {0}
    BY <1>1, <1>2, SMT DEF StoreOK
  <1>6. Etcd => \A l \in DOMAIN g.leases : l < g.next
    BY <1>1, <1>2, SMT DEF StoreOK
  <1>7. \A k \in DOMAIN g.kv : g.kv[k].lease \in DOMAIN g.leases
    BY <1>2 DEF StoreOK
  <1>8. StoreOK(g)
    BY <1>4, <1>5, <1>6, <1>7 DEF StoreOK
  <1> QED
    BY <1>2, <1>8 DEF n, g

\* Revoking or sweeping takes leases and their keys together.
LEMMA ReapOK ==
  ASSUME NEW s, StoreOK(s), NEW L
  PROVE  /\ StoreOK(ReapLeases(s, L))
         /\ DOMAIN ReapLeases(s, L).kv \subseteq DOMAIN s.kv
         /\ \A k \in DOMAIN ReapLeases(s, L).kv : ReapLeases(s, L).kv[k] = s.kv[k]
         /\ DOMAIN ReapLeases(s, L).leases \subseteq DOMAIN s.leases
         /\ ReapLeases(s, L).next = s.next
  <1> USE Zenon
  <1> DEFINE r == ReapLeases(s, L)
  <1>1. /\ DOMAIN r.leases = DOMAIN s.leases \ L
        /\ DOMAIN r.kv = {k \in DOMAIN s.kv : s.kv[k].lease \notin L \cap DOMAIN s.leases}
        /\ \A k \in DOMAIN r.kv : r.kv[k] = s.kv[k]
        /\ r.next = s.next
    BY DEF ReapLeases, Drop, KeysOf
  <1> HIDE DEF r
  <1>2. StoreOK(r)
    BY <1>1 DEF StoreOK
  <1> QED
    BY <1>1, <1>2 DEF r

\* A keepalive changes no domain: it renews a lease that exists.
LEMMA KeepaliveOK ==
  ASSUME NEW s, StoreOK(s), NEW l, l \in DOMAIN s.leases, NEW t
  PROVE  /\ StoreOK(LeaseKeepalive(s, l, t))
         /\ LeaseKeepalive(s, l, t).kv = s.kv
         /\ LeaseKeepalive(s, l, t).next = s.next
  <1> USE Zenon
  <1> DEFINE r == LeaseKeepalive(s, l, t)
  <1>1. r.kv = s.kv /\ DOMAIN r.leases = DOMAIN s.leases /\ r.next = s.next
    BY DEF LeaseKeepalive, Bind
  <1> HIDE DEF r
  <1>2. StoreOK(r)
    BY <1>1 DEF StoreOK
  <1> QED
    BY <1>1, <1>2 DEF r

-----------------------------------------------------------------------------
Accounted(s, L) ==
    /\ DOMAIN s.live \subseteq DOMAIN s.vms
    /\ DOMAIN s.vms \subseteq DOMAIN s.live \cup L

\* destroy takes a sandbox from the ledger and from the backend together.
LEMMA KillAccounted ==
  ASSUME NEW s, NEW L, NEW D, Accounted(s, L)
  PROVE  Accounted(Kill(s, D), L)
  BY Zenon DEF Accounted, Kill, Drop

\* Changing the store changes neither ledger nor backend.
LEMMA StoreAccounted ==
  ASSUME NEW s, NEW L, NEW new, Accounted(s, L)
  PROVE  Accounted(WithStore(s, new), L)
  BY Zenon DEF Accounted, WithStore

\* Destroying a set of sandboxes.
LEMMA DestroyedAccounted ==
  ASSUME NEW s, NEW L, NEW D, Accounted(s, L)
  PROVE  Accounted(Destroyed(s, D), L)
  BY KillAccounted, StoreAccounted, Zenon DEF Destroyed

\* Sweeping idle sandboxes kills them in ledger and backend alike.
LEMMA SweepAccounted ==
  ASSUME NEW s, NEW L, Accounted(s, L)
  PROVE  Accounted(SweepIdle(s), L)
  <1> USE Zenon
  <1> DEFINE gone == {k[1] : k \in SweptKeys(s.st, now)} \cap DOMAIN s.live
  <1>1. Accounted(Kill(s, gone), L)
    BY KillAccounted
  <1> HIDE DEF gone
  <1>2. Accounted(WithStore(Kill(s, gone), LeaseSweep(s.st, now)), L)
    BY <1>1, StoreAccounted
  <1> QED
    BY <1>2 DEF SweepIdle, gone

\* reclaim_orphans and gc_retention only write to the store.
LEMMA RestAccounted ==
  ASSUME NEW s, NEW ok, Accounted(s, lost), ReclaimAndGc(s, ok)
  PROVE  Accounted(Sys', lost)
  <1> USE Zenon
  <1>1. PICK R, r, G : r = Reclaim(s, R) /\ Become(GcRetention(r, G))
    BY DEF ReclaimAndGc
  <1>2. Accounted(r, lost)
    BY <1>1, StoreAccounted DEF Reclaim
  <1>3. Accounted(GcRetention(r, G), lost)
    BY <1>2, StoreAccounted DEF GcRetention
  <1> QED
    BY <1>1, <1>3 DEF Become, Sys, Accounted

\* A round of the reaper, complete or cut short, keeps ledger and backend
\* together.
LEMMA ReaperAccounted == Accounted(Sys, lost) /\ ReaperRound => Accounted(Sys', lost)
  <1> USE Zenon
  <1> SUFFICES ASSUME Accounted(Sys, lost), ReaperRound PROVE Accounted(Sys', lost)
    OBVIOUS
  <1>1. ASSUME NEW ok, ReclaimAndGc(SweepIdle(Destroyed(Sys, TtlExpired(Sys))), ok)
        PROVE  Accounted(Sys', lost)
    <2>1. Accounted(SweepIdle(Destroyed(Sys, TtlExpired(Sys))), lost)
      BY DestroyedAccounted, SweepAccounted
    <2> QED
      BY <1>1, <2>1, RestAccounted
  <1>2. ASSUME NEW ok, ReclaimAndGc(Destroyed(Sys, TtlExpired(Sys)), ok)
        PROVE  Accounted(Sys', lost)
    BY <1>2, DestroyedAccounted, RestAccounted
  <1>3. ASSUME NEW ok, NEW e, NEW D, ReclaimAndGc(TickAborted(Sys, D, e), ok)
        PROVE  Accounted(Sys', lost)
    <2>1. Accounted(TickAborted(Sys, D, e), lost)
      BY DestroyedAccounted, KillAccounted DEF TickAborted
    <2> QED
      BY <1>3, <2>1, RestAccounted
  <1> QED
    BY <1>1, <1>2, <1>3 DEF ReaperRound

\* No handler separates the ledger from the backend.
LEMMA AccountedStep == VmsAccounted /\ [Next]_vars => VmsAccounted'
  <1> USE Zenon
  <1> SUFFICES ASSUME VmsAccounted, [Next]_vars PROVE VmsAccounted'
    OBVIOUS
  <1>1. ASSUME NEW id, NEW ttl, NEW idle, Register(id, ttl, idle) PROVE VmsAccounted'
    BY <1>1 DEF Register, VmsAccounted, Bind
  <1>2. ASSUME NEW id \in Ids, Create(id) PROVE VmsAccounted'
    BY <1>1, <1>2 DEF Create
  <1>3. ASSUME NEW p \in Ids, NEW id \in Ids, Fork(p, id) PROVE VmsAccounted'
    BY <1>1, <1>3 DEF Fork
  <1>4. ASSUME NEW id \in Ids, Pause(id) PROVE VmsAccounted'
    BY <1>4 DEF Pause, VmsAccounted, rest
  <1>5. ASSUME NEW id \in Ids, Resume(id) PROVE VmsAccounted'
    BY <1>5 DEF Resume, VmsAccounted, rest
  <1>6. ASSUME NEW id \in Ids, Keepalive(id) PROVE VmsAccounted'
    BY <1>6 DEF Keepalive, VmsAccounted, rest
  <1>7. ASSUME NEW id \in Ids, Destroy(id) PROVE VmsAccounted'
    <2>1. Accounted(Sys, lost)
      BY DEF VmsAccounted, Accounted, Sys
    <2>2. Accounted(Destroyed(Sys, {id}), lost) /\ Accounted(Kill(Sys, {id}), lost)
      BY <2>1, DestroyedAccounted, KillAccounted
    <2> QED
      BY <1>7, <2>2 DEF Destroy, Become, Accounted, VmsAccounted, rest
  <1>8. CASE ReaperRound
    <2>1. Accounted(Sys, lost)
      BY DEF VmsAccounted, Accounted, Sys
    <2>2. Accounted(Sys', lost)
      BY <1>8, <2>1, ReaperAccounted
    <2> QED
      BY <1>8, <2>2 DEF ReaperRound, rest, VmsAccounted, Accounted, Sys
  <1>9. CASE Restart
    BY <1>9 DEF Restart, VmsAccounted, EmptyMap
  <1>10. CASE AdvanceTime \/ Heartbeat \/ \E g \in beats : HeartbeatLost(g)
    BY <1>10 DEF AdvanceTime, Heartbeat, HeartbeatLost, VmsAccounted
  <1>11. CASE \E l \in DOMAIN st.leases : ServerExpires(l)
    BY <1>11 DEF ServerExpires, VmsAccounted, rest
  <1>12. CASE UNCHANGED vars
    BY <1>12 DEF vars, VmsAccounted
  <1> QED
    BY <1>2, <1>3, <1>4, <1>5, <1>6, <1>7, <1>8, <1>9, <1>10, <1>11, <1>12 DEF Next

\* In every behaviour each sandbox of the ledger has an instance, and each
\* instance is in the ledger or was running when the daemon died.
THEOREM NoLeakedVm == Spec => []VmsAccounted
  <1>1. Init => VmsAccounted
    BY Zenon DEF Init, VmsAccounted, EmptyMap
  <1> QED
    BY <1>1, AccountedStep, PTL DEF Spec
-----------------------------------------------------------------------------
(***************************************************************************)
(* Leases.  Good is inductive: the store dangles nowhere, the ledger holds *)
(* real lease ids, and with etcd they are ids the server has handed out    *)
(* already, each to one sandbox, carrying keys of that sandbox only.       *)
(***************************************************************************)
OwnOK(s) ==
    /\ \A i \in DOMAIN s.live : s.live[i].lease < s.st.next
    /\ \A i, j \in DOMAIN s.live : s.live[j].lease = s.live[i].lease => j = i
    /\ \A i \in DOMAIN s.live, k \in DOMAIN s.st.kv : s.st.kv[k].lease = s.live[i].lease => k[1] = i

Good(s) ==
    /\ StoreOK(s.st)
    /\ \A i \in DOMAIN s.live : s.live[i].lease \in Nat \ {0}
    /\ Etcd => OwnOK(s)

\* Puts under one lease: keys of one sandbox, on a lease that exists.
LEMMA PutKeysOK ==
  ASSUME NEW s, StoreOK(s), NEW id, NEW F, NEW l \in Nat \ {0}, NEW val
  PROVE  LET r == PutKeys(s, id, F, l, val)
         IN  /\ StoreOK(r)
             /\ r.leases = s.leases /\ r.next = s.next
             /\ \A k \in DOMAIN r.kv : \/ k[1] = id /\ r.kv[k].lease = l
                                       \/ k \in DOMAIN s.kv /\ r.kv[k] = s.kv[k]
  <1> USE Zenon
  <1> DEFINE r == PutKeys(s, id, F, l, val)
  <1>1. CASE l \notin DOMAIN s.leases
    <2>1. r = s
      BY <1>1 DEF PutKeys, PutOk, NoLease
    <2> QED
      BY <2>1
  <1>2. CASE l \in DOMAIN s.leases
    <2>1. r = [kv     |-> [k \in DOMAIN s.kv \cup ({id} \X F) |->
                             IF k \in {id} \X F THEN [val |-> val[k[2]], lease |-> l] ELSE s.kv[k]],
               leases |-> s.leases,
               next   |-> s.next]
      BY <1>2 DEF PutKeys, PutOk
    <2>2. r.leases = s.leases /\ r.next = s.next
      BY <2>1, SMT
    <2>3. DOMAIN r.kv = DOMAIN s.kv \cup ({id} \X F)
      BY <2>1, SMT
    <2>4. ASSUME NEW k \in DOMAIN r.kv
          PROVE  \/ k[1] = id /\ r.kv[k].lease = l
                 \/ k \in DOMAIN s.kv /\ r.kv[k] = s.kv[k]
      <3>1. CASE k \in {id} \X F
        <4>1. r.kv[k] = [val |-> val[k[2]], lease |-> l]
          BY <2>1, <3>1, SMT
        <4>2. k[1] = id
          BY <3>1
        <4> QED
          BY <4>1, <4>2, SMT
      <3>2. CASE k \notin {id} \X F
        BY <2>1, <2>3, <3>2, SMT
      <3> QED
        BY <3>1, <3>2
    <2> HIDE DEF r
    <2>5. StoreOK(r)
      BY <1>2, <2>2, <2>4 DEF StoreOK
    <2> QED
      BY <2>2, <2>4, <2>5 DEF r
  <1> QED
    BY <1>1, <1>2

\* Taking sandboxes out of ledger and backend keeps Good.
LEMMA KillGood ==
  ASSUME NEW s, Good(s), NEW D
  PROVE  Good(Kill(s, D)) /\ Kill(s, D).st = s.st
  <1>1. /\ Kill(s, D).st = s.st
        /\ DOMAIN Kill(s, D).live = DOMAIN s.live \ D
        /\ \A i \in DOMAIN s.live \ D : Kill(s, D).live[i] = s.live[i]
    BY Zenon DEF Kill, Drop
  <1> QED
    BY <1>1 DEF Good, OwnOK

\* Reaping any leases keeps Good.
LEMMA ReapGood ==
  ASSUME NEW s, Good(s), NEW L
  PROVE  Good(WithStore(s, ReapLeases(s.st, L)))
  <1> DEFINE r == ReapLeases(s.st, L)
             t == WithStore(s, r)
  <1>1. /\ StoreOK(r) /\ r.next = s.st.next
        /\ DOMAIN r.kv \subseteq DOMAIN s.st.kv
        /\ \A k \in DOMAIN r.kv : r.kv[k] = s.st.kv[k]
    BY ReapOK DEF Good
  <1> HIDE DEF r
  <1>2. t.st = r /\ t.live = s.live
    BY Zenon DEF WithStore
  <1> HIDE DEF t
  <1>3. Etcd => OwnOK(t)
    BY <1>1, <1>2 DEF Good, OwnOK
  <1>4. Good(t)
    BY <1>1, <1>2, <1>3, Zenon DEF Good
  <1> QED
    BY <1>4, Zenon DEF t, r

\* Destroying a set of sandboxes is a kill and a reap.
LEMMA DestroyedGood ==
  ASSUME NEW s, Good(s), NEW D
  PROVE  Good(Destroyed(s, D))
  <1> USE Zenon
  <1>1. Good(Kill(s, D)) /\ Kill(s, D).st = s.st
    BY KillGood
  <1>2. Good(WithStore(Kill(s, D), ReapLeases(Kill(s, D).st, {s.live[i].lease : i \in D})))
    BY <1>1, ReapGood
  <1> QED
    BY <1>1, <1>2 DEF Destroyed

\* The idle sweep is a kill and, on SQLite, a reap.
LEMMA SweepGood ==
  ASSUME NEW s, Good(s)
  PROVE  Good(SweepIdle(s))
  <1> USE Zenon
  <1> DEFINE gone == {k[1] : k \in SweptKeys(s.st, now)} \cap DOMAIN s.live
             t == Kill(s, gone)
  <1> HIDE DEF gone
  <1>1. Good(t) /\ t.st = s.st
    BY KillGood
  <1>2. Good(WithStore(t, t.st))
    BY <1>1, SMT DEF Good, OwnOK, WithStore
  <1>3. Good(WithStore(t, ReapLeases(t.st, Expired(s.st, now))))
    BY <1>1, ReapGood
  <1> HIDE DEF t
  <1>4. Good(WithStore(t, LeaseSweep(s.st, now)))
    BY <1>1, <1>2, <1>3 DEF LeaseSweep
  <1> QED
    BY <1>4 DEF SweepIdle, t, gone

\* Good looks at the store and the ledger only.
LEMMA SameGood ==
  ASSUME NEW s, Good(s), st' = s.st, live' = s.live
  PROVE  Good(Sys')
  <1>1. Sys'.st = s.st /\ Sys'.live = s.live
    BY Zenon DEF Sys
  <1>2. Etcd => OwnOK(Sys')
    BY <1>1 DEF Good, OwnOK
  <1> QED
    BY <1>1, <1>2, Zenon DEF Good

\* reclaim_orphans and gc_retention reap leases.
LEMMA RestGood ==
  ASSUME NEW s, NEW ok, Good(s), ReclaimAndGc(s, ok)
  PROVE  Good(Sys')
  <1> USE Zenon
  <1>1. PICK R, r, G : r = Reclaim(s, R) /\ Become(GcRetention(r, G))
    BY DEF ReclaimAndGc
  <1>2. Good(r)
    BY <1>1, ReapGood DEF Reclaim
  <1>3. Good(GcRetention(r, G))
    BY <1>2, ReapGood DEF GcRetention
  <1> QED
    BY <1>1, <1>3, SameGood DEF Become

\* A round of the reaper keeps Good however far tick gets.
LEMMA ReaperGood == Good(Sys) /\ ReaperRound => Good(Sys')
  <1> USE Zenon
  <1> SUFFICES ASSUME Good(Sys), ReaperRound PROVE Good(Sys')
    OBVIOUS
  <1>1. ASSUME NEW ok, ReclaimAndGc(SweepIdle(Destroyed(Sys, TtlExpired(Sys))), ok)
        PROVE  Good(Sys')
    <2>1. Good(SweepIdle(Destroyed(Sys, TtlExpired(Sys))))
      BY DestroyedGood, SweepGood
    <2> QED
      BY <1>1, <2>1, RestGood
  <1>2. ASSUME NEW ok, ReclaimAndGc(Destroyed(Sys, TtlExpired(Sys)), ok)
        PROVE  Good(Sys')
    BY <1>2, DestroyedGood, RestGood
  <1>3. ASSUME NEW ok, NEW e, NEW D, ReclaimAndGc(TickAborted(Sys, D, e), ok)
        PROVE  Good(Sys')
    <2>1. Good(TickAborted(Sys, D, e))
      BY DestroyedGood, KillGood DEF TickAborted
    <2> QED
      BY <1>3, <2>1, RestGood
  <1> QED
    BY <1>1, <1>2, <1>3 DEF ReaperRound

\* A put under the sandbox's own lease (pause, resume) keeps Good.
LEMMA PutGood ==
  ASSUME Good(Sys), NEW id \in DOMAIN live, NEW F, NEW val,
         st' = PutKeys(st, id, F, live[id].lease, val), live' = live
  PROVE  Good(Sys')
  <1> DEFINE l == live[id].lease
  <1>1. StoreOK(st) /\ l \in Nat \ {0} /\ (Etcd => OwnOK(Sys))
    BY Zenon DEF Good, Sys
  <1> HIDE DEF l
  <1>2. /\ StoreOK(st') /\ st'.next = st.next
        /\ \A k \in DOMAIN st'.kv : \/ k[1] = id /\ st'.kv[k].lease = l
                                    \/ k \in DOMAIN st.kv /\ st'.kv[k] = st.kv[k]
    BY <1>1, PutKeysOK DEF l
  <1>3. Etcd => OwnOK(Sys')
    BY <1>1, <1>2 DEF OwnOK, Sys, l
  <1> QED
    BY <1>2, <1>3, Zenon DEF Good, Sys

\* register hands a new lease to one sandbox; a roll-back revokes it.
LEMMA RegisterGood ==
  ASSUME Good(Sys), NEW id, NEW ttl, NEW idle, Register(id, ttl, idle)
  PROVE  Good(Sys')
  <1> USE Zenon
  <1> DEFINE l == NewLease(st)
             g == LeaseGrant(st, idle, now)
  <1>1. StoreOK(st) /\ \A i \in DOMAIN live : live[i].lease \in Nat \ {0}
    BY DEF Good, Sys
  <1>2. /\ l \in Nat \ {0} /\ l \notin DOMAIN st.leases /\ (Etcd => l = st.next)
        /\ StoreOK(g) /\ g.kv = st.kv /\ (Etcd => g.next = st.next + 1)
    BY <1>1, NewLeaseFresh, GrantOK, SMT
  <1> HIDE DEF l, g
  <1>3. ASSUME NEW F, NEW w, w = PutKeys(g, id, F, l, NewRecord)
        PROVE  /\ StoreOK(w) /\ w.next = g.next
               /\ \A k \in DOMAIN w.kv : \/ k[1] = id /\ w.kv[k].lease = l
                                         \/ k \in DOMAIN st.kv /\ w.kv[k] = st.kv[k]
    BY <1>2, <1>3, PutKeysOK, SMT
  <1>4. ASSUME NEW F, st' = PutKeys(g, id, F, l, NewRecord),
               live' = Bind(live, id, [lease |-> l, ttl |-> now + ttl])
        PROVE  Good(Sys')
    <2>1. /\ StoreOK(st') /\ st'.next = g.next
          /\ \A k \in DOMAIN st'.kv : \/ k[1] = id /\ st'.kv[k].lease = l
                                      \/ k \in DOMAIN st.kv /\ st'.kv[k] = st.kv[k]
      BY <1>3, <1>4, SMT
    <2>2. /\ DOMAIN live' = DOMAIN live \cup {id}
          /\ live'[id].lease = l
          /\ \A i \in DOMAIN live' : i # id => i \in DOMAIN live /\ live'[i] = live[i]
      BY <1>4 DEF Bind
    <2>3. \A i \in DOMAIN live' : live'[i].lease \in Nat \ {0}
      BY <1>1, <1>2, <2>2
    <2>4. ASSUME Etcd PROVE OwnOK(Sys')
      <3>1. OwnOK(Sys)
        BY <2>4 DEF Good
      <3>2. st.next \in Nat /\ l = st.next /\ st'.next = st.next + 1
        BY <1>1, <1>2, <2>1, <2>4 DEF StoreOK
      <3>3. \A i \in DOMAIN live : live[i].lease \in Nat /\ live[i].lease < st.next
        BY <1>1, <3>1 DEF OwnOK, Sys
      <3>4. \A k \in DOMAIN st.kv : st.kv[k].lease # l
        BY <1>1, <1>2 DEF StoreOK
      <3>5. \A i \in DOMAIN live' : live'[i].lease < st'.next
        BY <2>2, <3>2, <3>3, SMT
      <3>6. \A i \in DOMAIN live : live[i].lease # l
        BY <3>2, <3>3, SMT
      <3>7. \A i, j \in DOMAIN live' : live'[j].lease = live'[i].lease => j = i
        BY <2>2, <3>1, <3>6 DEF OwnOK, Sys
      <3>8. \A i \in DOMAIN live', k \in DOMAIN st'.kv : st'.kv[k].lease = live'[i].lease => k[1] = i
        BY <2>1, <2>2, <3>1, <3>4, <3>6, SMT DEF OwnOK, Sys
      <3> QED
        BY <3>5, <3>7, <3>8 DEF OwnOK, Sys
    <2> QED
      BY <2>1, <2>3, <2>4 DEF Good, Sys
  <1>5. ASSUME NEW F, NEW w, w = PutKeys(g, id, F, l, NewRecord), live' = live,
               st' = w \/ st' = LeaseRevoke(w, l)
        PROVE  Good(Sys')
    <2>1. /\ StoreOK(w) /\ w.next = g.next
          /\ \A k \in DOMAIN w.kv : \/ k[1] = id /\ w.kv[k].lease = l
                                    \/ k \in DOMAIN st.kv /\ w.kv[k] = st.kv[k]
      BY <1>3, <1>5, SMT
    <2>2. /\ StoreOK(st') /\ st'.next = w.next
          /\ \A k \in DOMAIN st'.kv : k \in DOMAIN w.kv /\ st'.kv[k] = w.kv[k]
      BY <1>5, <2>1, ReapOK, SMT DEF LeaseRevoke
    <2>3. ASSUME Etcd PROVE OwnOK(Sys')
      <3>1. OwnOK(Sys)
        BY <2>3 DEF Good
      <3>2. st.next \in Nat /\ l = st.next /\ st'.next = st.next + 1
        BY <1>1, <1>2, <2>1, <2>2, <2>3 DEF StoreOK
      <3>3. \A i \in DOMAIN live : live[i].lease \in Nat /\ live[i].lease < st.next
        BY <1>1, <3>1 DEF OwnOK, Sys
      <3>4. \A i \in DOMAIN live : live[i].lease # l /\ live[i].lease < st'.next
        BY <3>2, <3>3, SMT
      <3> QED
        BY <1>5, <2>1, <2>2, <3>1, <3>4, SMT DEF OwnOK, Sys
    <2> QED
      BY <1>1, <1>5, <2>2, <2>3 DEF Good, Sys
  <1> QED
    BY <1>4, <1>5 DEF Register, l, g

\* Every handler keeps Good.
LEMMA GoodStep == Good(Sys) /\ [Next]_vars => Good(Sys)'
  <1> USE Zenon
  <1> SUFFICES ASSUME Good(Sys), [Next]_vars PROVE Good(Sys')
    OBVIOUS
  <1>1. ASSUME NEW id \in Ids, Create(id) PROVE Good(Sys')
    BY <1>1, RegisterGood DEF Create
  <1>2. ASSUME NEW p \in Ids, NEW id \in Ids, Fork(p, id) PROVE Good(Sys')
    BY <1>2, RegisterGood DEF Fork
  <1>3. ASSUME st' = st, live' = live PROVE Good(Sys')
    BY <1>3, SameGood DEF Sys
  <1>4. ASSUME NEW id \in Ids, Pause(id) PROVE Good(Sys')
    BY <1>3, <1>4, PutGood DEF Pause, rest
  <1>5. ASSUME NEW id \in Ids, Resume(id) PROVE Good(Sys')
    BY <1>3, <1>5, PutGood DEF Resume, rest
  <1>6. ASSUME NEW id \in Ids, Keepalive(id) PROVE Good(Sys')
    <2>1. StoreOK(st') /\ st'.kv = st.kv /\ st'.next = st.next /\ live' = live
      BY <1>6, KeepaliveOK DEF Keepalive, Good, Sys, rest
    <2> QED
      BY <2>1, SMT DEF Good, OwnOK, Sys
  <1>7. ASSUME NEW id \in Ids, Destroy(id) PROVE Good(Sys')
    <2>1. Good(Destroyed(Sys, {id})) /\ Good(Kill(Sys, {id}))
      BY DestroyedGood, KillGood
    <2> QED
      BY <1>7, <2>1, SameGood DEF Destroy, Become
  <1>8. CASE ReaperRound
    BY <1>8, ReaperGood
  <1>9. CASE Restart
    BY <1>9 DEF Restart, Good, OwnOK, Sys, EmptyMap
  <1>10. CASE \E l \in DOMAIN st.leases : ServerExpires(l)
    <2>1. PICK l : st' = ReapLeases(Sys.st, {l}) /\ live' = live
      BY <1>10 DEF ServerExpires, rest, Sys
    <2>2. Good(WithStore(Sys, ReapLeases(Sys.st, {l})))
      BY ReapGood
    <2> QED
      BY <2>1, <2>2, SameGood DEF WithStore, Sys
  <1>11. CASE AdvanceTime \/ Heartbeat \/ \E g \in beats : HeartbeatLost(g)
    BY <1>3, <1>11 DEF AdvanceTime, Heartbeat, HeartbeatLost
  <1>12. CASE UNCHANGED vars
    BY <1>3, <1>12 DEF vars
  <1> QED
    BY <1>1, <1>2, <1>4, <1>5, <1>6, <1>7, <1>8, <1>9, <1>10, <1>11, <1>12 DEF Next

\* Good holds at the start and stays.
LEMMA AlwaysGood == Spec => []Good(Sys)
  <1>1. Init => Good(Sys)
    BY DEF Init, Good, OwnOK, Sys, StoreOK, EmptyStore, EmptyMap
  <1> QED
    BY <1>1, GoodStep, PTL DEF Spec

\* With either store, no record of a sandbox outlives its lease: whatever a
\* failed register or destroy leaves in the store can still expire.
THEOREM NoImmortalRecord == Spec => []RecordsLeased
  <1>1. Good(Sys) => RecordsLeased
    BY Zenon DEF Good, StoreOK, RecordsLeased, Sys
  <1> QED
    BY <1>1, AlwaysGood, PTL

\* With etcd the lease of a live sandbox is shared with no other sandbox and
\* carries no other sandbox's keys.
THEOREM EtcdLeaseIsOwn == Etcd => (Spec => []LeaseIsOwn)
  <1> USE Zenon
  <1> SUFFICES ASSUME Etcd PROVE Spec => []LeaseIsOwn
    OBVIOUS
  <1>1. Good(Sys) => LeaseIsOwn
    BY DEF Good, OwnOK, LeaseIsOwn, Sys
  <1> QED
    BY <1>1, AlwaysGood, PTL
-----------------------------------------------------------------------------
(***************************************************************************)
(* The reaper.  Everything a round does takes sandboxes from the ledger,   *)
(* instances from the backend, and keys and leases from the store: Less.   *)
(* KeysOK is inductive with either store: every key belongs to an id given *)
(* out before, and the keys of a live sandbox hang on its lease.           *)
(***************************************************************************)
Less(s, t) ==
    /\ DOMAIN t.live \subseteq DOMAIN s.live
    /\ \A i \in DOMAIN t.live : t.live[i] = s.live[i]
    /\ \A i \in DOMAIN t.live \cap DOMAIN s.vms : i \in DOMAIN t.vms /\ t.vms[i] = s.vms[i]
    /\ DOMAIN t.st.kv \subseteq DOMAIN s.st.kv
    /\ \A k \in DOMAIN t.st.kv : t.st.kv[k] = s.st.kv[k]
    /\ DOMAIN t.st.leases \subseteq DOMAIN s.st.leases
    /\ \A l \in DOMAIN t.st.leases : t.st.leases[l] = s.st.leases[l]

KeysOK(s, U) ==
    /\ DOMAIN s.live \subseteq U
    /\ \A k \in DOMAIN s.st.kv : /\ k[1] \in U
                                 /\ k[1] \in DOMAIN s.live => s.st.kv[k].lease = s.live[k[1]].lease

\* What a kill leaves.
LEMMA KillExact ==
  ASSUME NEW s, NEW D
  PROVE  /\ Kill(s, D).st = s.st
         /\ DOMAIN Kill(s, D).live = DOMAIN s.live \ D
         /\ \A i \in DOMAIN s.live \ D : Kill(s, D).live[i] = s.live[i]
         /\ DOMAIN Kill(s, D).vms = DOMAIN s.vms \ D
         /\ \A i \in DOMAIN s.vms \ D : Kill(s, D).vms[i] = s.vms[i]
  BY Zenon DEF Kill, Drop

\* What a revocation or sweep of the leases L leaves.
LEMMA ReapExact ==
  ASSUME NEW s, NEW L
  PROVE  LET r == ReapLeases(s, L)
         IN  /\ DOMAIN r.leases = DOMAIN s.leases \ L
             /\ \A l \in DOMAIN r.leases : r.leases[l] = s.leases[l]
             /\ DOMAIN r.kv = {k \in DOMAIN s.kv : s.kv[k].lease \notin L \cap DOMAIN s.leases}
             /\ \A k \in DOMAIN r.kv : r.kv[k] = s.kv[k]
  BY Zenon DEF ReapLeases, Drop, KeysOf

\* The ledger after a kill.
LEMMA Killed ==
  ASSUME NEW s, NEW D
  PROVE  /\ DOMAIN Kill(s, D).live = DOMAIN s.live \ D
         /\ \A i \in DOMAIN Kill(s, D).live : Kill(s, D).live[i] = s.live[i]
  BY Zenon DEF Kill, Drop

\* A revocation only takes keys.
LEMMA Revoked ==
  ASSUME NEW s, NEW l
  PROVE  /\ DOMAIN LeaseRevoke(s, l).kv \subseteq DOMAIN s.kv
         /\ \A k \in DOMAIN LeaseRevoke(s, l).kv : LeaseRevoke(s, l).kv[k] = s.kv[k]
  BY ReapExact DEF LeaseRevoke

\* One part of a round after another.
LEMMA LessTrans ==
  ASSUME NEW r, NEW s, NEW t, Less(r, s), Less(s, t)
  PROVE  Less(r, t)
  BY DEF Less

\* Killing takes from the ledger.
LEMMA KillLess ==
  ASSUME NEW s, NEW D
  PROVE  Less(s, Kill(s, D))
  BY KillExact DEF Less

\* Reaping takes from the store.
LEMMA ReapLess ==
  ASSUME NEW s, NEW t, NEW L, t = WithStore(s, ReapLeases(s.st, L))
  PROVE  Less(s, t) /\ t.live = s.live /\ t.vms = s.vms /\ t.st = ReapLeases(s.st, L)
  <1>1. t.st = ReapLeases(s.st, L) /\ t.live = s.live /\ t.vms = s.vms
    BY Zenon DEF WithStore
  <1> QED
    BY <1>1, ReapExact DEF Less

\* The leases that destroying D revokes.
LeasesOf(s, D) == {s.live[i].lease : i \in D}

\* destroy is a kill and a reap.
LEMMA DestroyedLess ==
  ASSUME NEW s, NEW D
  PROVE  /\ Less(s, Destroyed(s, D))
         /\ Destroyed(s, D).live = Kill(s, D).live /\ Destroyed(s, D).vms = Kill(s, D).vms
         /\ Destroyed(s, D).st = ReapLeases(s.st, LeasesOf(s, D))
  <1> USE Zenon
  <1>1. PICK k, L : k = Kill(s, D) /\ L = LeasesOf(s, D)
    OBVIOUS
  <1>2. k.st = s.st /\ Less(s, k)
    BY <1>1, KillExact, KillLess
  <1>3. PICK t : t = WithStore(k, ReapLeases(k.st, L))
    OBVIOUS
  <1>4. Less(k, t) /\ t.live = k.live /\ t.vms = k.vms /\ t.st = ReapLeases(k.st, L)
    BY <1>3, ReapLess
  <1>5. Less(s, t)
    BY <1>2, <1>4, LessTrans
  <1>6. t = Destroyed(s, D)
    BY <1>1, <1>2, <1>3 DEF Destroyed, LeasesOf
  <1> QED
    BY <1>1, <1>2, <1>4, <1>5, <1>6

\* The sandboxes that the sweep of a round kills.
Idle(s) == {k[1] : k \in SweptKeys(s.st, now)} \cap DOMAIN s.live

\* The idle sweep is a kill and, on SQLite, a reap.
LEMMA SweepLess ==
  ASSUME NEW s
  PROVE  /\ Less(s, SweepIdle(s)) /\ SweepIdle(s).st = LeaseSweep(s.st, now)
         /\ SweepIdle(s).live = Kill(s, Idle(s)).live /\ SweepIdle(s).vms = Kill(s, Idle(s)).vms
  <1> USE Zenon
  <1>1. PICK k : k = Kill(s, Idle(s))
    OBVIOUS
  <1>2. k.st = s.st /\ Less(s, k)
    BY <1>1, KillExact, KillLess
  <1>3. PICK t : t = WithStore(k, LeaseSweep(s.st, now))
    OBVIOUS
  <1>4. t.live = k.live /\ t.vms = k.vms /\ t.st = LeaseSweep(s.st, now)
    BY <1>3 DEF WithStore
  <1>5. t = SweepIdle(s)
    BY <1>1, <1>3 DEF SweepIdle, Idle
  <1>6. Less(s, t)
    <2>1. CASE Etcd
      BY <1>2, <1>4, <2>1 DEF LeaseSweep, Less
    <2>2. CASE ~Etcd
      <3>1. t = WithStore(k, ReapLeases(k.st, Expired(s.st, now)))
        BY <1>2, <1>3, <2>2 DEF LeaseSweep
      <3> QED  BY <1>2, <3>1, ReapLess, LessTrans, SMT
    <2> QED  BY <2>1, <2>2
  <1> QED
    BY <1>1, <1>4, <1>5, <1>6

\* reclaim_orphans and gc_expired reap leases.
LEMMA RestLess ==
  ASSUME NEW s, NEW ok, ReclaimAndGc(s, ok)
  PROVE  Less(s, Sys') /\ live' = s.live
  <1> USE Zenon
  <1>1. PICK R, r, G : r = Reclaim(s, R) /\ Become(GcRetention(r, G))
    BY DEF ReclaimAndGc
  <1>2. Less(s, r) /\ r.live = s.live
    BY <1>1, ReapLess DEF Reclaim
  <1>3. PICK t : t = GcRetention(r, G)
    OBVIOUS
  <1>4. Less(r, t) /\ t.live = r.live
    <2>1. PICK L : L = {r.st.kv[<<i, "retain">>].lease : i \in G}
      OBVIOUS
    <2>2. t = WithStore(r, ReapLeases(r.st, L))
      BY <1>3, <2>1 DEF GcRetention
    <2> QED  BY <2>2, ReapLess
  <1>5. Sys' = [st |-> t.st, live |-> t.live, vms |-> t.vms] /\ live' = t.live
    BY <1>1, <1>3 DEF Become, Sys
  <1>6. Less(t, Sys')
    BY <1>5 DEF Less
  <1> QED
    BY <1>2, <1>4, <1>5, <1>6, LessTrans

\* A round of the reaper only takes away.  What it takes from the ledger is
\* past its TTL or has a key that was swept.
LEMMA ReaperLess ==
  ASSUME ReaperRound
  PROVE  /\ Less(Sys, Sys')
         /\ \A i \in DOMAIN live \ DOMAIN live' :
               \/ now >= live[i].ttl
               \/ \E k \in DOMAIN st.kv : k[1] = i /\ st.kv[k].lease \in Expired(st, now)
  <1> USE Zenon
  <1>1. Sys.live = live /\ Sys.st = st /\ Sys'.live = live' /\ Sys'.st = st'
    BY DEF Sys
  <1>2. \A i \in TtlExpired(Sys) : now >= live[i].ttl
    BY <1>1 DEF TtlExpired
  <1>3. ASSUME NEW ok, NEW d, d = Destroyed(Sys, TtlExpired(Sys)), ReclaimAndGc(d, ok)
        PROVE  Less(Sys, Sys') /\ \A i \in DOMAIN live \ DOMAIN live' : now >= live[i].ttl
    <2>1. Less(Sys, d) /\ d.live = Kill(Sys, TtlExpired(Sys)).live /\ Less(d, Sys') /\ live' = d.live
      BY <1>3, DestroyedLess, RestLess
    <2>2. DOMAIN live' = DOMAIN live \ TtlExpired(Sys)
      BY <1>1, <2>1, KillExact, SMT
    <2> QED  BY <1>2, <2>1, <2>2, LessTrans
  <1>4. ASSUME NEW ok, NEW d, d = Destroyed(Sys, TtlExpired(Sys)), ReclaimAndGc(SweepIdle(d), ok)
        PROVE  /\ Less(Sys, Sys')
               /\ \A i \in DOMAIN live \ DOMAIN live' :
                     \/ now >= live[i].ttl
                     \/ \E k \in DOMAIN st.kv : k[1] = i /\ st.kv[k].lease \in Expired(st, now)
    <2>1. PICK s : s = SweepIdle(d)
      OBVIOUS
    <2>2. Less(Sys, d) /\ d.live = Kill(Sys, TtlExpired(Sys)).live
      BY <1>4, DestroyedLess
    <2>3. Less(d, s) /\ s.live = Kill(d, Idle(d)).live /\ Less(s, Sys') /\ live' = s.live
      BY <1>4, <2>1, SweepLess, RestLess
    <2>4. DOMAIN live' = (DOMAIN live \ TtlExpired(Sys)) \ Idle(d)
      BY <1>1, <2>2, <2>3, KillExact, SMT
    <2>5. ASSUME NEW i \in Idle(d)
          PROVE  \E k \in DOMAIN st.kv : k[1] = i /\ st.kv[k].lease \in Expired(st, now)
      <3>1. PICK k \in SweptKeys(d.st, now) : i = k[1]
        BY <2>5 DEF Idle
      <3>2. k \in DOMAIN d.st.kv /\ d.st.kv[k].lease \in Expired(d.st, now)
        BY <3>1 DEF SweptKeys, KeysOf
      <3>3. k \in DOMAIN st.kv /\ st.kv[k] = d.st.kv[k]
        BY <1>1, <2>2, <3>2 DEF Less
      <3>4. Expired(d.st, now) \subseteq Expired(st, now)
        BY <1>1, <2>2 DEF Less, Expired
      <3> QED  BY <3>1, <3>2, <3>3, <3>4
    <2>6. Less(Sys, Sys')
      BY <2>2, <2>3, LessTrans
    <2> QED  BY <1>2, <2>4, <2>5, <2>6
  <1>5. ASSUME NEW ok, NEW e \in TtlExpired(Sys), NEW D \in SUBSET TtlExpired(Sys),
               ReclaimAndGc(TickAborted(Sys, D, e), ok)
        PROVE  Less(Sys, Sys') /\ \A i \in DOMAIN live \ DOMAIN live' : now >= live[i].ttl
    <2>1. PICK d, s : d = Destroyed(Sys, D) /\ s = Kill(d, {e})
      OBVIOUS
    <2>2. Less(Sys, d) /\ d.live = Kill(Sys, D).live /\ Less(d, s)
      BY <2>1, DestroyedLess, KillLess
    <2>3. Less(s, Sys') /\ live' = s.live
      BY <1>5, <2>1, RestLess DEF TickAborted
    <2>4. DOMAIN live' = (DOMAIN live \ D) \ {e}
      BY <1>1, <2>1, <2>2, <2>3, KillExact, SMT
    <2>5. Less(Sys, Sys')
      BY <2>2, <2>3, LessTrans
    <2> QED  BY <1>2, <2>4, <2>5
  <1> QED
    BY <1>3, <1>4, <1>5 DEF ReaperRound

\* Taking away keeps the keys where they belong.
LEMMA LessKeys ==
  ASSUME NEW s, NEW t, NEW U, Less(s, t), KeysOK(s, U)
  PROVE  KeysOK(t, U)
  BY Zenon DEF Less, KeysOK

\* The keys that puts under one lease leave: of sandbox id on lease l, and
\* the ones there were.
LEMMA PutKeysFrom ==
  ASSUME NEW s, NEW id, NEW F, NEW l, l # NoLease, NEW val
  PROVE  LET r == PutKeys(s, id, F, l, val)
         IN  \A k \in DOMAIN r.kv : \/ k[1] = id /\ r.kv[k].lease = l
                                    \/ k \in DOMAIN s.kv /\ r.kv[k] = s.kv[k]
  <1> USE Zenon
  <1> SUFFICES ASSUME NEW r, r = PutKeys(s, id, F, l, val), NEW k \in DOMAIN r.kv
               PROVE  \/ k[1] = id /\ r.kv[k].lease = l
                      \/ k \in DOMAIN s.kv /\ r.kv[k] = s.kv[k]
    OBVIOUS
  <1>1. CASE l \notin DOMAIN s.leases
    BY <1>1 DEF PutKeys, PutOk
  <1>2. CASE l \in DOMAIN s.leases
    <2>1. r.kv = [j \in DOMAIN s.kv \cup ({id} \X F) |->
                    IF j \in {id} \X F THEN [val |-> val[j[2]], lease |-> l] ELSE s.kv[j]]
      BY <1>2 DEF PutKeys, PutOk
    <2>2. CASE k \in {id} \X F
      <3>1. k[1] = id
        BY <2>2
      <3>2. r.kv[k] = [val |-> val[k[2]], lease |-> l]
        BY <2>1, <2>2
      <3> QED  BY <3>1, <3>2, SMT
    <2>3. CASE k \notin {id} \X F
      BY <2>1, <2>3
    <2> QED  BY <2>2, <2>3
  <1> QED  BY <1>1, <1>2

\* What register leaves in ledger and store, whether it fails or not.
LEMMA RegisterKeys ==
  ASSUME Good(Sys), KeysOK(Sys, used), NEW id, NEW ttl, NEW idle, Register(id, ttl, idle)
  PROVE  KeysOK(Sys', used')
  <1> USE Zenon
  <1>1. PICK l, g : l = NewLease(st) /\ g = LeaseGrant(st, idle, now)
    OBVIOUS
  <1>2. Sys.live = live /\ Sys.st = st /\ Sys'.live = live' /\ Sys'.st = st'
    BY DEF Sys
  <1>3. StoreOK(st)
    BY <1>2 DEF Good
  <1>4. l \in Nat \ {0} /\ g.kv = st.kv
    BY <1>1, <1>3, NewLeaseFresh, GrantOK
  <1>5. l # NoLease
    BY <1>4 DEF NoLease
  <1>6. ASSUME NEW F, NEW w, w = PutKeys(g, id, F, l, NewRecord)
        PROVE  \A k \in DOMAIN w.kv : \/ k[1] = id /\ w.kv[k].lease = l
                                      \/ k \in DOMAIN st.kv /\ w.kv[k] = st.kv[k]
    BY <1>4, <1>5, <1>6, PutKeysFrom, SMT
  <1>7. ASSUME NEW w, NEW v, v = LeaseRevoke(w, l)
        PROVE  DOMAIN v.kv \subseteq DOMAIN w.kv /\ \A k \in DOMAIN v.kv : v.kv[k] = w.kv[k]
    BY <1>7, ReapExact, SMT DEF LeaseRevoke
  <1>8. \A k \in DOMAIN st'.kv : \/ k[1] = id /\ st'.kv[k].lease = l
                                 \/ k \in DOMAIN st.kv /\ st'.kv[k] = st.kv[k]
    <2>1. PICK F, w : w = PutKeys(g, id, F, l, NewRecord) /\ (st' = w \/ st' = LeaseRevoke(w, l))
      BY <1>1 DEF Register
    <2> QED  BY <1>6, <1>7, <2>1, SMT
  <1>9. id \notin used /\ used' = used \cup {id}
    BY DEF Register
  <1>10. /\ DOMAIN live' \subseteq DOMAIN live \cup {id}
         /\ id \in DOMAIN live' => live'[id].lease = l
         /\ \A i \in DOMAIN live' \ {id} : live'[i] = live[i]
    <2>1. CASE live' = Bind(live, id, [lease |-> l, ttl |-> now + ttl])
      BY <2>1 DEF Bind
    <2>2. CASE live' = live
      BY <1>2, <1>9, <2>2 DEF KeysOK
    <2> QED  BY <1>1, <2>1, <2>2 DEF Register
  <1> QED
    BY <1>2, <1>8, <1>9, <1>10, SMT DEF KeysOK

\* KeysOK looks at ledger, keys and the ids given out.
LEMMA SameKeys ==
  ASSUME KeysOK(Sys, used), st'.kv = st.kv, DOMAIN live' \subseteq DOMAIN live,
         \A i \in DOMAIN live' : live'[i] = live[i], used' = used
  PROVE  KeysOK(Sys', used')
  <1> USE Zenon
  <1>1. Sys.live = live /\ Sys.st = st /\ Sys'.live = live' /\ Sys'.st = st'
    BY DEF Sys
  <1> QED  BY <1>1 DEF KeysOK

\* Every step leaves the keys of a live sandbox on its lease.
LEMMA KeysStep == Good(Sys) /\ KeysOK(Sys, used) /\ [Next]_vars => KeysOK(Sys, used)'
  <1> USE Zenon
  <1> SUFFICES ASSUME Good(Sys), KeysOK(Sys, used), [Next]_vars PROVE KeysOK(Sys', used')
    OBVIOUS
  <1>0. /\ Sys.live = live /\ Sys.st = st /\ Sys.vms = vms
        /\ Sys'.live = live' /\ Sys'.st = st' /\ Sys'.vms = vms'
    BY DEF Sys
  <1>1. ASSUME NEW id \in Ids, Create(id) PROVE KeysOK(Sys', used')
    BY <1>1, RegisterKeys DEF Create
  <1>2. ASSUME NEW p \in Ids, NEW id \in Ids, Fork(p, id) PROVE KeysOK(Sys', used')
    BY <1>2, RegisterKeys DEF Fork
  <1>3. ASSUME NEW id \in DOMAIN live, NEW F, NEW val, used' = used, live' = live,
               st' = PutKeys(st, id, F, live[id].lease, val)
        PROVE  KeysOK(Sys', used')
    <2>1. PICK l : l = live[id].lease
      OBVIOUS
    <2>2. l # NoLease /\ id \in used
      BY <1>0, <2>1 DEF Good, KeysOK, NoLease
    <2>3. \A k \in DOMAIN st'.kv : \/ k[1] = id /\ st'.kv[k].lease = l
                                   \/ k \in DOMAIN st.kv /\ st'.kv[k] = st.kv[k]
      BY <1>3, <2>1, <2>2, PutKeysFrom, SMT
    <2> QED  BY <1>0, <1>3, <2>1, <2>2, <2>3, SMT DEF KeysOK
  <1>4. ASSUME st' = st, live' = live, used' = used PROVE KeysOK(Sys', used')
    BY <1>4, SameKeys
  <1>5. ASSUME NEW id \in Ids, Pause(id) PROVE KeysOK(Sys', used')
    BY <1>3, <1>4, <1>5 DEF Pause, rest
  <1>6. ASSUME NEW id \in Ids, Resume(id) PROVE KeysOK(Sys', used')
    BY <1>3, <1>4, <1>6 DEF Resume, rest
  <1>7. ASSUME NEW id \in Ids, Keepalive(id) PROVE KeysOK(Sys', used')
    <2>1. st'.kv = st.kv /\ live' = live /\ used' = used
      BY <1>7 DEF Keepalive, LeaseKeepalive, rest
    <2> QED  BY <2>1, SameKeys
  <1>8. ASSUME Less(Sys, Sys'), used' = used PROVE KeysOK(Sys', used')
    BY <1>8, LessKeys
  <1>9. ASSUME NEW id \in Ids, Destroy(id) PROVE KeysOK(Sys', used')
    <2>1. used' = used /\ \E t : Become(t) /\ (t = Destroyed(Sys, {id}) \/ t = Kill(Sys, {id}))
      BY <1>9 DEF Destroy, rest
    <2>2. PICK t : Become(t) /\ Less(Sys, t)
      BY <2>1, DestroyedLess, KillLess
    <2>3. Less(Sys, Sys')
      BY <1>0, <2>2, SMT DEF Less, Become
    <2> QED  BY <1>8, <2>1, <2>3
  <1>10. CASE ReaperRound
    <2>1. used' = used
      BY <1>10 DEF ReaperRound, rest
    <2> QED  BY <1>8, <1>10, <2>1, ReaperLess
  <1>11. CASE Restart
    <2>1. DOMAIN live' = {} /\ st' = st /\ used' = used
      BY <1>11 DEF Restart, EmptyMap
    <2> QED  BY <2>1, SameKeys
  <1>12. CASE \E l \in DOMAIN st.leases : ServerExpires(l)
    <2>0. PICK l \in DOMAIN st.leases : ServerExpires(l)
      BY <1>12
    <2>1. st' = ReapLeases(st, {l}) /\ live' = live /\ vms' = vms /\ used' = used
      BY <2>0 DEF ServerExpires, rest
    <2>2. Less(Sys, Sys')
      BY <1>0, <2>1, ReapExact, SMT DEF Less
    <2> QED  BY <1>8, <2>1, <2>2
  <1>13. CASE AdvanceTime \/ Heartbeat \/ \E g \in beats : HeartbeatLost(g)
    BY <1>4, <1>13 DEF AdvanceTime, Heartbeat, HeartbeatLost
  <1>14. CASE UNCHANGED vars
    BY <1>4, <1>14 DEF vars
  <1> QED
    BY <1>1, <1>2, <1>5, <1>6, <1>7, <1>9, <1>10, <1>11, <1>12, <1>13, <1>14 DEF Next

\* KeysOK holds at the start and stays.
LEMMA AlwaysKeys == Spec => []KeysOK(Sys, used)
  <1>1. Init => KeysOK(Sys, used)
    BY DEF Init, KeysOK, Sys, EmptyStore, EmptyMap
  <1> QED
    BY <1>1, KeysStep, AlwaysGood, PTL DEF Spec

\* Whatever keepalives, pauses, failed calls and restarts came before, a round
\* of the reaper kills no sandbox that is neither past its TTL nor idle.
THEOREM ReaperKillsNoOther == Spec => ReaperSpares
  <1> USE Zenon
  <1>1. KeysOK(Sys, used) /\ ReaperRound =>
          \A i \in DOMAIN live \ DOMAIN live' :
             now >= live[i].ttl \/ live[i].lease \in Expired(st, now)
    <2> SUFFICES ASSUME KeysOK(Sys, used), ReaperRound, NEW i \in DOMAIN live \ DOMAIN live', ~(now >= live[i].ttl)
                 PROVE  live[i].lease \in Expired(st, now)
      OBVIOUS
    <2>1. PICK k \in DOMAIN st.kv : k[1] = i /\ st.kv[k].lease \in Expired(st, now)
      BY ReaperLess
    <2> QED  BY <2>1 DEF KeysOK, Sys
  <1> QED
    BY <1>1, AlwaysKeys, PTL DEF ReaperSpares, Spec
-----------------------------------------------------------------------------
(***************************************************************************)
(* The quota.  The only step after which more sandboxes count is a         *)
(* registration, which follows a check, under the same lock, that leaves   *)
(* room for one.                                                           *)
(***************************************************************************)
QuotaInv == IsFiniteSet(Counted(st)) /\ QuotaHeld

\* Which keys exist decides which sandboxes count.
LEMMA FewerCount ==
  ASSUME QuotaInv,
         \A i : \A f \in {"meta", "project"} : <<i, f>> \in DOMAIN st'.kv => <<i, f>> \in DOMAIN st.kv
  PROVE  QuotaInv'
  <1> USE Zenon
  <1>1. Counted(st') \in SUBSET Counted(st)
    BY DEF Counted, HasKey
  <1>2. IsFiniteSet(Counted(st')) /\ Cardinality(Counted(st')) <= Cardinality(Counted(st))
    BY <1>1, FS_Subset DEF QuotaInv
  <1>3. Cardinality(Counted(st)) \in Nat /\ Cardinality(Counted(st')) \in Nat
    BY <1>2, FS_CardinalityType DEF QuotaInv
  <1>4. MaxSandboxes \in Nat
    BY OrchAssumption
  <1> QED
    BY <1>2, <1>3, <1>4, SMT DEF QuotaInv, QuotaHeld

\* The domain of the keys after puts under one lease.
LEMMA PutKeysDomain ==
  ASSUME NEW s, NEW id, NEW F, NEW l, NEW val
  PROVE  \A k \in DOMAIN PutKeys(s, id, F, l, val).kv : k \in DOMAIN s.kv \/ k \in {id} \X F
  <1> USE Zenon
  <1>1. PICK r : r = PutKeys(s, id, F, l, val)
    OBVIOUS
  <1>2. CASE PutOk(s, l)
    <2>1. DOMAIN r.kv = DOMAIN s.kv \cup ({id} \X F)
      BY <1>1, <1>2 DEF PutKeys
    <2> QED  BY <1>1, <2>1
  <1>3. CASE ~PutOk(s, l)
    BY <1>1, <1>3 DEF PutKeys
  <1> QED  BY <1>2, <1>3

\* A registration adds at most its own sandbox to the ones that count.
LEMMA RegisterCount ==
  ASSUME QuotaInv, CheckQuota(st, 0), NEW id, NEW ttl, NEW idle, Register(id, ttl, idle)
  PROVE  QuotaInv'
  <1> USE Zenon
  <1>1. PICK l, g : l = NewLease(st) /\ g = LeaseGrant(st, idle, now)
    OBVIOUS
  <1>2. g.kv = st.kv
    BY <1>1 DEF LeaseGrant
  <1>3. PICK F, w : w = PutKeys(g, id, F, l, NewRecord) /\ (st' = w \/ st' = LeaseRevoke(w, l))
    BY <1>1 DEF Register
  <1>4. \A k \in DOMAIN w.kv : k \in DOMAIN st.kv \/ k \in {id} \X F
    BY <1>2, <1>3, PutKeysDomain
  <1>5. DOMAIN st'.kv \subseteq DOMAIN w.kv
    BY <1>3, ReapExact, SMT DEF LeaseRevoke
  <1>6. \A i : \A f : i # id /\ <<i, f>> \in DOMAIN st'.kv => <<i, f>> \in DOMAIN st.kv
    BY <1>4, <1>5
  <1>7. PICK S : S = Counted(st)
    OBVIOUS
  <1>8. Counted(st') \in SUBSET (S \cup {id})
    BY <1>6, <1>7 DEF Counted, HasKey
  <1>9. IsFiniteSet(S) /\ Cardinality(S) \in Nat
    BY <1>7, FS_CardinalityType DEF QuotaInv
  <1>10. /\ IsFiniteSet(S \cup {id}) /\ Cardinality(S \cup {id}) <= Cardinality(S) + 1
         /\ Cardinality(S \cup {id}) \in Nat
    BY <1>9, FS_AddElement, SMT
  <1>11. IsFiniteSet(Counted(st')) /\ Cardinality(Counted(st')) <= Cardinality(S \cup {id})
    BY <1>8, <1>10, FS_Subset
  <1>12. Cardinality(Counted(st')) \in Nat
    BY <1>11, FS_CardinalityType
  <1>13. MaxSandboxes > 0 => Cardinality(S) + 1 <= MaxSandboxes
    BY <1>7 DEF CheckQuota
  <1>14. MaxSandboxes \in Nat
    BY OrchAssumption
  <1>15. MaxSandboxes > 0 => Cardinality(Counted(st')) <= MaxSandboxes
    BY <1>9, <1>10, <1>11, <1>12, <1>13, <1>14, SMT
  <1> QED
    BY <1>11, <1>15 DEF QuotaInv, QuotaHeld

\* No step takes the project over its limit.
LEMMA QuotaStep == QuotaInv /\ [Next]_vars => QuotaInv'
  <1> USE Zenon
  <1> SUFFICES ASSUME QuotaInv, [Next]_vars PROVE QuotaInv'
    OBVIOUS
  <1>0. Sys.st = st /\ Sys'.st = st'
    BY DEF Sys
  <1>1. ASSUME NEW id \in Ids, Create(id) PROVE QuotaInv'
    BY <1>1, RegisterCount DEF Create
  <1>2. ASSUME NEW p \in Ids, NEW id \in Ids, Fork(p, id) PROVE QuotaInv'
    BY <1>2, RegisterCount DEF Fork
  <1>3. ASSUME NEW id, NEW F \in SUBSET {"state", "retain", "size"}, NEW l, NEW val, st' = PutKeys(st, id, F, l, val)
        PROVE  QuotaInv'
    <2>1. ASSUME NEW i, NEW f \in {"meta", "project"}, <<i, f>> \in DOMAIN st'.kv PROVE <<i, f>> \in DOMAIN st.kv
      <3>1. <<i, f>> \in DOMAIN st.kv \/ <<i, f>> \in {id} \X F
        BY <1>3, <2>1, PutKeysDomain
      <3> QED  BY <3>1
    <2> QED  BY <2>1, FewerCount
  <1>4. ASSUME DOMAIN st'.kv \subseteq DOMAIN st.kv PROVE QuotaInv'
    BY <1>4, FewerCount
  <1>5. ASSUME NEW id \in Ids, Pause(id) PROVE QuotaInv'
    BY <1>3, <1>4, <1>5 DEF Pause
  <1>6. ASSUME NEW id \in Ids, Resume(id) PROVE QuotaInv'
    BY <1>3, <1>4, <1>6 DEF Resume
  <1>7. ASSUME NEW id \in Ids, Keepalive(id) PROVE QuotaInv'
    BY <1>4, <1>7 DEF Keepalive, LeaseKeepalive
  <1>8. ASSUME NEW id \in Ids, Destroy(id) PROVE QuotaInv'
    <2>1. PICK t : Become(t) /\ (t = Destroyed(Sys, {id}) \/ t = Kill(Sys, {id}))
      BY <1>8 DEF Destroy
    <2>2. Less(Sys, t) /\ st' = t.st
      BY <2>1, DestroyedLess, KillLess DEF Become
    <2> QED  BY <1>0, <1>4, <2>2 DEF Less
  <1>9. CASE ReaperRound
    BY <1>0, <1>4, <1>9, ReaperLess DEF Less
  <1>10. CASE \E l \in DOMAIN st.leases : ServerExpires(l)
    <2>1. PICK l \in DOMAIN st.leases : ServerExpires(l)
      BY <1>10
    <2> QED  BY <1>4, <2>1, ReapExact, SMT DEF ServerExpires
  <1>11. CASE Restart \/ AdvanceTime \/ Heartbeat \/ \E g \in beats : HeartbeatLost(g)
    BY <1>4, <1>11 DEF Restart, AdvanceTime, Heartbeat, HeartbeatLost
  <1>12. CASE UNCHANGED vars
    BY <1>4, <1>12 DEF vars
  <1> QED
    BY <1>1, <1>2, <1>5, <1>6, <1>7, <1>8, <1>9, <1>10, <1>11, <1>12 DEF Next

\* The sandboxes of the project never exceed its limit: the check before
\* create and fork is enough for any interleaving of handlers, reaper rounds,
\* failed calls and restarts, with either store.
THEOREM QuotaIsHeld == Spec => []QuotaHeld
  <1> USE Zenon
  <1>1. Init => QuotaInv
    <2> SUFFICES ASSUME Init PROVE QuotaInv
      OBVIOUS
    <2>1. Counted(st) = {}
      BY DEF Init, Counted, HasKey, EmptyStore, EmptyMap
    <2> QED  BY <2>1, FS_EmptySet, OrchAssumption, SMT DEF QuotaInv, QuotaHeld
  <1>2. QuotaInv => QuotaHeld
    BY DEF QuotaInv
  <1> QED
    BY <1>1, <1>2, QuotaStep, PTL DEF Spec
-----------------------------------------------------------------------------
(***************************************************************************)
(* One node with SQLite, before any retention period has run out: the      *)
(* record of a live sandbox stays, on its own lease, and says what the     *)
(* instance is.  LedgerOK is what makes that inductive: the lease exists,  *)
(* so a new one differs from it; nothing but the sandbox's own keys hangs  *)
(* on it, so no sweep, destroy or reclaim of another takes it; and the     *)
(* node key names this process, so its record is never an orphan.          *)
(***************************************************************************)
SingleNode == ~Etcd /\ Retention > MaxTime

\* Key f of sandbox i exists and hangs on lease l.
KeyOn(s, i, f, l) == <<i, f>> \in DOMAIN s.kv /\ s.kv[<<i, f>>].lease = l

\* The record of sandbox i, whose lease is l, is complete and apart.
Recorded(s, i, l) ==
    /\ l \in DOMAIN s.leases
    /\ KeyOn(s, i, "meta", l) /\ KeyOn(s, i, "state", l) /\ KeyOn(s, i, "node", l)
    /\ s.kv[<<i, "node">>].val = gen
    /\ \A k \in DOMAIN s.kv : s.kv[k].lease = l => k[1] = i

LedgerOK(s) ==
    /\ \A i \in DOMAIN s.live : Recorded(s.st, i, s.live[i].lease)
    /\ \A i, j \in DOMAIN s.live : s.live[j].lease = s.live[i].lease => j = i

\* No retention period ends within the time there is.
RetainOK(s) ==
    \A i : <<i, "retain">> \in DOMAIN s.kv =>
             s.kv[<<i, "retain">>].val \in Nat /\ s.kv[<<i, "retain">>].val >= Retention

MatchOK(s) ==
    \A i \in DOMAIN s.live :
        i \in DOMAIN s.vms /\ (s.st.kv[<<i, "state">>].val = "paused" <=> s.vms[i] = "paused")

\* Reaping other leases keeps a record.
LEMMA ReapKeeps ==
  ASSUME NEW s, NEW L, NEW i, NEW l, l \notin L, Recorded(s, i, l)
  PROVE  Recorded(ReapLeases(s, L), i, l)
  <1> USE Zenon
  <1>1. PICK r : r = ReapLeases(s, L)
    OBVIOUS
  <1>2. /\ DOMAIN r.leases = DOMAIN s.leases \ L
        /\ DOMAIN r.kv = {k \in DOMAIN s.kv : s.kv[k].lease \notin L \cap DOMAIN s.leases}
        /\ \A k \in DOMAIN r.kv : r.kv[k] = s.kv[k]
    BY <1>1, ReapExact, SMT
  <1>3. \A f : KeyOn(s, i, f, l) => KeyOn(r, i, f, l) /\ r.kv[<<i, f>>] = s.kv[<<i, f>>]
    BY <1>2 DEF KeyOn
  <1>4. \A k \in DOMAIN r.kv : r.kv[k].lease = l => k[1] = i
    BY <1>2 DEF Recorded
  <1>5. l \in DOMAIN r.leases /\ r.kv[<<i, "node">>].val = gen
    BY <1>2, <1>3 DEF Recorded
  <1>6. Recorded(r, i, l)
    BY <1>3, <1>4, <1>5 DEF Recorded
  <1> QED
    BY <1>1, <1>6

\* Reaping leases of none of the remaining sandboxes.
LEMMA ReapLedger ==
  ASSUME NEW s, NEW t, NEW L, LedgerOK(s), t.st = ReapLeases(s.st, L),
         DOMAIN t.live \subseteq DOMAIN s.live, \A i \in DOMAIN t.live : t.live[i] = s.live[i],
         \A i \in DOMAIN t.live : s.live[i].lease \notin L
  PROVE  LedgerOK(t)
  <1>1. ASSUME NEW i \in DOMAIN t.live PROVE Recorded(t.st, i, t.live[i].lease)
    BY ReapKeeps DEF LedgerOK
  <1> QED
    BY <1>1, Zenon DEF LedgerOK

\* LedgerOK looks at ledger and store only.
LEMMA LedgerSame ==
  ASSUME NEW s, NEW t, LedgerOK(s), t.st = s.st, DOMAIN t.live \subseteq DOMAIN s.live,
         \A i \in DOMAIN t.live : t.live[i] = s.live[i]
  PROVE  LedgerOK(t)
  BY Zenon DEF LedgerOK

\* destroy revokes the leases of the sandboxes it takes, and no other's.
LEMMA DestroyedLedger ==
  ASSUME NEW s, NEW D, D \subseteq DOMAIN s.live, LedgerOK(s)
  PROVE  LedgerOK(Destroyed(s, D))
  <1> USE Zenon
  <1>1. PICK t, L : t = Destroyed(s, D) /\ L = LeasesOf(s, D)
    OBVIOUS
  <1>2. t.live = Kill(s, D).live /\ t.st = ReapLeases(s.st, L)
    BY <1>1, DestroyedLess
  <1>3. DOMAIN t.live = DOMAIN s.live \ D /\ \A i \in DOMAIN t.live : t.live[i] = s.live[i]
    <2>1. /\ DOMAIN Kill(s, D).live = DOMAIN s.live \ D
          /\ \A i \in DOMAIN Kill(s, D).live : Kill(s, D).live[i] = s.live[i]
      BY Killed
    <2> QED  BY <1>2, <2>1
  <1>4. \A i \in DOMAIN t.live : s.live[i].lease \notin L
    BY <1>1, <1>3, SMT DEF LeasesOf, LedgerOK
  <1>5. LedgerOK(t)
    BY <1>2, <1>3, <1>4, ReapLedger
  <1> QED
    BY <1>1, <1>5

\* The sweep kills every live sandbox whose lease has expired.
LEMMA SweepLedger ==
  ASSUME ~Etcd, NEW s, LedgerOK(s)
  PROVE  LedgerOK(SweepIdle(s))
  <1> USE Zenon
  <1>1. PICK t, L : t = SweepIdle(s) /\ L = Expired(s.st, now)
    OBVIOUS
  <1>2. t.live = Kill(s, Idle(s)).live /\ t.st = ReapLeases(s.st, L)
    BY <1>1, SweepLess DEF LeaseSweep
  <1>3. DOMAIN t.live = DOMAIN s.live \ Idle(s) /\ \A i \in DOMAIN t.live : t.live[i] = s.live[i]
    <2>1. /\ DOMAIN Kill(s, Idle(s)).live = DOMAIN s.live \ Idle(s)
          /\ \A i \in DOMAIN Kill(s, Idle(s)).live : Kill(s, Idle(s)).live[i] = s.live[i]
      BY Killed
    <2> QED  BY <1>2, <2>1
  <1>4. ASSUME NEW i \in DOMAIN t.live, s.live[i].lease \in L PROVE FALSE
    <2>1. PICK k : k = <<i, "meta">>
      OBVIOUS
    <2>2. k \in DOMAIN s.st.kv /\ s.st.kv[k].lease \in L /\ k[1] = i
      <3>1. KeyOn(s.st, i, "meta", s.live[i].lease)
        <4>1. i \in DOMAIN s.live
          BY <1>3
        <4> QED  BY <4>1 DEF LedgerOK, Recorded
      <3> QED  BY <1>4, <2>1, <3>1 DEF KeyOn
    <2>3. k \in SweptKeys(s.st, now)
      BY <1>1, <2>2 DEF SweptKeys, KeysOf
    <2>4. i \in Idle(s)
      BY <1>3, <2>2, <2>3 DEF Idle
    <2> QED  BY <1>3, <2>4
  <1>5. LedgerOK(t)
    BY <1>2, <1>3, <1>4, ReapLedger
  <1> QED
    BY <1>1, <1>5

\* reclaim_orphans never takes a lease of this process's own sandboxes, and
\* no retention period has run out for gc_expired.
LEMMA RestLedger ==
  ASSUME SingleNode, now \in Nat, now <= MaxTime,
         NEW s, NEW ok, LedgerOK(s), RetainOK(s.st), ReclaimAndGc(s, ok)
  PROVE  LedgerOK(Sys')
  <1> USE Zenon
  <1>1. PICK R \in SUBSET Orphaned(s.st) :
          \E r \in {Reclaim(s, R)} : \E G \in SUBSET Overdue(r.st) :
             (ok => R = Orphaned(s.st) /\ G = Overdue(r.st)) /\ Become(GcRetention(r, G))
    BY DEF ReclaimAndGc
  <1>2. PICK r : r = Reclaim(s, R)
    OBVIOUS
  <1>3. PICK G \in SUBSET Overdue(r.st) : Become(GcRetention(r, G))
    BY <1>1, <1>2
  <1>4. PICK L : L = {s.st.kv[<<i, "node">>].lease : i \in R}
    OBVIOUS
  <1>5. r = WithStore(s, ReapLeases(s.st, L))
    BY <1>2, <1>4 DEF Reclaim
  <1>6. Less(s, r) /\ r.live = s.live /\ r.st = ReapLeases(s.st, L)
    BY <1>5, ReapLess
  <1>7. ASSUME NEW i \in DOMAIN s.live, s.live[i].lease \in L PROVE FALSE
    <2>1. PICK j \in R : s.live[i].lease = s.st.kv[<<j, "node">>].lease
      BY <1>4, <1>7
    <2>2. <<j, "node">> \in DOMAIN s.st.kv /\ s.st.kv[<<j, "node">>].val # gen
      BY <2>1 DEF Orphaned, HasKey
    <2>3. Recorded(s.st, i, s.live[i].lease)
      BY DEF LedgerOK
    <2>4. <<j, "node">>[1] = i
      BY <2>1, <2>2, <2>3 DEF Recorded
    <2>5. j = i
      BY <2>4
    <2> QED  BY <2>2, <2>3, <2>5 DEF Recorded
  <1>8. LedgerOK(r)
    BY <1>6, <1>7, ReapLedger
  <1>9. G = {}
    <2>1. ASSUME NEW i \in Overdue(r.st) PROVE FALSE
      <3>1. PICK v : v = r.st.kv[<<i, "retain">>].val
        OBVIOUS
      <3>2. <<i, "retain">> \in DOMAIN r.st.kv /\ v <= now
        BY <2>1, <3>1 DEF Overdue, HasKey
      <3>3. <<i, "retain">> \in DOMAIN s.st.kv /\ s.st.kv[<<i, "retain">>].val = v
        BY <1>6, <3>1, <3>2 DEF Less
      <3>4. v \in Nat /\ v >= Retention
        BY <3>3 DEF RetainOK
      <3>5. Retention \in Nat /\ MaxTime \in Nat /\ Retention > MaxTime
        BY OrchAssumption DEF SingleNode
      <3> QED  BY <3>2, <3>4, <3>5, SMT
    <2> QED  BY <2>1
  <1>10. PICK t, M : t = GcRetention(r, G) /\ M = {r.st.kv[<<i, "retain">>].lease : i \in G}
    OBVIOUS
  <1>11. t = WithStore(r, ReapLeases(r.st, M))
    BY <1>10 DEF GcRetention
  <1>12. t.live = r.live /\ t.st = ReapLeases(r.st, M)
    BY <1>11, ReapLess
  <1>13. M = {}
    BY <1>9, <1>10
  <1>14. LedgerOK(t)
    BY <1>8, <1>12, <1>13, ReapLedger, SMT
  <1>15. Sys'.st = t.st /\ Sys'.live = t.live
    BY <1>3, <1>10 DEF Become, Sys
  <1> QED
    BY <1>14, <1>15, LedgerSame

\* Taking away keeps the retention instants.
LEMMA LessRetain ==
  ASSUME NEW s, NEW t, Less(s, t), RetainOK(s.st)
  PROVE  RetainOK(t.st)
  BY Zenon DEF Less, RetainOK

\* A round of the reaper takes no record of a sandbox that it does not kill.
LEMMA ReaperLedger ==
  ASSUME SingleNode, now \in Nat, now <= MaxTime, LedgerOK(Sys), RetainOK(st), ReaperRound
  PROVE  LedgerOK(Sys')
  <1> USE Zenon
  <1>1. Sys.st = st /\ Sys.live = live /\ TtlExpired(Sys) \subseteq DOMAIN Sys.live
    BY DEF Sys, TtlExpired
  <1>2. ASSUME NEW ok, NEW d, d = Destroyed(Sys, TtlExpired(Sys)), ReclaimAndGc(d, ok) \/ ReclaimAndGc(SweepIdle(d), ok)
        PROVE  LedgerOK(Sys')
    <2>1. Less(Sys, d) /\ LedgerOK(d)
      BY <1>1, <1>2, DestroyedLess, DestroyedLedger
    <2>2. PICK s : s = SweepIdle(d)
      OBVIOUS
    <2>3. Less(d, s) /\ LedgerOK(s)
      BY <2>1, <2>2, SweepLess, SweepLedger DEF SingleNode
    <2>4. RetainOK(d.st) /\ RetainOK(s.st)
      BY <1>1, <2>1, <2>3, LessRetain
    <2> QED  BY <1>2, <2>1, <2>2, <2>3, <2>4, RestLedger
  <1>3. ASSUME NEW ok, NEW e, NEW D \in SUBSET TtlExpired(Sys), ReclaimAndGc(TickAborted(Sys, D, e), ok)
        PROVE  LedgerOK(Sys')
    <2>1. PICK d, s : d = Destroyed(Sys, D) /\ s = Kill(d, {e})
      OBVIOUS
    <2>2. Less(Sys, d) /\ Less(d, s) /\ LedgerOK(d)
      BY <1>1, <2>1, DestroyedLess, DestroyedLedger, KillLess
    <2>3. LedgerOK(s)
      BY <2>1, <2>2, KillExact, LedgerSame, SMT
    <2>4. RetainOK(s.st)
      BY <1>1, <2>2, LessRetain
    <2> QED  BY <1>3, <2>1, <2>3, <2>4, RestLedger DEF TickAborted
  <1> QED
    BY <1>2, <1>3 DEF ReaperRound

\* Store r is s with keys F of sandbox id on lease l, and no other change.
Puts(s, r, id, F, l, val) ==
    /\ r.leases = s.leases
    /\ \A f \in F : KeyOn(r, id, f, l) /\ r.kv[<<id, f>>].val = val[f]
    /\ \A i : \A f : i # id \/ f \notin F =>
          /\ <<i, f>> \in DOMAIN r.kv <=> <<i, f>> \in DOMAIN s.kv
          /\ <<i, f>> \in DOMAIN s.kv => r.kv[<<i, f>>] = s.kv[<<i, f>>]
    /\ \A k \in DOMAIN r.kv : \/ k[1] = id /\ r.kv[k].lease = l
                              \/ k \in DOMAIN s.kv /\ r.kv[k] = s.kv[k]

\* The keys that puts under a lease that exists leave.
LEMMA PutKeysExact ==
  ASSUME NEW s, NEW id, NEW F, NEW l \in DOMAIN s.leases, NEW val, NEW r, r = PutKeys(s, id, F, l, val)
  PROVE  Puts(s, r, id, F, l, val)
  <1> USE Zenon
  <1>1. /\ r.kv = [j \in DOMAIN s.kv \cup ({id} \X F) |->
                    IF j \in {id} \X F THEN [val |-> val[j[2]], lease |-> l] ELSE s.kv[j]]
        /\ r.leases = s.leases
    BY DEF PutKeys, PutOk
  <1>2. DOMAIN r.kv = DOMAIN s.kv \cup ({id} \X F)
    BY <1>1
  <1>3. ASSUME NEW k \in {id} \X F PROVE k[1] = id /\ r.kv[k].lease = l /\ r.kv[k].val = val[k[2]]
    <2>1. k \in DOMAIN r.kv /\ k[1] = id
      BY <1>2
    <2>2. r.kv[k] = [val |-> val[k[2]], lease |-> l]
      BY <1>1, <1>2, <2>1
    <2> QED  BY <2>1, <2>2, SMT
  <1>4. \A k \in DOMAIN s.kv : k \notin {id} \X F => r.kv[k] = s.kv[k]
    BY <1>1
  <1>5. ASSUME NEW f \in F PROVE KeyOn(r, id, f, l) /\ r.kv[<<id, f>>].val = val[f]
    <2>1. <<id, f>> \in {id} \X F /\ <<id, f>>[2] = f
      OBVIOUS
    <2> QED  BY <1>2, <1>3, <2>1 DEF KeyOn
  <1>6. ASSUME NEW i, NEW f, i # id \/ f \notin F
        PROVE  /\ <<i, f>> \in DOMAIN r.kv <=> <<i, f>> \in DOMAIN s.kv
               /\ <<i, f>> \in DOMAIN s.kv => r.kv[<<i, f>>] = s.kv[<<i, f>>]
    <2>1. <<i, f>> \notin {id} \X F
      BY <1>6
    <2> QED  BY <1>2, <1>4, <2>1
  <1>7. \A k \in DOMAIN r.kv : \/ k[1] = id /\ r.kv[k].lease = l
                               \/ k \in DOMAIN s.kv /\ r.kv[k] = s.kv[k]
    BY <1>2, <1>3, <1>4
  <1> QED
    BY <1>1, <1>5, <1>6, <1>7 DEF Puts

\* Puts for another sandbox on another lease keep a record.
LEMMA PutKeeps ==
  ASSUME NEW s, NEW r, NEW id, NEW F, NEW l, NEW val, Puts(s, r, id, F, l, val),
         NEW i, i # id, NEW m, m # l, Recorded(s, i, m)
  PROVE  Recorded(r, i, m)
  <1> USE Zenon
  <1>1. /\ r.leases = s.leases
        /\ \A f : <<i, f>> \in DOMAIN s.kv => <<i, f>> \in DOMAIN r.kv /\ r.kv[<<i, f>>] = s.kv[<<i, f>>]
        /\ \A k \in DOMAIN r.kv : \/ k[1] = id /\ r.kv[k].lease = l
                                  \/ k \in DOMAIN s.kv /\ r.kv[k] = s.kv[k]
    BY DEF Puts
  <1>2. \A f : KeyOn(s, i, f, m) => KeyOn(r, i, f, m) /\ r.kv[<<i, f>>] = s.kv[<<i, f>>]
    BY <1>1 DEF KeyOn
  <1>3. \A k \in DOMAIN r.kv : r.kv[k].lease = m => k[1] = i
    BY <1>1 DEF Recorded
  <1>4. m \in DOMAIN r.leases /\ r.kv[<<i, "node">>].val = gen
    BY <1>1, <1>2 DEF Recorded
  <1> QED
    BY <1>2, <1>3, <1>4 DEF Recorded

\* Puts of a sandbox's own keys but the node key keep its record.
LEMMA PutOwn ==
  ASSUME NEW s, NEW r, NEW id, NEW F, NEW l, NEW val, Puts(s, r, id, F, l, val),
         "node" \notin F, Recorded(s, id, l)
  PROVE  Recorded(r, id, l)
  <1> USE Zenon
  <1>1. l \in DOMAIN s.leases
    BY DEF Recorded
  <1>2. /\ r.leases = s.leases
        /\ \A f \in F : KeyOn(r, id, f, l)
        /\ \A f : f \notin F /\ <<id, f>> \in DOMAIN s.kv => <<id, f>> \in DOMAIN r.kv /\ r.kv[<<id, f>>] = s.kv[<<id, f>>]
        /\ \A k \in DOMAIN r.kv : \/ k[1] = id /\ r.kv[k].lease = l
                                  \/ k \in DOMAIN s.kv /\ r.kv[k] = s.kv[k]
    BY DEF Puts
  <1>3. \A f : KeyOn(s, id, f, l) => KeyOn(r, id, f, l)
    BY <1>2 DEF KeyOn
  <1>4. r.kv[<<id, "node">>].val = gen
    BY <1>2 DEF Recorded, KeyOn
  <1>5. \A k \in DOMAIN r.kv : r.kv[k].lease = l => k[1] = id
    BY <1>2 DEF Recorded
  <1>6. l \in DOMAIN r.leases
    BY <1>1, <1>2
  <1> QED
    BY <1>3, <1>4, <1>5, <1>6 DEF Recorded

\* While there is a record, its state key is as it was.
LEMMA LessMatch ==
  ASSUME NEW s, NEW t, Less(s, t), MatchOK(s), LedgerOK(t)
  PROVE  MatchOK(t)
  <1> USE Zenon
  <1> SUFFICES ASSUME NEW i \in DOMAIN t.live
               PROVE  i \in DOMAIN t.vms /\ (t.st.kv[<<i, "state">>].val = "paused" <=> t.vms[i] = "paused")
    BY DEF MatchOK
  <1>1. <<i, "state">> \in DOMAIN t.st.kv
    BY DEF LedgerOK, Recorded, KeyOn
  <1>2. t.st.kv[<<i, "state">>] = s.st.kv[<<i, "state">>]
    BY <1>1 DEF Less
  <1>3. i \in DOMAIN s.live /\ i \in DOMAIN s.vms
    <2>1. i \in DOMAIN s.live
      BY DEF Less
    <2> QED  BY <2>1 DEF MatchOK
  <1>4. i \in DOMAIN t.vms /\ t.vms[i] = s.vms[i]
    BY <1>3 DEF Less
  <1> QED
    BY <1>2, <1>3, <1>4 DEF MatchOK

\* What register does, in terms of the keys F it puts under the new lease l in
\* the store g with that lease.
Registers(id, ttl, l, g, F, w) ==
    /\ w = PutKeys(g, id, F, l, NewRecord)
    /\ \/ /\ {"meta", "state", "node"} \subseteq F /\ st' = w
          /\ live' = Bind(live, id, [lease |-> l, ttl |-> now + ttl])
          /\ vms' = Bind(vms, id, "running")
       \/ /\ st' = w \/ st' = LeaseRevoke(w, l)
          /\ live' = live /\ vms' = vms /\ faults' = faults + 1

\* register does one of these.
LEMMA RegisterCases ==
  ASSUME NEW id, NEW ttl, NEW idle, Register(id, ttl, idle),
         NEW l, l = NewLease(st), NEW g, g = LeaseGrant(st, idle, now)
  PROVE  \E F \in SUBSET {"meta", "state", "node", "project"} : \E w : Registers(id, ttl, l, g, F, w)
  <1> USE Zenon
  <1>1. CASE /\ \/ st' = PutKeys(g, id, {"meta", "state", "node"} \cup {"project"}, l, NewRecord)
                \/ st' = PutKeys(g, id, {"meta", "state", "node"}, l, NewRecord)
             /\ live' = Bind(live, id, [lease |-> l, ttl |-> now + ttl])
             /\ vms' = Bind(vms, id, "running")
    <2>1. PICK F \in SUBSET {"meta", "state", "node", "project"} :
            {"meta", "state", "node"} \subseteq F /\ st' = PutKeys(g, id, F, l, NewRecord)
      <3>1. /\ {"meta", "state", "node"} \in SUBSET {"meta", "state", "node", "project"}
            /\ {"meta", "state", "node"} \subseteq {"meta", "state", "node"}
        OBVIOUS
      <3>2. {"meta", "state", "node"} \cup {"project"} = {"meta", "state", "node", "project"}
        OBVIOUS
      <3>3. {"meta", "state", "node"} \subseteq {"meta", "state", "node"} \cup {"project"}
        OBVIOUS
      <3> QED  BY <1>1, <3>1, <3>2, <3>3
    <2> QED  BY <1>1, <2>1 DEF Registers
  <1>2. CASE /\ Fault /\ UNCHANGED <<live, vms>>
             /\ \E n \in 0..2 : st' \in {PutKeys(g, id, {Registered[i] : i \in 1..n}, l, NewRecord),
                                         LeaseRevoke(PutKeys(g, id, {Registered[i] : i \in 1..n}, l, NewRecord), l)}
    <2>1. PICK n \in 0..2 : st' \in {PutKeys(g, id, {Registered[i] : i \in 1..n}, l, NewRecord),
                                     LeaseRevoke(PutKeys(g, id, {Registered[i] : i \in 1..n}, l, NewRecord), l)}
      BY <1>2
    <2>2. PICK F : F = {Registered[i] : i \in 1..n}
      OBVIOUS
    <2>3. F \in SUBSET {"meta", "state", "node", "project"}
      <3>1. \A i \in 1..n : i = 1 \/ i = 2
        BY SMT
      <3>2. Registered[1] = "meta" /\ Registered[2] = "state"
        BY DEF Registered
      <3> QED  BY <2>2, <3>1, <3>2
    <2>4. PICK w : w = PutKeys(g, id, F, l, NewRecord)
      OBVIOUS
    <2>5. st' = w \/ st' = LeaseRevoke(w, l)
      BY <2>1, <2>2, <2>4
    <2>6. live' = live /\ vms' = vms /\ faults' = faults + 1
      BY <1>2 DEF Fault
    <2> QED  BY <2>3, <2>4, <2>5, <2>6 DEF Registers
  <1> QED
    BY <1>1, <1>2 DEF Register

\* A registration writes a complete record on a lease of its own, or leaves
\* the ledger alone; the other records stay.
LEMMA RegisterLedger ==
  ASSUME Good(Sys), KeysOK(Sys, used), LedgerOK(Sys), RetainOK(st),
         NEW id, NEW ttl, NEW idle, Register(id, ttl, idle)
  PROVE  LedgerOK(Sys') /\ RetainOK(st') /\ (faults' = faults \/ faults' = faults + 1)
         /\ (MatchOK(Sys) => MatchOK(Sys'))
  <1> USE Zenon
  <1>0. /\ Sys.live = live /\ Sys.st = st /\ Sys.vms = vms
        /\ Sys'.live = live' /\ Sys'.st = st' /\ Sys'.vms = vms'
    BY DEF Sys
  <1>1. PICK l, g : l = NewLease(st) /\ g = LeaseGrant(st, idle, now)
    OBVIOUS
  <1>2. PICK F \in SUBSET {"meta", "state", "node", "project"} : \E w : Registers(id, ttl, l, g, F, w)
    BY <1>1, RegisterCases
  <1>3. PICK w : Registers(id, ttl, l, g, F, w)
    BY <1>2
  <1>4. /\ StoreOK(st) /\ l \notin DOMAIN st.leases
        /\ g.kv = st.kv /\ DOMAIN g.leases = DOMAIN st.leases \cup {l}
    <2>1. StoreOK(st)
      BY <1>0 DEF Good
    <2> QED  BY <1>1, <2>1, NewLeaseFresh, GrantOK
  <1>5. Puts(g, w, id, F, l, NewRecord)
    BY <1>3, <1>4, PutKeysExact DEF Registers
  <1>6. id \notin DOMAIN live
    BY <1>0 DEF Register, KeysOK
  <1>7. ASSUME NEW i \in DOMAIN live
        PROVE  i # id /\ live[i].lease # l /\ Recorded(st', i, live[i].lease)
               /\ <<i, "state">> \in DOMAIN st.kv /\ st'.kv[<<i, "state">>] = st.kv[<<i, "state">>]
    <2>1. PICK m : m = live[i].lease
      OBVIOUS
    <2>2. Recorded(st, i, m)
      BY <1>0, <2>1 DEF LedgerOK
    <2>3. i # id /\ m # l
      BY <1>4, <1>6, <2>2 DEF Recorded
    <2>4. Recorded(g, i, m)
      BY <1>4, <2>2 DEF Recorded, KeyOn
    <2>5. Recorded(w, i, m)
      BY <1>5, <2>3, <2>4, PutKeeps, SMT
    <2>6. PICK v : v = LeaseRevoke(w, l)
      OBVIOUS
    <2>7. Recorded(v, i, m)
      BY <2>3, <2>5, <2>6, ReapKeeps DEF LeaseRevoke
    <2>8. <<i, "state">> \in DOMAIN st.kv /\ <<i, "state">> \in DOMAIN v.kv
      BY <2>2, <2>7 DEF Recorded, KeyOn
    <2>9. w.kv[<<i, "state">>] = st.kv[<<i, "state">>]
      BY <1>4, <1>5, <2>3, <2>8 DEF Puts
    <2>10. v.kv[<<i, "state">>] = w.kv[<<i, "state">>]
      <3>1. \A k \in DOMAIN LeaseRevoke(w, l).kv : LeaseRevoke(w, l).kv[k] = w.kv[k]
        BY Revoked
      <3> QED  BY <2>6, <2>8, <3>1
    <2>11. st' = w \/ st' = v
      BY <1>3, <2>6 DEF Registers
    <2> QED  BY <2>1, <2>3, <2>5, <2>7, <2>8, <2>9, <2>10, <2>11
  <1>8. RetainOK(st')
    <2> SUFFICES ASSUME NEW i, <<i, "retain">> \in DOMAIN st'.kv
                 PROVE  st'.kv[<<i, "retain">>].val \in Nat /\ st'.kv[<<i, "retain">>].val >= Retention
      BY DEF RetainOK
    <2>1. <<i, "retain">> \in DOMAIN w.kv /\ st'.kv[<<i, "retain">>] = w.kv[<<i, "retain">>]
      <3>1. CASE st' = w
        BY <3>1
      <3>2. CASE st' = LeaseRevoke(w, l)
        <4>1. /\ DOMAIN LeaseRevoke(w, l).kv \subseteq DOMAIN w.kv
              /\ \A k \in DOMAIN LeaseRevoke(w, l).kv : LeaseRevoke(w, l).kv[k] = w.kv[k]
          BY Revoked
        <4> QED  BY <3>2, <4>1
      <3> QED  BY <1>3, <3>1, <3>2 DEF Registers
    <2>2. "retain" \notin F
      BY <1>2
    <2>3. <<i, "retain">> \in DOMAIN st.kv /\ w.kv[<<i, "retain">>] = st.kv[<<i, "retain">>]
      BY <1>4, <1>5, <2>1, <2>2 DEF Puts
    <2> QED  BY <2>1, <2>3 DEF RetainOK
  <1>9. faults' = faults \/ faults' = faults + 1
    BY DEF Register, Fault
  <1>10. \A i, j \in DOMAIN live : live[j].lease = live[i].lease => j = i
    BY <1>0 DEF LedgerOK
  <1>11. CASE live' = live /\ vms' = vms
    <2>0. PICK t : t = Sys' /\ t.live = live /\ t.st = st'
      BY <1>0, <1>11
    <2>1. LedgerOK(Sys')
      BY <1>7, <1>10, <2>0 DEF LedgerOK
    <2>2. ASSUME MatchOK(Sys) PROVE MatchOK(Sys')
      <3>1. \A i \in DOMAIN live :
               i \in DOMAIN vms /\ (st.kv[<<i, "state">>].val = "paused" <=> vms[i] = "paused")
        BY <2>2 DEF MatchOK, Sys
      <3>2. \A i \in DOMAIN live' :
               i \in DOMAIN vms' /\ (st'.kv[<<i, "state">>].val = "paused" <=> vms'[i] = "paused")
        BY <1>7, <1>11, <3>1
      <3> QED  BY <3>2 DEF MatchOK, Sys
    <2> QED  BY <1>8, <1>9, <2>1, <2>2
  <1>12. CASE /\ {"meta", "state", "node"} \subseteq F /\ st' = w
              /\ live' = Bind(live, id, [lease |-> l, ttl |-> now + ttl])
              /\ vms' = Bind(vms, id, "running")
    <2>1. /\ DOMAIN live' = DOMAIN live \cup {id} /\ live'[id].lease = l
          /\ \A i \in DOMAIN live : live'[i] = live[i]
      BY <1>6, <1>12 DEF Bind
    <2>2. /\ DOMAIN vms' = DOMAIN vms \cup {id} /\ vms'[id] = "running"
          /\ \A i \in DOMAIN vms : i # id => vms'[i] = vms[i]
      BY <1>12 DEF Bind
    <2>3. /\ KeyOn(st', id, "meta", l) /\ KeyOn(st', id, "state", l) /\ KeyOn(st', id, "node", l)
          /\ st'.kv[<<id, "node">>].val = gen /\ st'.kv[<<id, "state">>].val = "running"
      <3>1. "meta" \in F /\ "state" \in F /\ "node" \in F
        BY <1>12
      <3>2. NewRecord["node"] = gen /\ NewRecord["state"] = "running"
        BY DEF NewRecord
      <3> QED  BY <1>5, <1>12, <3>1, <3>2 DEF Puts
    <2>4. ASSUME NEW k \in DOMAIN st'.kv, st'.kv[k].lease = l PROVE k[1] = id
      <3>1. k[1] = id \/ (k \in DOMAIN st.kv /\ st'.kv[k] = st.kv[k])
        BY <1>4, <1>5, <1>12, <2>4 DEF Puts
      <3> QED  BY <1>4, <2>4, <3>1 DEF StoreOK
    <2>5. l \in DOMAIN st'.leases
      BY <1>4, <1>5, <1>12 DEF Puts
    <2>6. Recorded(st', id, l)
      BY <2>3, <2>4, <2>5 DEF Recorded
    <2>7. ASSUME NEW i \in DOMAIN live' PROVE Recorded(st', i, live'[i].lease)
      <3>1. CASE i = id
        BY <2>1, <2>6, <3>1
      <3>2. CASE i # id
        <4>1. i \in DOMAIN live /\ live'[i] = live[i]
          BY <2>1, <3>2
        <4> QED  BY <1>7, <4>1
      <3> QED  BY <3>1, <3>2
    <2>8. \A i, j \in DOMAIN live' : live'[j].lease = live'[i].lease => j = i
      <3>1. \A i \in DOMAIN live : live[i].lease # l
        BY <1>7
      <3> QED  BY <1>10, <2>1, <3>1
    <2>9. LedgerOK(Sys')
      BY <1>0, <2>7, <2>8 DEF LedgerOK
    <2>10. ASSUME MatchOK(Sys) PROVE MatchOK(Sys')
      <3> SUFFICES ASSUME NEW i \in DOMAIN live'
                   PROVE  i \in DOMAIN vms' /\ (st'.kv[<<i, "state">>].val = "paused" <=> vms'[i] = "paused")
        BY <1>0 DEF MatchOK
      <3>1. CASE i = id
        BY <2>2, <2>3, <3>1
      <3>2. CASE i # id
        <4>1. i \in DOMAIN live
          BY <2>1, <3>2
        <4>2. i \in DOMAIN vms /\ (st.kv[<<i, "state">>].val = "paused" <=> vms[i] = "paused")
          BY <1>0, <2>10, <4>1 DEF MatchOK
        <4>3. i \in DOMAIN vms' /\ vms'[i] = vms[i]
          BY <2>2, <3>2, <4>2
        <4> QED  BY <1>7, <4>1, <4>2, <4>3
      <3> QED  BY <3>1, <3>2
    <2> QED  BY <1>8, <1>9, <2>9, <2>10
  <1> QED
    BY <1>3, <1>11, <1>12 DEF Registers

\* pause and resume write keys of a record that exists.
LEMMA PutLedger ==
  ASSUME LedgerOK(Sys), RetainOK(st), NEW id \in DOMAIN live, NEW F, "node" \notin F, NEW val,
         st' = PutKeys(st, id, F, live[id].lease, val), live' = live,
         "retain" \in F => val["retain"] \in Nat /\ val["retain"] >= Retention
  PROVE  /\ LedgerOK(Sys') /\ RetainOK(st')
         /\ "state" \in F => st'.kv[<<id, "state">>].val = val["state"]
         /\ "state" \notin F => st'.kv[<<id, "state">>] = st.kv[<<id, "state">>]
         /\ \A i \in DOMAIN live \ {id} : st'.kv[<<i, "state">>] = st.kv[<<i, "state">>]
  <1> USE Zenon
  <1>0. Sys.live = live /\ Sys.st = st /\ Sys'.live = live' /\ Sys'.st = st'
    BY DEF Sys
  <1>1. PICK l : l = live[id].lease
    OBVIOUS
  <1>2. \A i \in DOMAIN live : Recorded(st, i, live[i].lease)
    BY <1>0 DEF LedgerOK
  <1>3. \A i, j \in DOMAIN live : live[j].lease = live[i].lease => j = i
    BY <1>0 DEF LedgerOK
  <1>4. Recorded(st, id, l)
    BY <1>1, <1>2
  <1>5. l \in DOMAIN st.leases
    BY <1>4 DEF Recorded
  <1>6. Puts(st, st', id, F, l, val)
    BY <1>1, <1>5, PutKeysExact
  <1>7. ASSUME NEW i \in DOMAIN live PROVE Recorded(st', i, live[i].lease)
    <2>1. CASE i = id
      BY <1>1, <1>4, <1>6, <2>1, PutOwn
    <2>2. CASE i # id
      <3>1. live[i].lease # l
        BY <1>1, <1>3, <2>2
      <3>2. Recorded(st, i, live[i].lease)
        BY <1>2
      <3> QED  BY <1>6, <2>2, <3>1, <3>2, PutKeeps, SMT
    <2> QED  BY <2>1, <2>2
  <1>8. LedgerOK(Sys')
    <2>1. PICK t : t = Sys' /\ t.live = live /\ t.st = st'
      BY <1>0
    <2> QED  BY <1>3, <1>7, <2>1 DEF LedgerOK
  <1>9. ASSUME NEW i, <<i, "retain">> \in DOMAIN st'.kv
        PROVE  st'.kv[<<i, "retain">>].val \in Nat /\ st'.kv[<<i, "retain">>].val >= Retention
    <2>1. CASE i = id /\ "retain" \in F
      BY <1>6, <2>1 DEF Puts
    <2>2. CASE i # id \/ "retain" \notin F
      <3>1. <<i, "retain">> \in DOMAIN st.kv /\ st'.kv[<<i, "retain">>] = st.kv[<<i, "retain">>]
        BY <1>6, <1>9, <2>2 DEF Puts
      <3> QED  BY <3>1 DEF RetainOK
    <2> QED  BY <2>1, <2>2
  <1>10. RetainOK(st')
    BY <1>9 DEF RetainOK
  <1>11. \A i \in DOMAIN live : <<i, "state">> \in DOMAIN st.kv
    BY <1>2 DEF Recorded, KeyOn
  <1>12. "state" \in F => st'.kv[<<id, "state">>].val = val["state"]
    BY <1>6 DEF Puts
  <1>13. "state" \notin F => st'.kv[<<id, "state">>] = st.kv[<<id, "state">>]
    BY <1>6, <1>11 DEF Puts
  <1>14. ASSUME NEW i \in DOMAIN live \ {id} PROVE st'.kv[<<i, "state">>] = st.kv[<<i, "state">>]
    <2>1. i \in DOMAIN live /\ i # id
      OBVIOUS
    <2> QED  BY <1>6, <1>11, <2>1 DEF Puts
  <1> QED
    BY <1>8, <1>10, <1>12, <1>13, <1>14

\* The state key and the instance change together.
LEMMA MatchMoves ==
  ASSUME MatchOK(Sys), live' = live, NEW id \in DOMAIN live, NEW x, vms' = [vms EXCEPT ![id] = x],
         st'.kv[<<id, "state">>].val = "paused" <=> x = "paused",
         \A i \in DOMAIN live \ {id} : st'.kv[<<i, "state">>] = st.kv[<<i, "state">>]
  PROVE  MatchOK(Sys')
  <1> USE Zenon
  <1>0. /\ Sys.live = live /\ Sys.st = st /\ Sys.vms = vms
        /\ Sys'.live = live /\ Sys'.st = st' /\ Sys'.vms = vms'
    BY DEF Sys
  <1>1. \A i \in DOMAIN live : i \in DOMAIN vms /\ (st.kv[<<i, "state">>].val = "paused" <=> vms[i] = "paused")
    BY <1>0 DEF MatchOK
  <1>2. DOMAIN vms' = DOMAIN vms /\ vms'[id] = x /\ \A i \in DOMAIN vms \ {id} : vms'[i] = vms[i]
    BY <1>1
  <1>3. ASSUME NEW i \in DOMAIN live
        PROVE  i \in DOMAIN vms' /\ (st'.kv[<<i, "state">>].val = "paused" <=> vms'[i] = "paused")
    <2>1. CASE i = id
      BY <1>1, <1>2, <2>1
    <2>2. CASE i # id
      <3>1. i \in DOMAIN live \ {id}
        BY <2>2
      <3>2. i \in DOMAIN vms \ {id}
        <4>1. i \in DOMAIN vms
          BY <1>1
        <4> QED  BY <2>2, <4>1
      <3>3. vms'[i] = vms[i] /\ st'.kv[<<i, "state">>] = st.kv[<<i, "state">>] /\ i \in DOMAIN vms'
        BY <1>2, <3>1, <3>2
      <3> QED  BY <1>1, <3>3
    <2> QED  BY <2>1, <2>2
  <1> QED
    BY <1>0, <1>3 DEF MatchOK

LedgerInv ==
    /\ LedgerOK(Sys) /\ RetainOK(st) /\ now \in Nat /\ now <= MaxTime
    /\ faults \in Nat /\ (faults = 0 => MatchOK(Sys))

\* pause: the instance and, unless a put fails, its record.
LEMMA PauseLedger ==
  ASSUME LedgerInv, NEW id, Pause(id)
  PROVE  LedgerOK(Sys') /\ RetainOK(st') /\ faults' \in Nat /\ (faults' = 0 => MatchOK(Sys'))
  <1> USE Zenon
  <1>1. id \in DOMAIN live /\ live' = live
    BY DEF Pause
  <1>2. ASSUME NEW F \in SUBSET {"state", "retain", "size"}, NEW val,
               val = [state |-> "paused", retain |-> now + Retention, size |-> 1],
               F # {"state", "retain", "size"} => Fault,
               F = {"state", "retain", "size"} => UNCHANGED faults,
               st' = PutKeys(st, id, F, live[id].lease, val),
               vms' = [vms EXCEPT ![id] = "paused"]
        PROVE  LedgerOK(Sys') /\ RetainOK(st') /\ faults' \in Nat /\ (faults' = 0 => MatchOK(Sys'))
    <2>1. "node" \notin F /\ val["state"] = "paused" /\ val["retain"] \in Nat /\ val["retain"] >= Retention
      BY <1>2, OrchAssumption, SMT DEF LedgerInv
    <2>0. LedgerOK(Sys) /\ RetainOK(st)
      BY DEF LedgerInv
    <2>2. /\ LedgerOK(Sys') /\ RetainOK(st')
          /\ "state" \in F => st'.kv[<<id, "state">>].val = val["state"]
          /\ \A i \in DOMAIN live \ {id} : st'.kv[<<i, "state">>] = st.kv[<<i, "state">>]
      BY <1>1, <1>2, <2>0, <2>1, PutLedger, ZenonT(30)
    <2>3. faults' \in Nat /\ (faults' = 0 => faults = 0 /\ "state" \in F)
      BY <1>2, SMT DEF Fault, LedgerInv
    <2>4. ASSUME faults' = 0 PROVE MatchOK(Sys')
      <3>1. MatchOK(Sys) /\ st'.kv[<<id, "state">>].val = "paused"
        BY <2>1, <2>2, <2>3, <2>4 DEF LedgerInv
      <3> QED  BY <1>1, <1>2, <2>2, <3>1, MatchMoves
    <2> QED  BY <2>2, <2>3, <2>4
  <1>3. CASE Fault /\ st' = st
    <2>1. LedgerOK(Sys')
      BY <1>1, <1>3, LedgerSame DEF Sys, LedgerInv
    <2>2. RetainOK(st') /\ faults' \in Nat /\ faults' # 0
      BY <1>3, SMT DEF Fault, LedgerInv
    <2> QED  BY <2>1, <2>2
  <1> QED
    BY <1>2, <1>3 DEF Pause

\* resume: the same.
LEMMA ResumeLedger ==
  ASSUME LedgerInv, NEW id, Resume(id)
  PROVE  LedgerOK(Sys') /\ RetainOK(st') /\ faults' \in Nat /\ (faults' = 0 => MatchOK(Sys'))
  <1> USE Zenon
  <1>1. id \in DOMAIN live /\ live' = live /\ vms' = [vms EXCEPT ![id] = "running"]
    BY DEF Resume
  <1>2. CASE st' = PutKeys(st, id, {"state"}, live[id].lease, NewRecord) /\ UNCHANGED faults
    <2>1. PICK F, val : F = {"state"} /\ val = NewRecord
      OBVIOUS
    <2>2. "node" \notin F /\ "retain" \notin F /\ "state" \in F /\ val["state"] = "running"
      BY <2>1 DEF NewRecord
    <2>3. /\ LedgerOK(Sys') /\ RetainOK(st') /\ st'.kv[<<id, "state">>].val = "running"
          /\ \A i \in DOMAIN live \ {id} : st'.kv[<<i, "state">>] = st.kv[<<i, "state">>]
      BY <1>1, <1>2, <2>1, <2>2, PutLedger DEF LedgerInv
    <2>4. ASSUME faults' = 0 PROVE MatchOK(Sys')
      <3>1. MatchOK(Sys)
        BY <1>2, <2>4 DEF LedgerInv
      <3>2. "running" # "paused"
        OBVIOUS
      <3> QED  BY <1>1, <2>3, <3>1, <3>2, MatchMoves
    <2> QED  BY <1>2, <2>3, <2>4 DEF LedgerInv
  <1>3. CASE Fault /\ st' = st
    <2>1. LedgerOK(Sys')
      BY <1>1, <1>3, LedgerSame DEF Sys, LedgerInv
    <2>2. RetainOK(st') /\ faults' \in Nat /\ faults' # 0
      BY <1>3, SMT DEF Fault, LedgerInv
    <2> QED  BY <2>1, <2>2
  <1> QED
    BY <1>2, <1>3 DEF Resume

\* Everything else only takes away, or touches neither ledger nor record.
LEMMA LessLedger ==
  ASSUME LedgerInv, Less(Sys, Sys'), LedgerOK(Sys'), faults' = faults \/ faults' = faults + 1
  PROVE  LedgerOK(Sys') /\ RetainOK(st') /\ faults' \in Nat /\ (faults' = 0 => MatchOK(Sys'))
  <1> USE Zenon
  <1>1. Sys.st = st /\ Sys'.st = st'
    BY DEF Sys
  <1>2. RetainOK(st')
    BY <1>1, LessRetain DEF LedgerInv
  <1>3. faults' \in Nat /\ (faults' = 0 => faults = 0)
    BY SMT DEF LedgerInv
  <1>4. faults' = 0 => MatchOK(Sys')
    BY <1>3, LessMatch DEF LedgerInv
  <1> QED
    BY <1>2, <1>3, <1>4

\* Only AdvanceTime moves the clock, and only Restart the generation.
LEMMA ClockStep ==
  ASSUME [Next]_vars
  PROVE  (now' = now \/ (now < MaxTime /\ now' = now + 1)) /\ (gen' = gen \/ DOMAIN live' = {})
  <1> USE Zenon
  <1>1. ASSUME NEW id, Create(id) \/ \E p \in Ids : Fork(p, id) PROVE now' = now /\ gen' = gen
    <2>1. PICK ttl, idle : Register(id, ttl, idle)
      BY <1>1 DEF Create, Fork
    <2> QED  BY <2>1 DEF Register
  <1>2. ASSUME NEW id, Pause(id) \/ Resume(id) \/ Keepalive(id) \/ Destroy(id) PROVE now' = now /\ gen' = gen
    BY <1>2 DEF Pause, Resume, Keepalive, Destroy, rest
  <1>3. CASE ReaperRound
    BY <1>3 DEF ReaperRound, rest
  <1>4. CASE AdvanceTime \/ Heartbeat \/ \E g \in beats : HeartbeatLost(g)
    BY <1>4 DEF AdvanceTime, Heartbeat, HeartbeatLost
  <1>5. CASE Restart
    BY <1>5 DEF Restart, EmptyMap
  <1>6. CASE \E l \in DOMAIN st.leases : ServerExpires(l)
    BY <1>6 DEF ServerExpires, rest
  <1>7. CASE UNCHANGED vars
    BY <1>7 DEF vars
  <1> QED
    BY <1>1, <1>2, <1>3, <1>4, <1>5, <1>6, <1>7 DEF Next

\* Every step keeps the records of the live sandboxes.
LEMMA LedgerStep ==
  ASSUME SingleNode, Good(Sys), KeysOK(Sys, used), LedgerInv, [Next]_vars
  PROVE  LedgerInv'
  <1> USE Zenon
  <1> DEFINE Goal == LedgerOK(Sys') /\ RetainOK(st') /\ faults' \in Nat /\ (faults' = 0 => MatchOK(Sys'))
  <1>0. /\ Sys.live = live /\ Sys.st = st /\ Sys.vms = vms
        /\ Sys'.live = live' /\ Sys'.st = st' /\ Sys'.vms = vms'
    BY DEF Sys
  <1>1. ASSUME NEW id, NEW ttl, NEW idle, Register(id, ttl, idle) PROVE Goal
    <2>1. /\ LedgerOK(Sys') /\ RetainOK(st') /\ (faults' = faults \/ faults' = faults + 1)
          /\ (MatchOK(Sys) => MatchOK(Sys'))
      BY <1>1, RegisterLedger DEF LedgerInv
    <2>2. faults' \in Nat /\ (faults' = 0 => faults = 0)
      BY <2>1, SMT DEF LedgerInv
    <2> QED  BY <2>1, <2>2 DEF LedgerInv
  <1>2. ASSUME st'.kv = st.kv, DOMAIN st'.leases = DOMAIN st.leases, live' = live, vms' = vms, faults' = faults
        PROVE  Goal
    <2>1. LedgerOK(Sys')
      <3>1. ASSUME NEW i \in DOMAIN live PROVE Recorded(st', i, live[i].lease)
        <4>1. Recorded(st, i, live[i].lease)
          BY <1>0 DEF LedgerInv, LedgerOK
        <4> QED  BY <1>2, <4>1 DEF Recorded, KeyOn
      <3>2. \A i, j \in DOMAIN live : live[j].lease = live[i].lease => j = i
        BY <1>0 DEF LedgerInv, LedgerOK
      <3>3. PICK t : t = Sys' /\ t.live = live /\ t.st = st'
        BY <1>0, <1>2
      <3> QED  BY <3>1, <3>2, <3>3 DEF LedgerOK
    <2>2. RetainOK(st')
      BY <1>2 DEF RetainOK, LedgerInv
    <2>3. ASSUME faults' = 0 PROVE MatchOK(Sys')
      <3>1. MatchOK(Sys)
        BY <1>2, <2>3 DEF LedgerInv
      <3>2. PICK s, t : s = Sys /\ t = Sys' /\ t.live = s.live /\ t.vms = s.vms /\ t.st.kv = s.st.kv
        BY <1>0, <1>2
      <3> QED  BY <3>1, <3>2 DEF MatchOK
    <2> QED  BY <1>2, <2>1, <2>2, <2>3 DEF LedgerInv
  <1>3. ASSUME NEW id \in Ids, Keepalive(id) PROVE Goal
    <2>1. st'.kv = st.kv /\ DOMAIN st'.leases = DOMAIN st.leases /\ live' = live /\ vms' = vms /\ faults' = faults
      BY <1>3 DEF Keepalive, LeaseKeepalive, Bind
    <2> QED  BY <1>2, <2>1
  <1>4. ASSUME NEW id \in Ids, Destroy(id) PROVE Goal
    <2>1. PICK t : Become(t) /\ (t = Destroyed(Sys, {id}) \/ t = Kill(Sys, {id}))
      BY <1>4 DEF Destroy
    <2>2. {id} \subseteq DOMAIN Sys.live /\ (faults' = faults \/ faults' = faults + 1)
      BY <1>0, <1>4 DEF Destroy, Fault
    <2>3. LedgerOK(Destroyed(Sys, {id})) /\ LedgerOK(Kill(Sys, {id}))
      <3>1. LedgerOK(Sys)
        BY DEF LedgerInv
      <3>2. PICK k : k = Kill(Sys, {id})
        OBVIOUS
      <3>3. /\ k.st = Sys.st /\ DOMAIN k.live \subseteq DOMAIN Sys.live
            /\ \A i \in DOMAIN k.live : k.live[i] = Sys.live[i]
        <4>1. Kill(Sys, {id}).st = Sys.st
          BY KillExact
        <4>2. /\ DOMAIN Kill(Sys, {id}).live = DOMAIN Sys.live \ {id}
              /\ \A i \in DOMAIN Kill(Sys, {id}).live : Kill(Sys, {id}).live[i] = Sys.live[i]
          BY Killed
        <4> QED  BY <3>2, <4>1, <4>2
      <3>4. LedgerOK(k)
        BY <3>1, <3>3, LedgerSame
      <3> QED  BY <2>2, <3>1, <3>2, <3>4, DestroyedLedger
    <2>4. Less(Sys, t) /\ LedgerOK(t)
      BY <2>1, <2>3, DestroyedLess, KillLess
    <2>5. Sys'.st = t.st /\ Sys'.live = t.live /\ Sys'.vms = t.vms
      BY <1>0, <2>1 DEF Become
    <2>6. Less(t, Sys') /\ LedgerOK(Sys')
      BY <2>4, <2>5, LedgerSame DEF Less
    <2>7. Less(Sys, Sys')
      BY <2>4, <2>6, LessTrans
    <2> QED  BY <2>2, <2>6, <2>7, LessLedger
  <1>5. ASSUME ReaperRound PROVE Goal
    <2>1. Less(Sys, Sys') /\ LedgerOK(Sys')
      BY <1>5, ReaperLess, ReaperLedger DEF LedgerInv
    <2>2. faults' = faults \/ faults' = faults + 1
      BY <1>5 DEF ReaperRound, Fault
    <2> QED  BY <2>1, <2>2, LessLedger
  <1>6. ASSUME Restart PROVE Goal
    <2>1. DOMAIN live' = {} /\ st' = st /\ faults' = faults
      BY <1>6 DEF Restart, EmptyMap
    <2>2. LedgerOK(Sys') /\ MatchOK(Sys')
      BY <1>0, <2>1 DEF LedgerOK, MatchOK
    <2> QED  BY <2>1, <2>2 DEF LedgerInv
  <1>7. ASSUME NEW l, ServerExpires(l) PROVE FALSE
    BY <1>7 DEF ServerExpires, SingleNode
  <1>8. Goal
    <2>1. ASSUME NEW id \in Ids, Create(id) \/ \E p \in Ids : Fork(p, id) PROVE Goal
      BY <1>1, <2>1 DEF Create, Fork
    <2>2. ASSUME NEW id \in Ids, Pause(id) \/ Resume(id) PROVE Goal
      BY <2>2, PauseLedger, ResumeLedger
    <2>3. CASE AdvanceTime \/ Heartbeat \/ \E g \in beats : HeartbeatLost(g)
      BY <1>2, <2>3 DEF AdvanceTime, Heartbeat, HeartbeatLost
    <2>4. CASE UNCHANGED vars
      BY <1>2, <2>4 DEF vars
    <2> HIDE DEF Goal
    <2> QED  BY <1>3, <1>4, <1>5, <1>6, <1>7, <2>1, <2>2, <2>3, <2>4, SMT DEF Next
  <1>9. now' \in Nat /\ now' <= MaxTime
    BY ClockStep, OrchAssumption, SMT DEF LedgerInv
  <1>10. LedgerOK(Sys)'
    <2>1. CASE gen' = gen
      <3>1. PICK s : s = Sys' /\ LedgerOK(s)
        BY <1>8
      <3>2. (\A i \in DOMAIN s.live : Recorded(s.st, i, s.live[i].lease))
            /\ (\A i, j \in DOMAIN s.live : s.live[j].lease = s.live[i].lease => j = i)
        BY <3>1 DEF LedgerOK
      <3>3. ASSUME NEW i \in DOMAIN s.live PROVE Recorded(s.st, i, s.live[i].lease)'
        BY <2>1, <3>2 DEF Recorded, KeyOn
      <3>4. LedgerOK(s)'
        BY <3>2, <3>3 DEF LedgerOK
      <3> QED  BY <3>1, <3>4
    <2>2. CASE DOMAIN live' = {}
      BY <1>0, <2>2 DEF LedgerOK
    <2> QED  BY <2>1, <2>2, ClockStep
  <1> QED
    BY <1>8, <1>9, <1>10 DEF LedgerInv

\* The records of the live sandboxes are there from the start.
LEMMA LedgerHolds == ASSUME SingleNode PROVE Spec => []LedgerInv
  <1> USE Zenon
  <1>1. Init => LedgerInv
    <2> SUFFICES ASSUME Init PROVE LedgerInv
      OBVIOUS
    <2>1. DOMAIN live = {} /\ DOMAIN st.kv = {}
      BY DEF Init, EmptyStore, EmptyMap
    <2>s. Sys.live = live /\ Sys.st = st
      BY DEF Sys
    <2>2. LedgerOK(Sys) /\ RetainOK(st) /\ MatchOK(Sys)
      BY <2>1, <2>s DEF LedgerOK, RetainOK, MatchOK
    <2>3. now \in Nat /\ now <= MaxTime /\ faults \in Nat
      BY OrchAssumption, SMT DEF Init
    <2> QED  BY <2>2, <2>3 DEF LedgerInv
  <1>2. Good(Sys) /\ KeysOK(Sys, used) /\ LedgerInv /\ [Next]_vars => LedgerInv'
    BY LedgerStep
  <1> QED
    BY <1>1, <1>2, AlwaysGood, AlwaysKeys, PTL DEF Spec

\* On one node with SQLite the meta, state and node keys of a live sandbox are
\* in the store on the lease of the ledger, which exists: neither the sweep,
\* nor the destruction of another sandbox, nor reclaim_orphans after any number
\* of restarts takes them, as long as no retention period has run out.
THEOREM LiveHasRecord == ASSUME SingleNode PROVE Spec => []LiveRecorded
  <1> USE Zenon
  <1>1. LedgerInv => LiveRecorded
    <2> SUFFICES ASSUME LedgerOK(Sys), NEW i \in DOMAIN live
                 PROVE  /\ live[i].lease \in DOMAIN st.leases
                        /\ \A f \in {"meta", "state", "node"} :
                              HasKey(st, i, f) /\ st.kv[<<i, f>>].lease = live[i].lease
      BY DEF LiveRecorded, LedgerInv
    <2>1. Recorded(st, i, live[i].lease)
      BY DEF LedgerOK, Sys
    <2> QED  BY <2>1 DEF Recorded, KeyOn, HasKey
  <1> QED
    BY <1>1, LedgerHolds, PTL

\* In the same setting, and until a call fails, the state key of a live
\* sandbox says paused exactly when its instance is.
THEOREM StateKeyIsTrue == ASSUME SingleNode PROVE Spec => []StateMatches
  <1>1. LedgerInv => StateMatches
    BY Zenon DEF LedgerInv, MatchOK, StateMatches, Sys
  <1> QED
    BY <1>1, LedgerHolds, PTL
=============================================================================
