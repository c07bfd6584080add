----------------------------- MODULE LeaseStore -----------------------------
(***************************************************************************)
(* What the control plane sees of the `Store` trait: keys with a value and *)
(* an optional lease, and leases with an expiry instant.  A store is a     *)
(* record and every operation is an operator on it, so a handler that      *)
(* makes several calls is the composition of their operators.  Revisions,  *)
(* events and watchers are the subject of SqliteStore.                     *)
(*                                                                         *)
(*   s.kv      key -> [val, lease]     the keys that exist                 *)
(*   s.leases  id -> [ttl, expires]    the leases that exist               *)
(*   s.next    next lease id an etcd server hands out                      *)
(***************************************************************************)
EXTENDS Naturals, FiniteSetsExt, Maps

CONSTANT Etcd  \* TRUE: EtcdStore (cluster), FALSE: SqliteStore (single node)

ASSUME EtcdAssumption == Etcd \in BOOLEAN

NoLease == 0

EmptyStore == [kv |-> EmptyMap, leases |-> EmptyMap, next |-> 1]

KeysOf(s, L) == {k \in DOMAIN s.kv : s.kv[k].lease \in L}

\* put refuses a lease that does not exist.
PutOk(s, l) == l = NoLease \/ l \in DOMAIN s.leases

\* Mutant of NewLease: no + 1.
NewLeaseMax(s) == Max(DOMAIN s.leases \cup {0})

\* SQLite takes the largest id present plus one, so an id comes back once the
\* leases above it are gone; an etcd server never hands out an id twice.
NewLease(s) == IF Etcd THEN s.next ELSE Max(DOMAIN s.leases \cup {0}) + 1

LeaseGrant(s, ttl, now) ==
    [kv     |-> s.kv,
     leases |-> Bind(s.leases, NewLease(s), [ttl |-> ttl, expires |-> now + ttl]),
     next   |-> IF Etcd THEN s.next + 1 ELSE s.next]

\* For a lease that exists; NoSuchLease otherwise.
LeaseKeepalive(s, l, now) ==
    [kv     |-> s.kv,
     leases |-> Bind(s.leases, l, [ttl |-> s.leases[l].ttl, expires |-> now + s.leases[l].ttl]),
     next   |-> s.next]

\* Mutant of ReapLeases: the keys stay.
ReapLeasesOnly(s, L) == [kv |-> s.kv, leases |-> Drop(s.leases, L), next |-> s.next]

\* Leases L and every key attached to one of them disappear together.
ReapLeases(s, L) ==
    [kv     |-> Drop(s.kv, KeysOf(s, L \cap DOMAIN s.leases)),
     leases |-> Drop(s.leases, L),
     next   |-> s.next]

LeaseRevoke(s, l) == ReapLeases(s, {l})

Expired(s, now) == {l \in DOMAIN s.leases : s.leases[l].expires <= now}

\* lease_sweep is a no-op on etcd, whose server expires leases by itself.
LeaseSweep(s, now) == IF Etcd THEN s ELSE ReapLeases(s, Expired(s, now))

SweptKeys(s, now) == IF Etcd THEN {} ELSE KeysOf(s, Expired(s, now))
=============================================================================
