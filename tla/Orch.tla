-------------------------------- MODULE Orch --------------------------------
(***************************************************************************)
(* The orchestrator of one node (sl-node/orch.rs) with the store it writes *)
(* to, the backend instances it owns and the reaper thread of `serve`.     *)
(* Every handler runs under the orchestrator's mutex, so it is one action; *)
(* its store and backend calls may fail one by one.  A project has tagged  *)
(* all sandboxes; encryption of snapshots is off (no --snap-kms-key).      *)
(*                                                                         *)
(*   st       the store; a sandbox's keys are <<id, "meta">>, ...          *)
(*   live     Orch.live: id -> [lease, ttl], ttl the absolute deadline     *)
(*   vms      instances of the backend: id -> "running" | "paused" |       *)
(*            "frozen" (vCPUs stopped by a pause that failed afterwards)   *)
(*   now      the clock                                                    *)
(*   gen      generation of this process; its node id is addr#pid          *)
(*   beats    generations whose heartbeat key node/<id> exists             *)
(*   used     ids given out (random, never repeated)                       *)
(*   lost     instances that were running when the process died            *)
(*   faults   failed calls so far, at most MaxFaults                       *)
(***************************************************************************)
EXTENDS LeaseStore

CONSTANTS
    Ids,             \* sandbox ids
    Ttls, Idles,     \* ttl and idle values a client may ask for
    Retention,       \* DEFAULT_RETENTION_SECS
    MaxSandboxes,    \* quota of the project, 0 = unlimited
    MaxStorage,      \* the same for snapshots, each counted as 1
    MaxTime,         \* bound: the clock stops here
    MaxFaults,       \* bound on failed calls
    MaxRestarts      \* bound on restarts of the daemon

ASSUME OrchAssumption ==
    /\ Ttls \subseteq Nat /\ Idles \subseteq Nat /\ Retention \in Nat
    /\ MaxSandboxes \in Nat /\ MaxStorage \in Nat
    /\ MaxTime \in Nat /\ MaxFaults \in Nat /\ MaxRestarts \in Nat

VARIABLES st, live, vms, now, gen, beats, used, lost, faults

vars == <<st, live, vms, now, gen, beats, used, lost, faults>>

Init ==
    /\ st = EmptyStore /\ live = EmptyMap /\ vms = EmptyMap
    /\ now = 0 /\ gen = 0 /\ beats = {0}
    /\ used = {} /\ lost = {} /\ faults = 0

\* The part of the state a handler works on, as one value.
Sys == [st |-> st, live |-> live, vms |-> vms]

Become(s) == st' = s.st /\ live' = s.live /\ vms' = s.vms

Fault == faults < MaxFaults /\ faults' = faults + 1

rest == <<now, gen, beats, used, lost>>
-----------------------------------------------------------------------------
\* quota::usage: tagged sandboxes with a meta key, and their snapshots.
HasKey(s, id, f) == <<id, f>> \in DOMAIN s.kv

Counted(s) == {i \in Ids : HasKey(s, i, "project") /\ HasKey(s, i, "meta")}

Stored(s) == {i \in Ids : HasKey(s, i, "project") /\ HasKey(s, i, "size")}

\* Mutant of CheckQuota: the sandbox to come is not counted.
CheckQuotaCurrent(s, addStorage) ==
    /\ MaxSandboxes > 0 => Cardinality(Counted(s)) <= MaxSandboxes
    /\ MaxStorage > 0 => Cardinality(Stored(s)) + addStorage <= MaxStorage

\* quota::check: one more sandbox is assumed whatever the operation is.
CheckQuota(s, addStorage) ==
    /\ MaxSandboxes > 0 => Cardinality(Counted(s)) + 1 <= MaxSandboxes
    /\ MaxStorage > 0 => Cardinality(Stored(s)) + addStorage <= MaxStorage

\* Mutant of PutKeys: the keys are not attached to the lease.
PutKeysUnleased(s, id, F, l, val) ==
    [kv     |-> [k \in DOMAIN s.kv \cup ({id} \X F) |->
                    IF k \in {id} \X F THEN [val |-> val[k[2]], lease |-> NoLease] ELSE s.kv[k]],
     leases |-> s.leases,
     next   |-> s.next]

\* Several puts under one lease: the keys F of sandbox id.
PutKeys(s, id, F, l, val) ==
    IF PutOk(s, l)
    THEN [kv     |-> [k \in DOMAIN s.kv \cup ({id} \X F) |->
                        IF k \in {id} \X F THEN [val |-> val[k[2]], lease |-> l] ELSE s.kv[k]],
          leases |-> s.leases,
          next   |-> s.next]
    ELSE s

\* What register writes, in this order; the version pin is left out (same
\* lease, no effect on anything here).
Registered == <<"meta", "state", "node">>

NewRecord == [meta |-> "meta", state |-> "running", node |-> gen, project |-> "project"]

\* register + tag_project after the backend made an instance.  The first n
\* puts succeed; n < 3 rolls back, a failing revoke leaves what was written.
\* With n = 3 the sandbox is live, and tagged unless that put fails.
Register(id, ttl, idle) ==
    LET l == NewLease(st)
        granted == LeaseGrant(st, idle, now)
        wrote(F) == PutKeys(granted, id, F, l, NewRecord)
        all == {"meta", "state", "node"}
    IN
    /\ id \notin used /\ now + ttl <= MaxTime /\ now + idle <= MaxTime
    /\ used' = used \cup {id}
    /\ \/ /\ \/ st' = wrote(all \cup {"project"}) /\ UNCHANGED faults
             \/ st' = wrote(all) /\ Fault
          /\ live' = Bind(live, id, [lease |-> l, ttl |-> now + ttl])
          /\ vms' = Bind(vms, id, "running")
       \/ /\ Fault
          /\ \E n \in 0..2 :
                LET F == {Registered[i] : i \in 1..n}
                IN  st' \in {wrote(F), LeaseRevoke(wrote(F), l)}
          /\ UNCHANGED <<live, vms>>
    /\ UNCHANGED <<now, gen, beats, lost>>

Create(id) ==
    /\ CheckQuota(st, 0)
    /\ \E ttl \in Ttls, idle \in Idles : Register(id, ttl, idle)

\* The backend forks from the snapshot of a paused parent.
Fork(parent, id) ==
    /\ parent \in DOMAIN live /\ vms[parent] = "paused"
    /\ CheckQuota(st, 0)
    /\ \E ttl \in Ttls, idle \in Idles : Register(id, ttl, idle)

\* backends[idx].pause, then three puts whose results are ignored.
Pause(id) ==
    /\ id \in DOMAIN live
    /\ HasKey(st, id, "project") => CheckQuota(st, 1)
    /\ \/ \E F \in SUBSET {"state", "retain", "size"} :
            /\ F # {"state", "retain", "size"} => Fault
            /\ F = {"state", "retain", "size"} => UNCHANGED faults
            /\ st' = PutKeys(st, id, F, live[id].lease,
                             [state |-> "paused", retain |-> now + Retention, size |-> 1])
            /\ vms' = [vms EXCEPT ![id] = "paused"]
       \/ /\ vms[id] # "paused" /\ Fault
          /\ vms' \in {vms, [vms EXCEPT ![id] = "frozen"]}
          /\ UNCHANGED st
    /\ UNCHANGED <<rest, live>>

\* Mutant of Resume: the state key stays paused.
ResumeSilent(id) ==
    /\ id \in DOMAIN live /\ vms[id] = "paused"
    /\ vms' = [vms EXCEPT ![id] = "running"]
    /\ UNCHANGED <<rest, live, st, faults>>

\* backends[idx].resume, then one put whose result is ignored; the retain
\* and size keys stay.
Resume(id) ==
    /\ id \in DOMAIN live /\ vms[id] = "paused"
    /\ vms' = [vms EXCEPT ![id] = "running"]
    /\ \/ st' = PutKeys(st, id, {"state"}, live[id].lease, NewRecord) /\ UNCHANGED faults
       \/ UNCHANGED st /\ Fault
    /\ UNCHANGED <<rest, live>>

\* keepalive slides the idle window; the TTL deadline stays.
Keepalive(id) ==
    /\ id \in DOMAIN live /\ live[id].lease \in DOMAIN st.leases
    /\ now + st.leases[live[id].lease].ttl <= MaxTime
    /\ st' = LeaseKeepalive(st, live[id].lease, now)
    /\ UNCHANGED <<rest, live, vms, faults>>
-----------------------------------------------------------------------------
\* Mutant of Kill: the instance is not destroyed.
KillLedgerOnly(s, D) == [st |-> s.st, live |-> Drop(s.live, D), vms |-> s.vms]

\* live.remove and backend.destroy, which cannot fail.
Kill(s, D) == [st |-> s.st, live |-> Drop(s.live, D), vms |-> Drop(s.vms, D)]

WithStore(s, new) == [st |-> new, live |-> s.live, vms |-> s.vms]

Destroyed(s, D) ==
    WithStore(Kill(s, D), ReapLeases(s.st, {s.live[i].lease : i \in D}))

\* destroy: a revoke that fails leaves the records without an instance.
Destroy(id) ==
    /\ id \in DOMAIN live
    /\ \/ Become(Destroyed(Sys, {id})) /\ UNCHANGED faults
       \/ Become(Kill(Sys, {id})) /\ Fault
    /\ UNCHANGED rest

\* Mutant of TtlExpired: one unit of time too early.
TtlExpiredEarly(s) == {i \in DOMAIN s.live : now + 1 >= s.live[i].ttl}

TtlExpired(s) == {i \in DOMAIN s.live : now >= s.live[i].ttl}

\* etcd answers an error to the revocation of a lease it no longer has.
RevokeErr(s) == {i \in DOMAIN s.live : Etcd /\ s.live[i].lease \notin DOMAIN s.st.leases}

\* Mutant of SweepIdle: the sweep without the kill.
SweepStoreOnly(s) == WithStore(s, LeaseSweep(s.st, now))

\* tick, second half: sweep, then kill the live sandboxes whose keys went.
SweepIdle(s) ==
    LET gone == {k[1] : k \in SweptKeys(s.st, now)} \cap DOMAIN s.live
    IN  WithStore(Kill(s, gone), LeaseSweep(s.st, now))

\* Mutant of TickAborted: destroy revokes first, so that its error leaves the
\* sandbox in the ledger.
TickAbortedKeeps(s, D, e) == Destroyed(s, D)

\* `self.destroy(&id)?`: D were destroyed before e, whose revoke failed.
TickAborted(s, D, e) == Kill(Destroyed(s, D), {e})

\* reclaim_orphans: records of nodes without a heartbeat, never one's own.
Orphaned(s) ==
    {i \in Ids : HasKey(s, i, "node") /\ s.kv[<<i, "node">>].val \notin beats \cup {gen}}

Reclaim(s, R) ==
    WithStore(s, ReapLeases(s.st, {s.st.kv[<<i, "node">>].lease : i \in R}))

\* gc_expired: store records only.
Overdue(s) ==
    {i \in Ids : /\ HasKey(s, i, "retain") /\ s.kv[<<i, "retain">>].val <= now
                 /\ HasKey(s, i, "state") /\ s.kv[<<i, "state">>].val = "paused"}

GcRetention(s, G) ==
    WithStore(s, ReapLeases(s.st, {s.st.kv[<<i, "retain">>].lease : i \in G}))

\* What follows tick in the same round, whether tick failed or not: each of
\* the two stops at its first store error, after a part of its work.
ReclaimAndGc(s, ok) ==
    \E R \in SUBSET Orphaned(s.st) : \E r \in {Reclaim(s, R)} : \E G \in SUBSET Overdue(r.st) :
        /\ ok => R = Orphaned(s.st) /\ G = Overdue(r.st)
        /\ Become(GcRetention(r, G))

\* One round of the reaper thread under one lock: tick (to its end, or with
\* an error of lease_sweep, or with an error of a destroy), then the rest.
ReaperRound ==
    /\ \E ok \in BOOLEAN :
        /\ IF ok THEN UNCHANGED faults ELSE Fault
        /\ \/ /\ TtlExpired(Sys) \cap RevokeErr(Sys) = {}
              /\ \E d \in {Destroyed(Sys, TtlExpired(Sys))} :
                    \/ \E s \in {SweepIdle(d)} : ReclaimAndGc(s, ok)
                    \/ ~ok /\ ReclaimAndGc(d, ok)
           \/ \E e \in TtlExpired(Sys), D \in SUBSET TtlExpired(Sys) :
                /\ e \notin D /\ D \cap RevokeErr(Sys) = {}
                /\ ok => e \in RevokeErr(Sys)
                /\ \E s \in {TickAborted(Sys, D, e)} : ReclaimAndGc(s, ok)
    /\ UNCHANGED rest
-----------------------------------------------------------------------------
\* An etcd server drops a lease some time after it expired.
ServerExpires(l) ==
    /\ Etcd /\ l \in Expired(st, now)
    /\ st' = ReapLeases(st, {l})
    /\ UNCHANGED <<rest, live, vms, faults>>

AdvanceTime ==
    /\ now < MaxTime /\ now' = now + 1
    /\ UNCHANGED <<st, live, vms, gen, beats, used, lost, faults>>

\* The heartbeat thread registers again; a heartbeat key runs out.
Heartbeat == beats' = beats \cup {gen} /\ UNCHANGED <<st, live, vms, now, gen, used, lost, faults>>

HeartbeatLost(g) ==
    /\ g \in beats
    /\ beats' = beats \ {g}
    /\ UNCHANGED <<st, live, vms, now, gen, used, lost, faults>>

\* The daemon dies and is started again: the ledger in memory is empty, the
\* instances (children without a parent now) and the store are still there.
Restart ==
    /\ gen < MaxRestarts /\ gen' = gen + 1
    /\ live' = EmptyMap
    /\ lost' = lost \cup DOMAIN vms
    /\ beats' = beats \cup {gen + 1}
    /\ UNCHANGED <<st, vms, now, used, faults>>

Next ==
    \/ \E id \in Ids : \/ Create(id) \/ Pause(id) \/ Resume(id) \/ Keepalive(id) \/ Destroy(id)
                       \/ \E parent \in Ids : Fork(parent, id)
    \/ ReaperRound \/ AdvanceTime \/ Heartbeat \/ Restart
    \/ \E l \in DOMAIN st.leases : ServerExpires(l)
    \/ \E g \in beats : HeartbeatLost(g)

Spec == Init /\ [][Next]_vars

\* The clock runs, the reaper thread wakes up every tick_secs, the heartbeat
\* of a dead process runs out and an etcd server expires leases.
Fairness ==
    /\ WF_vars(AdvanceTime) /\ WF_vars(ReaperRound)
    /\ \A g \in 0..MaxRestarts : WF_vars(g # gen /\ HeartbeatLost(g))
    /\ WF_vars(\E l \in DOMAIN st.leases : ServerExpires(l))

FairSpec == Spec /\ Fairness
-----------------------------------------------------------------------------
\* Every sandbox in the ledger has an instance, and an instance is in the
\* ledger unless the daemon died while it ran: no failed registration, pause,
\* destroy or half-done reaper round leaks an instance or keeps a ghost.
VmsAccounted ==
    /\ DOMAIN live \subseteq DOMAIN vms
    /\ DOMAIN vms \subseteq DOMAIN live \cup lost

\* The lease in the ledger is the sandbox's own: no other sandbox has it and
\* no key of another sandbox hangs on it, so that a keepalive renews and a
\* destroy deletes nothing else.
LeaseIsOwn ==
    \A i \in DOMAIN live :
        /\ \A j \in DOMAIN live : live[j].lease = live[i].lease => j = i
        /\ \A k \in DOMAIN st.kv : st.kv[k].lease = live[i].lease => k[1] = i

\* No record is immortal: each key of a sandbox hangs on a lease that exists
\* (what a failed registration or destroy leaves behind goes with the lease).
RecordsLeased == \A k \in DOMAIN st.kv : st.kv[k].lease \in DOMAIN st.leases

\* On one node with SQLite the record of a live sandbox cannot vanish under
\* it, as long as no retention period has run out.
LiveRecorded ==
    \A i \in DOMAIN live :
        /\ live[i].lease \in DOMAIN st.leases
        /\ \A f \in {"meta", "state", "node"} :
              HasKey(st, i, f) /\ st.kv[<<i, f>>].lease = live[i].lease

\* The state key says paused exactly when the instance is (no failed calls);
\* gc_expired trusts it.
StateMatches ==
    faults = 0 => \A i \in DOMAIN live :
        st.kv[<<i, "state">>].val = "paused" <=> vms[i] = "paused"

\* The check before create and fork keeps the project within its limit.
QuotaHeld == MaxSandboxes > 0 => Cardinality(Counted(st)) <= MaxSandboxes

\* The TTL is an absolute cap: a sandbox past its deadline is destroyed, even
\* if revocations fail in between and rounds of the reaper are cut short.
TtlEnforced == \A i \in Ids : (i \in DOMAIN live /\ now >= live[i].ttl) ~> i \notin DOMAIN live

\* Whatever a failed destroy, a failed registration or a dead daemon left in
\* the store disappears.
GhostRecordsGo == \A i \in Ids : (HasKey(st, i, "meta") /\ i \notin DOMAIN live) ~> ~HasKey(st, i, "meta")

\* A round never kills a sandbox that is neither past its TTL nor idle.
ReaperSpares ==
    [][ReaperRound => \A i \in DOMAIN live \ DOMAIN live' :
          now >= live[i].ttl \/ live[i].lease \in Expired(st, now)]_vars
=============================================================================
