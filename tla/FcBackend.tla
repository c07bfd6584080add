------------------------------ MODULE FcBackend ------------------------------
(***************************************************************************)
(* The Firecracker backend of one node (sl-node/fcbackend.rs): its table   *)
(* of instances, the snapshot files of their directories, the warm and hot *)
(* pools (pool.rs) and the restore path (lib.rs).  Operations run under    *)
(* the orchestrator's mutex; the refill threads of the pools do not.  A    *)
(* pause is split into its steps because power may fail between them.      *)
(*                                                                         *)
(*   kms      snapshots are encrypted (--snap-kms-key), fixed at start     *)
(*   snapKey  FcBackend.snap_key is Some: set by the last snapshot         *)
(*            operation and kept after it                                  *)
(*   fs       the snapshot files, see SnapFiles                            *)
(*   live     FcBackend.live: id -> [paused, net]                          *)
(*   vm       the Firecracker process of an id: "none", "parked" (loaded,  *)
(*            never resumed), "running" or "frozen" (vCPUs stopped)        *)
(*   mem      the guest memory of an id, kept after its VM is gone         *)
(*   pool     the pools: [state, ready, prep], prep the slot in the making *)
(*   op       the pause in progress: [id, step, name]                      *)
(*   stray    directories a failed preparation left behind                 *)
(*   kin      parents whose sealed files a fork has linked (history)       *)
(***************************************************************************)
EXTENDS SnapFiles, Maps

CONSTANTS
    NoId,       \* no id
    Target,     \* Pools -> slots a pool keeps ready, 0 = not enabled
    MaxGen      \* identities are told apart modulo MaxGen

ASSUME FcAssumption ==
    /\ NoId \notin Ids /\ Tmpl \notin Ids
    /\ MaxGen \in Nat \ {0}
    /\ Target \in [{"warm", "hot"} -> Nat]

VARIABLES kms, snapKey, fs, live, vm, mem, pool, op, stray, kin

vars == <<kms, snapKey, fs, live, vm, mem, pool, op, stray, kin>>

\* Directories prepared ahead; VMs parked paused.
Pools == {"warm", "hot"}

NoOp == [id |-> NoId, step |-> "idle", name |-> "vmstate"]

Init ==
    /\ kms \in BOOLEAN /\ snapKey = FALSE
    /\ fs = TemplateOnly
    /\ live = EmptyMap
    /\ vm = [i \in Ids |-> "none"]
    /\ mem = [i \in Ids |-> Guest(i, 0)]
    /\ pool = [p \in Pools |-> [state |-> IF Target[p] = 0 THEN "off" ELSE "on",
                                ready |-> <<>>, prep |-> NoId]]
    /\ op = NoOp /\ stray = {} /\ kin = {}

Slots(p) == {pool[p].ready[k] : k \in 1 .. Len(pool[p].ready)}

Fresh(id) ==
    /\ id \notin DOMAIN live \cup stray
    /\ \A p \in Pools : id \notin Slots(p) /\ id # pool[p].prep

\* The orchestrator's mutex is free: no pause is under way, and no pool is
\* being dropped by enable_*_pool.
Unlocked == op.step = "idle" /\ \A p \in Pools : pool[p].state # "stopping"

\* Mutant of Reinit: the clone keeps what the snapshot remembers.
ReinitSkipped(id, loaded) == loaded

\* Reinit gives the guest a machine id, a session key and a seed of its own.
Reinit(id, loaded) == Guest(id, (mem[id].gen + 1) % MaxGen)

\* restore_park and restore_activate on directory d: the load needs both
\* files, and the marker the template was baked with must be in the guest.
Restorable(f, d, net) == Loadable(f, d) /\ ~net

\* register_inst
Register(id, net) == Bind(live, id, [paused |-> FALSE, net |-> net])
-----------------------------------------------------------------------------
\* The head of a pool, when this template has one with a slot ready.
PoolHit(p, id) == pool[p].ready # <<>> /\ id = Head(pool[p].ready)

PoolMiss(p) == pool[p].ready = <<>>

Popped(p) == [pool EXCEPT ![p].ready = Tail(@)]

\* create: a hot slot is only activated.
CreateHot(id) ==
    /\ Unlocked /\ PoolHit("hot", id)
    /\ pool' = Popped("hot")
    /\ \/ /\ Loadable(fs, id)
          /\ vm' = [vm EXCEPT ![id] = "running"]
          /\ mem' = [mem EXCEPT ![id] = Reinit(id, Content(fs, id, "mem"))]
          /\ live' = Register(id, FALSE)
          /\ UNCHANGED fs
       \/ /\ vm' = [vm EXCEPT ![id] = "none"]      \* activation failed
          /\ fs' = RemoveDir(fs, id)
          /\ UNCHANGED <<mem, live>>
    /\ UNCHANGED <<kms, snapKey, op, stray, kin>>

\* restore_core on directory id, holding the files f; a failure removes it.
RestoreInto(id, f) ==
    \/ /\ Restorable(f, id, FALSE)
       /\ fs' = f
       /\ vm' = [vm EXCEPT ![id] = "running"]
       /\ mem' = [mem EXCEPT ![id] = Reinit(id, Content(f, id, "mem"))]
       /\ live' = Register(id, FALSE)
    \/ /\ fs' = RemoveDir(f, id)
       /\ UNCHANGED <<vm, mem, live>>

\* create: a warm slot is renamed into place and restored.
CreateWarm(id) ==
    /\ Unlocked /\ PoolMiss("hot") /\ PoolHit("warm", id)
    /\ pool' = Popped("warm")
    /\ RestoreInto(id, fs)
    /\ UNCHANGED <<kms, snapKey, op, stray, kin>>

\* create: the cold path, after a slot whose rename failed (`bad`) or none.
CreateCold(id) ==
    /\ Unlocked /\ PoolMiss("hot") /\ Fresh(id)
    /\ \E bad \in {NoId} \cup Ids :
        /\ IF bad = NoId THEN PoolMiss("warm") /\ UNCHANGED pool
           ELSE PoolHit("warm", bad) /\ pool' = Popped("warm")
        /\ \E f \in {IF bad = NoId THEN fs ELSE RemoveDir(fs, bad)} :
            \/ RestoreInto(id, LinkBoth(f, Tmpl, id)) /\ UNCHANGED stray
            \/ /\ stray' = stray \cup {id}         \* prepare_instance_dir: `?`
               /\ fs' = f
               /\ UNCHANGED <<vm, mem, live>>
    /\ UNCHANGED <<kms, snapKey, op, kin>>

\* create_egress: a cold boot with a network card, from a private rootfs only.
CreateEgress(id) ==
    /\ Unlocked /\ Fresh(id)
    /\ vm' = [vm EXCEPT ![id] = "running"]
    /\ mem' = [mem EXCEPT ![id] = Reinit(id, mem[id])]
    /\ live' = Register(id, TRUE)
    /\ UNCHANGED <<kms, snapKey, fs, pool, op, stray, kin>>

\* destroy: kill, then shred the plaintext when a key is set, then remove.
Destroy(id) ==
    /\ Unlocked /\ id \in DOMAIN live
    /\ live' = Drop(live, {id})
    /\ vm' = [vm EXCEPT ![id] = "none"]
    /\ fs' = RemoveDir(IF snapKey THEN ShredBoth(fs, id) ELSE fs, id)
    /\ mem' = [mem EXCEPT ![id] = Guest(id, 0)]
    /\ kin' = kin \ {id}
    /\ UNCHANGED <<kms, snapKey, pool, op, stray>>
-----------------------------------------------------------------------------
\* arm_snapshot_key: the project's key, if the node has a Kms.
ArmKey == snapKey' = kms

\* Mutant of PauseStart: the old names are written through.
PauseStartNoUnlink(id) ==
    /\ Unlocked /\ id \in DOMAIN live /\ ~live[id].paused
    /\ vm[id] \in {"running", "frozen"}
    /\ ArmKey
    /\ vm' = [vm EXCEPT ![id] = "frozen"]
    /\ op' = [id |-> id, step |-> "frozen", name |-> "vmstate"]
    /\ UNCHANGED <<kms, fs, live, mem, pool, stray, kin>>

\* pause: the key is injected, the names are unlinked, the vCPUs stop.
PauseStart(id) ==
    /\ Unlocked /\ id \in DOMAIN live /\ ~live[id].paused
    /\ ArmKey
    /\ fs' = UnlinkBoth(fs, id)
    /\ \/ /\ vm[id] \in {"running", "frozen"}
          /\ vm' = [vm EXCEPT ![id] = "frozen"]
          /\ op' = [id |-> id, step |-> "frozen", name |-> "vmstate"]
       \/ UNCHANGED <<vm, op>>                     \* PATCH /vm failed
    /\ UNCHANGED <<kms, live, mem, pool, stray, kin>>

\* The end of a pause that succeeded: the VM is killed.
Paused(id) ==
    /\ vm' = [vm EXCEPT ![id] = "none"]
    /\ live' = [live EXCEPT ![id].paused = TRUE]
    /\ op' = NoOp

\* pause: PUT /snapshot/create writes both files, or fails and is reported.
PauseSnapshot ==
    /\ op.step = "frozen"
    /\ \/ /\ fs' = Store(Store(fs, op.id, "vmstate", mem[op.id]), op.id, "mem", mem[op.id])
          /\ IF snapKey THEN op' = [op EXCEPT !.step = "plain"] /\ UNCHANGED <<vm, live>>
             ELSE Paused(op.id)
       \/ op' = NoOp /\ UNCHANGED <<fs, vm, live>>
    /\ UNCHANGED <<kms, snapKey, mem, pool, stray, kin>>

\* Mutant of SealOpen: the plaintext is gone before the container is complete.
SealOpenShredding ==
    /\ op.step = "plain"
    /\ fs' = Shred(EncryptOpen(fs, op.id, op.name), op.id, op.name)
    /\ op' = [op EXCEPT !.step = "open"]
    /\ UNCHANGED <<kms, snapKey, live, vm, mem, pool, stray, kin>>

\* seal_snapshot: the container is opened, written and synced, and only then
\* is the plaintext shredded; vmstate first, then mem.
SealOpen ==
    /\ op.step = "plain"
    /\ fs' = EncryptOpen(fs, op.id, op.name)
    /\ op' = [op EXCEPT !.step = "open"]
    /\ UNCHANGED <<kms, snapKey, live, vm, mem, pool, stray, kin>>

SealWrite ==
    /\ op.step = "open"
    /\ fs' = EncryptDone(fs, op.id, op.name)
    /\ op' = [op EXCEPT !.step = "done"]
    /\ UNCHANGED <<kms, snapKey, live, vm, mem, pool, stray, kin>>

SealShred ==
    /\ op.step = "done"
    /\ fs' = Shred(fs, op.id, op.name)
    /\ \/ /\ op.name = "vmstate"
          /\ op' = [op EXCEPT !.step = "plain", !.name = "mem"]
          /\ UNCHANGED <<vm, live>>
       \/ op.name = "mem" /\ Paused(op.id)
    /\ UNCHANGED <<kms, snapKey, mem, pool, stray, kin>>

\* pause: sealing failed.  Shred all four files and put the VM back to run,
\* or kill it when even that fails.
SealFail ==
    /\ op.step \in {"plain", "open", "done"}
    /\ LET bare == ShredBoth(fs, op.id)
       IN  fs' = Shred(Shred(bare, op.id, "vmstate.enc"), op.id, "mem.enc")
    /\ \E after \in {"running", "none"} : vm' = [vm EXCEPT ![op.id] = after]
    /\ op' = NoOp
    /\ UNCHANGED <<kms, snapKey, live, mem, pool, stray, kin>>

\* unseal_snapshot on directory d of the files f: vmstate, then mem; a file
\* already decrypted stays when the next one fails.
Unsealed(f, d) == Decrypt(Decrypt(f, d, "vmstate"), d, "mem")

UnsealFails(f, d) ==
    {f} \cup IF CanDecrypt(f, d, "vmstate") THEN {Decrypt(f, d, "vmstate")} ELSE {}

CanUnseal(f, d) == \A n \in Names : CanDecrypt(f, d, n)

\* resume: in place, from the instance's own directory.
Resume(id) ==
    /\ Unlocked /\ id \in DOMAIN live /\ live[id].paused
    /\ ArmKey
    /\ \/ /\ kms => CanUnseal(fs, id)
          /\ \E f \in {IF kms THEN Unsealed(fs, id) ELSE fs} :
             \/ /\ Restorable(f, id, live[id].net)
                /\ fs' = IF kms THEN UnlinkSealed(f, id) ELSE f
                /\ vm' = [vm EXCEPT ![id] = "running"]
                /\ mem' = [mem EXCEPT ![id] = Reinit(id, Content(f, id, "mem"))]
                /\ live' = [live EXCEPT ![id].paused = FALSE]
                /\ kin' = kin \ {id}
             \/ fs' = f /\ UNCHANGED <<vm, mem, live, kin>>   \* restore_core failed
       \/ kms /\ fs' \in UnsealFails(fs, id) /\ UNCHANGED <<vm, mem, live, kin>>
    /\ UNCHANGED <<kms, pool, op, stray>>

\* fork: link the parent's files into a new directory, unseal them there,
\* restore.  A preparation that fails leaves the directory behind.
Fork(id, new) ==
    /\ Unlocked /\ id \in DOMAIN live /\ live[id].paused /\ Fresh(new)
    /\ ArmKey
    /\ \/ /\ ~kms /\ ~live[id].net
          /\ RestoreInto(new, LinkBoth(fs, id, new))
          /\ UNCHANGED <<stray, kin>>
       \/ /\ kms /\ ~live[id].net /\ CanUnseal(fs, id)
          /\ RestoreInto(new, Unsealed(LinkSealed(fs, id, new), new))
          /\ kin' = kin \cup {id, new}
          /\ UNCHANGED stray
       \/ /\ stray' \in {stray, stray \cup {new}}
          /\ UNCHANGED <<fs, vm, mem, live, kin>>
    /\ UNCHANGED <<kms, pool, op>>
-----------------------------------------------------------------------------
\* refill_loop, hot_refill_loop: below the target, a slot is prepared with no
\* lock held; a hot slot also holds a VM loaded from it.  A failure leaves
\* nothing a hot pool keeps; a warm slot stays under .warm until shutdown.
RefillPrep(p, id) ==
    /\ pool[p].state = "on" /\ pool[p].prep = NoId
    /\ Len(pool[p].ready) < Target[p]
    /\ Fresh(id)
    /\ p = "hot" => Loadable(fs, Tmpl)
    /\ fs' = LinkBoth(fs, Tmpl, id)
    /\ pool' = [pool EXCEPT ![p].prep = id]
    /\ vm' = IF p = "hot" THEN [vm EXCEPT ![id] = "parked"] ELSE vm
    /\ UNCHANGED <<kms, snapKey, live, mem, op, stray, kin>>

\* The slot is queued even when a shutdown has been asked for meanwhile.
RefillPush(p) ==
    /\ pool[p].prep # NoId
    /\ pool' = [pool EXCEPT ![p] = [@ EXCEPT !.ready = Append(pool[p].ready, pool[p].prep), !.prep = NoId]]
    /\ UNCHANGED <<kms, snapKey, fs, live, vm, mem, op, stray, kin>>

\* enable_*_pool(0), or the backend is dropped: shutdown sets the flag.
PoolStop(p) ==
    /\ Unlocked /\ pool[p].state = "on"
    /\ pool' = [pool EXCEPT ![p].state = "stopping"]
    /\ UNCHANGED <<kms, snapKey, fs, live, vm, mem, op, stray, kin>>

\* Mutant of PoolDrain: the queue is drained without waiting for the thread.
PoolDrainNoJoin(p) ==
    /\ pool[p].state = "stopping"
    /\ vm' = [i \in Ids |-> IF i \in Slots(p) THEN "none" ELSE vm[i]]
    /\ fs' = RemoveDirs(fs, Slots(p))
    /\ pool' = [pool EXCEPT ![p] = [@ EXCEPT !.state = "off", !.ready = <<>>]]
    /\ UNCHANGED <<kms, snapKey, live, mem, op, stray, kin>>

\* shutdown then joins the thread, and only after that kills and removes what
\* is queued.
PoolDrain(p) ==
    /\ pool[p].state = "stopping" /\ pool[p].prep = NoId
    /\ vm' = [i \in Ids |-> IF i \in Slots(p) THEN "none" ELSE vm[i]]
    /\ fs' = RemoveDirs(fs, Slots(p))
    /\ pool' = [pool EXCEPT ![p] = [@ EXCEPT !.state = "off", !.ready = <<>>]]
    /\ UNCHANGED <<kms, snapKey, live, mem, op, stray, kin>>

\* WarmPool::new, HotPool::new
PoolStart(p) ==
    /\ Unlocked /\ pool[p].state = "off" /\ Target[p] > 0
    /\ pool' = [pool EXCEPT ![p].state = "on"]
    /\ UNCHANGED <<kms, snapKey, fs, live, vm, mem, op, stray, kin>>

Next ==
    \/ \E id \in Ids : CreateHot(id) \/ CreateWarm(id) \/ CreateCold(id) \/ CreateEgress(id)
    \/ \E id \in Ids : Destroy(id) \/ PauseStart(id) \/ Resume(id)
    \/ \E id, new \in Ids : Fork(id, new)
    \/ PauseSnapshot \/ SealOpen \/ SealWrite \/ SealShred \/ SealFail
    \/ \E p \in Pools, id \in Ids : RefillPrep(p, id)
    \/ \E p \in Pools : RefillPush(p) \/ PoolStop(p) \/ PoolDrain(p) \/ PoolStart(p)

Spec == Init /\ [][Next]_vars
-----------------------------------------------------------------------------
Intact(id, n) ==
    \/ Exists(fs, id, n) /\ Content(fs, id, n) = mem[id]
    \/ Exists(fs, id, Sealed(n)) /\ Content(fs, id, Sealed(n)) = Seal(mem[id])

\* From the moment Firecracker has written a snapshot, through every step of
\* sealing it and for as long as the sandbox is paused, each of its two files
\* exists in full, in the clear or sealed: a power loss never finds both
\* copies gone (seal_snapshot), and a resume finds the memory that was paused
\* (resume, fork).  A sandbox that shares sealed files with a fork is left
\* out: see SharedFilesKept.
SnapshotSurvives ==
    \A id \in DOMAIN live :
        (live[id].paused \/ (op.id = id /\ op.step \in {"plain", "open", "done"}))
          /\ (op.id = id \/ id \notin kin)
        => \A n \in Names : Intact(id, n)

\* Every Firecracker process has an owner that will kill it: an instance that
\* is not paused, or the hot pool while it exists.  A slot queued while the
\* pool shuts down is killed too (HotPool::shutdown joins before it drains).
VmsOwned ==
    \A id \in Ids : vm[id] # "none" =>
        \/ id \in DOMAIN live /\ ~live[id].paused
        \/ /\ vm[id] = "parked" /\ pool["hot"].state # "off"
           /\ id \in Slots("hot") \cup {pool["hot"].prep}

\* No two VMs that run share an identity, whatever snapshot they come from:
\* restore_activate sends Reinit before the instance is registered.
ClonesDistinct ==
    \A a, b \in Ids : a # b /\ vm[a] = "running" /\ vm[b] = "running" => mem[a] # mem[b]

\* An inode with several names keeps its content under those that remain.
SharedKept ==
    \A i \in fs : Cardinality(i.names) > 1 =>
        \A j \in fs' : i.names \cap j.names # {} => j.data = i.data

\* Without encryption no operation writes through a hard link: neither the
\* template nor a parent's snapshot changes under the instances linked to it
\* (pause unlinks before it snapshots).
PlainSharedKept == [][~kms => SharedKept]_vars

\* The same, encryption or not: what pause says of the template and
\* prepare_instance_dir_sealed of the parent's sealed files.
SharedFilesKept == [][SharedKept]_vars
=============================================================================
