-------------------------------- MODULE Build --------------------------------
(***************************************************************************)
(* `sandlocker build` (sl-node/build.rs) next to the other users of the    *)
(* host: the egress sandboxes of the control plane (fcbackend.rs,          *)
(* create_egress) and the gated session of net_live_reconcile (lib.rs).    *)
(* The builder is a process of its own; it may fail at any tool or die     *)
(* between any two of them, and be started again.                          *)
(*                                                                         *)
(*   net     the host's network, see LiveNet                               *)
(*   upk     how many tools of LiveNet::up an instance has got through     *)
(*   cp      an egress sandbox: "new", "up", "live" or "gone"              *)
(*   gs      the gated session: "idle", "up", "gated", "run" or "allowed"  *)
(*   b       the builder: its step, version, number, source and network    *)
(*   bvm     the builder holds a running microVM                           *)
(*   cache   the OCI cache entry of the image                              *)
(*   dir     build/templates/<name>/<version>: which build wrote each file *)
(*           (0: no file), whether RUN finished, whether /etc/machine-id   *)
(*           is set                                                        *)
(*   key     signing.key: "none", "torn" (created, not written) or "whole" *)
(*   rec, latest   the template/ records of the store                      *)
(*   begun   the last build that touched a version's directory (history)   *)
(*   upset   instances whose `up` failed, whose build VM did not boot, or  *)
(*           whose builder died (history)                                  *)
(***************************************************************************)
EXTENDS LiveNet, Oci

CONSTANTS
    Sbx,         \* egress sandboxes, one id each
    Versions,    \* versions of the template
    Live,        \* the id of the gated session
    NoVersion,
    MaxBuilds,   \* builds started
    Images       \* images the flattening is checked on

\* Everything that may have a network: its id names the netns, the veth, the
\* table.
Users == Sbx \cup Versions \cup {Live}

\* The ids of sandboxes, of versions and of the session never coincide.
ASSUME BuildAssumption ==
    /\ NoUser \notin Users /\ NoVersion \notin Versions
    /\ Sbx \cap Versions = {} /\ Live \notin Sbx \cup Versions

VARIABLES net, upk, cp, gs, b, bvm, cache, dir, key, rec, latest, begun, upset

vars == <<net, upk, cp, gs, b, bvm, cache, dir, key, rec, latest, begun, upset>>

hostVars == <<cp, gs>>
buildVars == <<b, bvm, cache, dir, key, rec, latest, begun>>

NoFiles == [rootfs |-> 0, ran |-> FALSE, ident |-> FALSE,
            snap |-> 0, expect |-> 0, manifest |-> 0, sig |-> 0]

Idle == [pc |-> "idle", v |-> NoVersion, n |-> 0, oci |-> FALSE, net |-> FALSE]

Init ==
    /\ net = NoNet /\ upk = [u \in Users |-> 0]
    /\ cp = [u \in Sbx |-> "new"] /\ gs = "idle"
    /\ b = Idle /\ bvm = FALSE /\ cache = NoCache
    /\ dir = [v \in Versions |-> NoFiles]
    /\ key = "none"
    /\ rec = [v \in Versions |-> 0] /\ latest = NoVersion
    /\ begun = [v \in Versions |-> 0] /\ upset = {}
-----------------------------------------------------------------------------
\* LiveNet::up for u: clear what the name may have left, then tool by tool.
UpBegin(u) ==
    /\ net' = Down(net, u) /\ upk' = [upk EXCEPT ![u] = 0]
    /\ upset' = upset \ {u}

UpNext(u) ==
    /\ upk[u] < Len(UpSteps)
    /\ net' \in UpResults(net, u, UpSteps[upk[u] + 1])
    /\ upk' = [upk EXCEPT ![u] = @ + 1]
    /\ UNCHANGED upset

\* A tool failed: Err, and nothing is taken down.
UpFails(u) ==
    /\ upk[u] < Len(UpSteps) /\ Checked(UpSteps[upk[u] + 1])
    /\ upset' = upset \cup {u}
    /\ upk' = [upk EXCEPT ![u] = 0]
    /\ UNCHANGED net

UpDone(u) == upk[u] = Len(UpSteps)

TakeDown(u) ==
    /\ net' = Down(net, u) /\ upk' = [upk EXCEPT ![u] = 0]
    /\ UNCHANGED upset
-----------------------------------------------------------------------------
\* resolve_template: the latest version must have a directory.
Resolvable == latest # NoVersion /\ dir[latest].rootfs # 0

\* create_egress, under the orchestrator's mutex.
CreateBegin(u) ==
    /\ cp[u] = "new" /\ \A w \in Sbx : cp[w] # "up"
    /\ Resolvable
    /\ UpBegin(u) /\ cp' = [cp EXCEPT ![u] = "up"]
    /\ UNCHANGED <<gs, buildVars>>

CreateUp(u) ==
    /\ cp[u] = "up"
    /\ \/ UpNext(u) /\ UNCHANGED cp
       \/ UpFails(u) /\ cp' = [cp EXCEPT ![u] = "gone"]
    /\ UNCHANGED <<gs, buildVars>>

\* cold_boot_egress, and the take-down when it fails
CreateBoot(u) ==
    /\ cp[u] = "up" /\ UpDone(u)
    /\ \/ cp' = [cp EXCEPT ![u] = "live"] /\ UNCHANGED <<net, upk, upset>>
       \/ cp' = [cp EXCEPT ![u] = "gone"] /\ TakeDown(u)
    /\ UNCHANGED <<gs, buildVars>>

DestroyEgress(u) ==
    /\ cp[u] = "live" /\ \A w \in Sbx : cp[w] # "up"
    /\ cp' = [cp EXCEPT ![u] = "gone"] /\ TakeDown(u)
    /\ UNCHANGED <<gs, buildVars>>
-----------------------------------------------------------------------------
\* net_live_reconcile: the gate is in place before the VM is started.
SessionUp ==
    /\ \/ gs = "idle" /\ UpBegin(Live) /\ gs' = "up"
       \/ gs = "up" /\ UpNext(Live) /\ UNCHANGED gs
       \/ gs = "up" /\ UpFails(Live) /\ gs' = "idle"
    /\ UNCHANGED <<cp, buildVars>>

SessionGate ==
    /\ gs = "up" /\ UpDone(Live)
    /\ \/ gs' = "gated" /\ net' = GateUp(net, Live) /\ UNCHANGED <<upk, upset>>
       \/ gs' = "idle" /\ TakeDown(Live)
    /\ UNCHANGED <<cp, buildVars>>

SessionBoot ==
    /\ gs = "gated"
    /\ \/ gs' = "run" /\ UNCHANGED <<net, upk, upset>>
       \/ gs' = "idle" /\ TakeDown(Live)
    /\ UNCHANGED <<cp, buildVars>>

SessionAllow ==
    /\ gs = "run"
    /\ \/ gs' = "allowed" /\ net' = AddAllow(net, Live) /\ UNCHANGED <<upk, upset>>
       \/ gs' = "idle" /\ TakeDown(Live)
    /\ UNCHANGED <<cp, buildVars>>

\* the VM is killed, the gate removed, the network taken down
SessionEnd ==
    /\ gs = "allowed" /\ gs' = "idle"
    /\ net' = Down(GateDown(net, Live), Live)
    /\ upk' = [upk EXCEPT ![Live] = 0]
    /\ UNCHANGED <<upset, cp, buildVars>>
-----------------------------------------------------------------------------
\* The builder's steps.  Quiet: a step of the builder that leaves the host's
\* network alone.
Quiet == UNCHANGED <<net, upk, upset, hostVars>>

Goto(pc) == b' = [b EXCEPT !.pc = pc]

File(f, n) == dir' = [dir EXCEPT ![b.v][f] = n]

\* The template is parsed and validated, `from` is classified, the COPY
\* files are read, the version is given or derived.  An invalid one has no
\* effect.  allow-all as root asks for a network, the other plans for none.
BuildBegin(v) ==
    /\ b.pc = "idle"
    /\ \A w \in Versions : begun[w] < MaxBuilds
    /\ \E last \in Versions, oci, egress \in BOOLEAN :
        /\ \A w \in Versions : begun[w] <= begun[last]
        /\ b' = [pc |-> IF oci THEN "source" ELSE "dir", v |-> v, n |-> 1 + begun[last],
                 oci |-> oci, net |-> egress]
    /\ Quiet /\ UNCHANGED <<bvm, cache, dir, key, rec, latest, begun>>

\* remote_to_rootfs: a hit ends it; on a miss the blobs are pulled, the layers
\* flattened, and finish_bake bakes them.  archive_to_rootfs does the same
\* for the entry of a tarball, except that its blobs have no digest to match.
BuildSource ==
    /\ b.pc = "source"
    /\ \/ CacheHit(cache) /\ Goto("dir") /\ UNCHANGED cache
       \/ ~CacheHit(cache) /\ Goto("pull") /\ UNCHANGED cache
    /\ Quiet /\ UNCHANGED <<bvm, dir, key, rec, latest, begun>>

\* The config and every layer of the manifest; one that is not what its
\* digest names is an error (BuildError).
BuildPull ==
    /\ b.pc = "pull"
    /\ \E sent \in {"named", "other"} : Kept(sent) /\ cache' = BakeBegin(cache, sent)
    /\ Goto("bake")
    /\ Quiet /\ UNCHANGED <<bvm, dir, key, rec, latest, begun>>

\* Mutant of BuildBake: config.json is written before the image is whole.
BuildBakeEarly ==
    /\ \/ b.pc = "bake" /\ Goto("config") /\ cache' = BakeConfig(cache)
       \/ b.pc = "config" /\ Goto("dir") /\ cache' = BakeEnd(cache)
    /\ Quiet /\ UNCHANGED <<bvm, dir, key, rec, latest, begun>>

BuildBake ==
    /\ \/ b.pc = "bake" /\ Goto("config") /\ cache' = BakeEnd(cache)
       \/ b.pc = "config" /\ Goto("dir") /\ cache' = BakeConfig(cache)
    /\ Quiet /\ UNCHANGED <<bvm, dir, key, rec, latest, begun>>

\* The old artefacts are removed and the directory made anew.
BuildClean ==
    /\ b.pc = "dir"
    /\ begun' = [begun EXCEPT ![b.v] = b.n]
    /\ dir' = [dir EXCEPT ![b.v] = NoFiles]
    /\ Goto("copy")
    /\ Quiet /\ UNCHANGED <<bvm, cache, key, rec, latest>>

\* remove_dir_all goes file by file in no fixed order; it fails, or the
\* builder dies, before it reached the rootfs or the signature.
BuildCleanDies ==
    /\ b.pc = "dir" /\ b' = Idle
    /\ begun' = [begun EXCEPT ![b.v] = b.n]
    /\ \E left \in SUBSET {"rootfs", "sig"} :
        dir' = [dir EXCEPT ![b.v] = [NoFiles EXCEPT
            !.rootfs = IF "rootfs" \in left THEN dir[b.v].rootfs ELSE 0,
            !.sig = IF "sig" \in left THEN dir[b.v].sig ELSE 0]]
    /\ Quiet /\ UNCHANGED <<bvm, cache, key, rec, latest>>

\* A local base may come with a machine id; bake_rootfs removes an image's.
BuildCopy ==
    /\ b.pc = "copy"
    /\ \E id \in BOOLEAN :
        /\ b.oci => ~id
        /\ dir' = [dir EXCEPT ![b.v] = [NoFiles EXCEPT !.rootfs = b.n, !.ident = id]]
    /\ Goto("net")
    /\ Quiet /\ UNCHANGED <<bvm, cache, key, rec, latest, begun>>
-----------------------------------------------------------------------------
\* run_build_phase: setup_build_net, named after the directory.
BuildNet ==
    /\ b.pc = "net"
    /\ \/ ~b.net /\ Goto("boot") /\ UNCHANGED <<net, upk, upset>>
       \/ b.net /\ Goto("up") /\ UpBegin(b.v)
    /\ UNCHANGED <<hostVars, bvm, cache, dir, key, rec, latest, begun>>

BuildUp ==
    /\ b.pc = "up"
    /\ \/ UpNext(b.v) /\ UNCHANGED b
       \/ UpDone(b.v) /\ Goto("boot") /\ UNCHANGED <<net, upk, upset>>
       \/ UpFails(b.v) /\ b' = Idle
    /\ UNCHANGED <<hostVars, bvm, cache, dir, key, rec, latest, begun>>

\* boot_and_connect kills the VM it could not reach; `?` then skips down.
BuildBoot ==
    /\ b.pc = "boot"
    /\ \/ Goto("check") /\ bvm' = TRUE /\ UNCHANGED upset
       \/ /\ b' = Idle /\ UNCHANGED bvm
          /\ upset' = IF b.net THEN upset \cup {b.v} ELSE upset
    /\ UNCHANGED <<net, upk, hostVars, cache, dir, key, rec, latest, begun>>

\* Mutant of EndPhase: a failing step leaves the network to the next build.
EndPhaseKeepNet(pc) ==
    /\ b' = IF pc = "idle" THEN Idle ELSE [b EXCEPT !.pc = pc]
    /\ bvm' = FALSE
    /\ IF b.net /\ pc # "idle" THEN TakeDown(b.v) ELSE UNCHANGED <<net, upk, upset>>

\* Success or failure, the VM is killed and the network taken down.
EndPhase(pc) ==
    /\ b' = IF pc = "idle" THEN Idle ELSE [b EXCEPT !.pc = pc]
    /\ bvm' = FALSE
    /\ IF b.net THEN TakeDown(b.v) ELSE UNCHANGED <<net, upk, upset>>

\* assert_no_identity
NoIdentity == ~dir[b.v].ident

\* assert_no_identity before, then resolv.conf, COPY and the environment,
\* written into the guest by exec.
BuildInject ==
    /\ b.pc = "check"
    /\ \/ /\ NoIdentity
          /\ Goto("copied") /\ UNCHANGED <<bvm, net, upk, upset>>
          /\ \E id \in BOOLEAN : dir' = [dir EXCEPT ![b.v].ident = id]
       \/ EndPhase("idle") /\ UNCHANGED dir
    /\ UNCHANGED <<hostVars, cache, key, rec, latest, begun>>

\* The RUN steps, up to the first that fails.
BuildRun ==
    /\ b.pc = "copied"
    /\ \/ /\ Goto("ran") /\ UNCHANGED <<bvm, net, upk, upset>>
          /\ \E id \in BOOLEAN : dir' = [dir EXCEPT ![b.v].ident = id]
       \/ EndPhase("idle") /\ UNCHANGED dir
    /\ UNCHANGED <<hostVars, cache, key, rec, latest, begun>>

\* Mutant of BuildSync: what RUN left is not looked at again.
BuildSyncNoCheck ==
    /\ b.pc = "ran"
    /\ \/ /\ dir' = [dir EXCEPT ![b.v].ran = TRUE]
          /\ EndPhase("bake2")
       \/ EndPhase("idle") /\ UNCHANGED dir
    /\ UNCHANGED <<hostVars, cache, key, rec, latest, begun>>

\* assert_no_identity after, sync
BuildSync ==
    /\ b.pc = "ran"
    /\ \/ /\ NoIdentity
          /\ dir' = [dir EXCEPT ![b.v].ran = TRUE]
          /\ EndPhase("bake2")
       \/ EndPhase("idle") /\ UNCHANGED dir
    /\ UNCHANGED <<hostVars, cache, key, rec, latest, begun>>
-----------------------------------------------------------------------------
\* run_prebake_phase: a fresh boot without network, start_cmd, the marker,
\* Paused, the snapshot, expect; the VM is killed on every way out.
PrebakeBoot ==
    /\ b.pc = "bake2"
    /\ \/ Goto("snap") /\ bvm' = TRUE
       \/ b' = Idle /\ UNCHANGED bvm
    /\ Quiet /\ UNCHANGED <<cache, dir, key, rec, latest, begun>>

PrebakeSnapshot ==
    /\ b.pc = "snap"
    /\ \/ Goto("expect") /\ File("snap", b.n) /\ UNCHANGED bvm
       \/ b' = Idle /\ bvm' = FALSE /\ UNCHANGED dir
    /\ Quiet /\ UNCHANGED <<cache, key, rec, latest, begun>>

PrebakeExpect ==
    /\ b.pc = "expect" /\ bvm' = FALSE
    /\ \/ Goto("key") /\ File("expect", b.n)
       \/ b' = Idle /\ UNCHANGED dir
    /\ Quiet /\ UNCHANGED <<cache, key, rec, latest, begun>>

\* load_or_create_key: a torn key file is an error for good.
BuildKey ==
    /\ b.pc = "key"
    /\ \/ key = "none" /\ key' = "torn" /\ Goto("keywrite")
       \/ key = "whole" /\ Goto("manifest") /\ UNCHANGED key
       \/ key = "torn" /\ b' = Idle /\ UNCHANGED key
    /\ Quiet /\ UNCHANGED <<bvm, cache, dir, rec, latest, begun>>

BuildKeyWrite ==
    /\ b.pc = "keywrite" /\ key' = "whole" /\ Goto("manifest")
    /\ Quiet /\ UNCHANGED <<bvm, cache, dir, rec, latest, begun>>

\* manifest.json, then the signature of its bytes
BuildManifest ==
    /\ b.pc = "manifest" /\ File("manifest", b.n) /\ Goto("sig")
    /\ Quiet /\ UNCHANGED <<bvm, cache, key, rec, latest, begun>>

\* Mutant of BuildSign: the version is registered before the signature is on disk.
BuildSignAfterPut ==
    /\ b.pc = "sig" /\ Goto("put") /\ UNCHANGED dir
    /\ rec' = [rec EXCEPT ![b.v] = b.n]
    /\ Quiet /\ UNCHANGED <<bvm, cache, key, latest, begun>>

BuildSign ==
    /\ b.pc = "sig" /\ File("sig", b.n) /\ Goto("put")
    /\ Quiet /\ UNCHANGED <<bvm, cache, key, rec, latest, begun>>

\* template/<name>/<version>, then template/<name>/latest
BuildPut ==
    /\ \/ b.pc = "put" /\ rec' = [rec EXCEPT ![b.v] = b.n] /\ Goto("latest") /\ UNCHANGED latest
       \/ b.pc = "latest" /\ latest' = b.v /\ b' = Idle /\ UNCHANGED rec
    /\ Quiet /\ UNCHANGED <<bvm, cache, dir, key, begun>>

\* A fetch, a flattening, mke2fs, a copy, a write to the disk or the store
\* fails: build returns Err, and no VM runs at these steps.
BuildError ==
    /\ b.pc \in {"source", "pull", "bake", "config", "copy", "net",
                 "key", "manifest", "sig", "put", "latest"}
    /\ b' = Idle
    /\ Quiet /\ UNCHANGED <<bvm, cache, dir, key, rec, latest, begun>>

\* The builder is killed.  Its VM, in a process group of its own, is nobody's
\* from then on; the files it may still write were never registered.
BuilderDies ==
    /\ b.pc # "idle" /\ b' = Idle /\ bvm' = FALSE
    /\ upset' = IF b.net THEN upset \cup {b.v} ELSE upset
    /\ upk' = [upk EXCEPT ![b.v] = 0]
    /\ UNCHANGED <<net, hostVars, cache, dir, key, rec, latest, begun>>

Next ==
    \/ \E u \in Sbx : CreateBegin(u) \/ CreateUp(u) \/ CreateBoot(u) \/ DestroyEgress(u)
    \/ SessionUp \/ SessionGate \/ SessionBoot \/ SessionAllow \/ SessionEnd
    \/ \E v \in Versions : BuildBegin(v)
    \/ BuildSource \/ BuildPull \/ BuildBake \/ BuildClean \/ BuildCleanDies \/ BuildCopy
    \/ BuildNet \/ BuildUp \/ BuildBoot \/ BuildInject \/ BuildRun \/ BuildSync
    \/ PrebakeBoot \/ PrebakeSnapshot \/ PrebakeExpect
    \/ BuildKey \/ BuildKeyWrite \/ BuildManifest \/ BuildSign \/ BuildPut
    \/ BuildError \/ BuilderDies

Spec == Init /\ [][Next]_vars
-----------------------------------------------------------------------------
\* build: a registered version nobody has started to rebuild has its whole
\* directory, every file of it written by the build on record, whatever
\* failed or died since; and `latest` names a registered version.
PublishedIntact ==
    /\ \A v \in Versions : rec[v] # 0 /\ rec[v] = begun[v] =>
        /\ dir[v].ran
        /\ \A f \in {"rootfs", "snap", "expect", "manifest", "sig"} : dir[v][f] = rec[v]
    /\ latest # NoVersion => rec[latest] # 0

\* try_cache asks only whether the two files exist: by the order in which
\* finish_bake writes them, a hit is a completely baked image, also after a
\* builder died half way, and baked from the blobs the manifest names.
CacheHitWhole == CacheHit(cache) => cache.rootfs = "whole" /\ cache.blobs = "named"

\* assert_no_identity: no snapshot is taken of a rootfs that base, COPY or
\* RUN gave a machine id.
NoIdentityShipped ==
    \A v \in Versions : dir[v].snap # 0 /\ dir[v].snap = dir[v].rootfs => ~dir[v].ident

\* LiveNet, nftfw: while an instance runs, no other instance's `up` or
\* `down` takes its namespace, veth, tap or NAT table away, and the gated
\* session's guest never runs without its gate.
RunsWired ==
    /\ \A u \in Sbx : cp[u] = "live" => Wired(net, u)
    /\ gs \in {"gated", "run", "allowed"} => Wired(net, Live) /\ Live \in net.gate
    /\ b.net /\ b.pc \in {"boot", "check", "copied", "ran"} => Wired(net, b.v)

\* create_egress, run_build_phase, net_live_reconcile: what does not run
\* has left nothing of its network on the host, unless `up` itself failed,
\* the build VM did not boot or the builder died; and an idle builder has
\* no VM.
ResidueExplained ==
    /\ \A u \in Sbx : cp[u] \in {"new", "gone"} /\ u \notin upset => Clean(net, u)
    /\ gs = "idle" /\ Live \notin upset => Clean(net, Live)
    /\ \A v \in Versions : b.v # v /\ v \notin upset => Clean(net, v)
    /\ b.pc = "idle" => ~bvm

OverlaysAll == \A image \in Images : Flatten(image) = Overlay(image)

\* flatten_layers: a rootfs that was baked holds the tree to which the layers
\* of its image overlay, whichever image that was.
FlattenIsOverlay == cache.rootfs = "whole" => OverlaysAll
=============================================================================
