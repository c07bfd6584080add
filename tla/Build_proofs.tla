---------------------------- MODULE Build_proofs ----------------------------
(***************************************************************************)
(* Proofs about Build, for any sandboxes, versions and number of builds:   *)
(*   - a cache hit is a whole image of the named blobs (CacheHitWhole);    *)
(*   - what is registered is intact (PublishedIntact);                     *)
(*   - no machine id is shipped (NoIdentityShipped);                       *)
(*   - what runs keeps its network (RunsWired);                            *)
(*   - what does not run has left nothing behind (ResidueExplained).       *)
(* Each rests on Shape and on one strengthening: CacheInv, FilesInv or     *)
(* NetInv.                                                                 *)
(***************************************************************************)
EXTENDS Build, TLAPS

\* The steps at which what the name says has been done.
Registered == {"latest"}
Signed     == {"put"} \cup Registered
Described  == {"sig"} \cup Signed
Expected   == {"key", "keywrite", "manifest"} \cup Described
Snapped    == {"expect"} \cup Expected
Synced     == {"bake2", "snap"} \cup Snapped
Based      == {"net", "up", "boot", "check", "copied", "ran"} \cup Synced
Cleaned    == {"copy"} \cup Based
Early      == {"source", "pull", "bake", "config", "dir"}

\* The steps at which the build VM runs, and at which a build with a network
\* has one, or a part of one.
Running   == {"check", "copied", "ran"}
Networked == {"up", "boot"} \cup Running

Builders ==
    [pc : {"idle"} \cup Early \cup Cleaned, v : Versions \cup {NoVersion}, n : Nat,
     oci : BOOLEAN, net : BOOLEAN]

Nets ==
    [ns : SUBSET Users, veth : SUBSET Users, tap : SUBSET Users, route : Users \cup {NoUser},
     nat : SUBSET Users, fwd : SUBSET Users, gate : SUBSET Users, allow : SUBSET Users]

Dirs ==
    [rootfs : Nat, ran : BOOLEAN, ident : BOOLEAN,
     snap : Nat, expect : Nat, manifest : Nat, sig : Nat]

Caches ==
    [rootfs : {"none", "part", "whole"}, config : BOOLEAN, blobs : {"none", "named", "other"}]

Shape ==
    /\ net \in Nets /\ upk \in [Users -> 0..6] /\ upset \in SUBSET Users
    /\ cp \in [Sbx -> {"new", "up", "live", "gone"}]
    /\ gs \in {"idle", "up", "gated", "run", "allowed"}
    /\ b \in Builders /\ (b.pc = "idle" <=> b.v = NoVersion)
    /\ cache \in Caches
    /\ dir \in [Versions -> Dirs] /\ key \in {"none", "torn", "whole"}
    /\ rec \in [Versions -> Nat] /\ begun \in [Versions -> Nat]
    /\ latest \in Versions \cup {NoVersion}

\* config.json is only ever next to a whole image, and a bake only ever runs
\* where there is none.
CacheInv ==
    /\ cache.config => cache.rootfs = "whole" /\ cache.blobs = "named"
    /\ b.pc \in {"pull", "bake", "config"} => ~cache.config
    /\ b.pc \in {"bake", "config"} => cache.blobs = "named"
    /\ b.pc = "config" => cache.rootfs = "whole"

\* What holds of every version, the one being built included.
FilesPast == PublishedIntact /\ NoIdentityShipped /\ \A v \in Versions : rec[v] <= begun[v]

\* The number of a build is new, and the files of its directory carry it as
\* far as the build has come.
FilesNow ==
    /\ b.pc \in Early => \A v \in Versions : begun[v] < b.n
    /\ b.pc \in Cleaned => b.n > 0 /\ begun[b.v] = b.n
    /\ b.pc \in Cleaned \ Registered => rec[b.v] < b.n
    /\ b.pc \in Cleaned \ Snapped => dir[b.v].snap = 0
    /\ b.pc \in Based => dir[b.v].rootfs = b.n
    /\ b.pc \in Synced => dir[b.v].ran /\ ~dir[b.v].ident
    /\ b.pc \in Snapped => dir[b.v].snap = b.n
    /\ b.pc \in Expected => dir[b.v].expect = b.n
    /\ b.pc \in Described => dir[b.v].manifest = b.n
    /\ b.pc \in Signed => dir[b.v].sig = b.n
    /\ b.pc \in Registered => rec[b.v] = b.n

FilesInv == FilesPast /\ FilesNow

\* What the tools of u that ran have made is there.
UpSoFar(u) ==
    /\ upk[u] >= 1 => u \in net.ns
    /\ upk[u] >= 2 => u \in net.veth
    /\ upk[u] >= 3 => u \in net.tap
    /\ upk[u] >= 5 => u \in net.nat

\* Whatever is not being used by its owner is clean.
NetInv ==
    /\ \A u \in Users : UpSoFar(u)
    /\ \A u \in Sbx : cp[u] = "live" => upk[u] = 6
    /\ gs \in {"gated", "run", "allowed"} => upk[Live] = 6 /\ Live \in net.gate
    /\ b.net /\ b.pc \in Networked \ {"up"} => upk[b.v] = 6
    /\ \A u \in Sbx : cp[u] \in {"new", "gone"} /\ u \notin upset => Clean(net, u)
    /\ gs = "idle" /\ Live \notin upset => Clean(net, Live)
    /\ \A v \in Versions :
        ~(b.v = v /\ b.net /\ b.pc \in Networked) /\ v \notin upset => Clean(net, v)

\* The builder's VM runs between the boot and the end of a phase, and only a
\* build that asked for a network sets one up.
VmInv ==
    /\ bvm => b.pc \in Running \cup {"snap", "expect"}
    /\ b.pc = "up" => b.net

\* A step of u's network leaves every other instance what it had.
Apart(u) ==
    \A w \in Users \ {u} :
        /\ UpSoFar(w) => UpSoFar(w)'
        /\ Clean(net, w) => Clean(net, w)'
        /\ w \in net.gate => w \in net'.gate
        /\ upk'[w] = upk[w] /\ (w \in upset' <=> w \in upset)

NetShape == net \in Nets /\ upk \in [Users -> 0..6] /\ upset \in SUBSET Users
-----------------------------------------------------------------------------
\* Down removes what is u's, and nothing else.
LEMMA DownNet ==
  ASSUME NEW n \in Nets, NEW u \in Users
  PROVE  /\ Down(n, u) \in Nets /\ Clean(Down(n, u), u)
         /\ Down(n, u).ns = n.ns \ {u} /\ Down(n, u).veth = n.veth \ {u}
         /\ Down(n, u).tap = n.tap \ {u} /\ Down(n, u).nat = n.nat \ {u}
         /\ Down(n, u).gate = n.gate \ {u}
         /\ \A w \in Users : Clean(n, w) => Clean(Down(n, u), w)
  BY BuildAssumption, Zenon DEF Down, Nets, Clean

\* TakeDown: u is clean, the others are as they were.
LEMMA TakeDownStep ==
  ASSUME Shape, NEW u \in Users, TakeDown(u)
  PROVE  NetShape' /\ Apart(u) /\ UpSoFar(u)' /\ Clean(net, u)' /\ upk'[u] = 0 /\ upset' = upset
  <1>1. net \in Nets /\ upk \in [Users -> 0..6] /\ upset \in SUBSET Users
    BY Zenon DEF Shape
  <1>2. net' = Down(net, u) /\ upset' = upset /\ upk' = [upk EXCEPT ![u] = 0]
    BY Zenon DEF TakeDown
  <1>3. upk' \in [Users -> 0..6] /\ upk'[u] = 0 /\ \A w \in Users \ {u} : upk'[w] = upk[w]
    BY <1>1, <1>2
  <1>4. net' \in Nets /\ Clean(net', u)
    BY <1>1, <1>2, DownNet, Zenon
  <1>5. Apart(u)
    BY <1>1, <1>2, <1>3, DownNet DEF Apart, UpSoFar
  <1> QED
    BY <1>1, <1>2, <1>3, <1>4, <1>5 DEF NetShape, UpSoFar

\* UpBegin: the same, and u is no longer excused.
LEMMA UpBeginStep ==
  ASSUME Shape, NEW u \in Users, UpBegin(u)
  PROVE  NetShape' /\ Apart(u) /\ UpSoFar(u)' /\ Clean(net, u)' /\ upk'[u] = 0
  <1>1. net \in Nets /\ upk \in [Users -> 0..6] /\ upset \in SUBSET Users
    BY Zenon DEF Shape
  <1>2. net' = Down(net, u) /\ upset' = upset \ {u} /\ upk' = [upk EXCEPT ![u] = 0]
    BY Zenon DEF UpBegin
  <1>3. upk' \in [Users -> 0..6] /\ upk'[u] = 0 /\ \A w \in Users \ {u} : upk'[w] = upk[w]
    BY <1>1, <1>2
  <1>4. net' \in Nets /\ Clean(net', u)
    BY <1>1, <1>2, DownNet, Zenon
  <1>5. Apart(u)
    BY <1>1, <1>2, <1>3, DownNet DEF Apart, UpSoFar
  <1> QED
    BY <1>1, <1>2, <1>3, <1>4, <1>5 DEF NetShape, UpSoFar

\* One tool adds to u what its name says.
LEMMA UpStepNet ==
  ASSUME NEW n \in Nets, NEW u \in Users, NEW k \in 0..5,
         NEW m, m \in UpResults(n, u, UpSteps[k + 1])
  PROVE  /\ m \in Nets /\ m.gate = n.gate
         /\ n.ns \subseteq m.ns /\ n.veth \subseteq m.veth /\ n.tap \subseteq m.tap /\ n.nat \subseteq m.nat
         /\ \A w \in Users \ {u} : Clean(n, w) => Clean(m, w)
         /\ k = 0 => u \in m.ns
         /\ k = 1 => u \in m.veth
         /\ k = 2 => u \in m.tap
         /\ k = 4 => u \in m.nat
  <1>1. CASE k = 0
    <2>1. m = [n EXCEPT !.ns = @ \cup {u}]
      BY <1>1 DEF UpResults, UpSteps, UpStep, Checked
    <2> QED  BY <1>1, <2>1 DEF Nets, Clean
  <1>2. CASE k = 1
    <2>1. m = [n EXCEPT !.veth = @ \cup {u}]
      BY <1>2 DEF UpResults, UpSteps, UpStep, Checked
    <2> QED  BY <1>2, <2>1 DEF Nets, Clean
  <1>3. CASE k = 2
    <2>1. m = [n EXCEPT !.tap = @ \cup {u}]
      BY <1>3 DEF UpResults, UpSteps, UpStep, Checked
    <2> QED  BY <1>3, <2>1 DEF Nets, Clean
  <1>4. CASE k = 3
    <2>1. m = [n EXCEPT !.route = u] \/ m = n
      BY <1>4 DEF UpResults, UpSteps, UpStep, Checked
    <2> QED  BY <1>4, <2>1 DEF Nets, Clean
  <1>5. CASE k = 4
    <2>1. m = [n EXCEPT !.nat = @ \cup {u}]
      BY <1>5 DEF UpResults, UpSteps, UpStep, Checked
    <2> QED  BY <1>5, <2>1 DEF Nets, Clean
  <1>6. CASE k = 5
    <2>1. m = [n EXCEPT !.fwd = @ \cup {u}] \/ m = n
      BY <1>6 DEF UpResults, UpSteps, UpStep, Checked
    <2> QED  BY <1>6, <2>1 DEF Nets, Clean
  <1> QED
    BY <1>1, <1>2, <1>3, <1>4, <1>5, <1>6

\* UpNext: one more tool of u has run.
LEMMA UpNextStep ==
  ASSUME Shape, NEW u \in Users, UpSoFar(u), UpNext(u)
  PROVE  NetShape' /\ Apart(u) /\ UpSoFar(u)' /\ upset' = upset
  <1>1. net \in Nets /\ upk \in [Users -> 0..6] /\ upset \in SUBSET Users
    BY Zenon DEF Shape
  <1>2. upk[u] \in 0..5
    BY <1>1 DEF UpNext, UpSteps
  <1>3. upk' \in [Users -> 0..6] /\ upk'[u] = upk[u] + 1 /\ \A w \in Users \ {u} : upk'[w] = upk[w]
    BY <1>1, <1>2 DEF UpNext
  <1>4. net' \in UpResults(net, u, UpSteps[upk[u] + 1]) /\ upset' = upset
    BY Zenon DEF UpNext
  <1>5. Apart(u)
    BY <1>1, <1>2, <1>3, <1>4, UpStepNet DEF Apart, UpSoFar
  <1>6. UpSoFar(u)'
    BY <1>1, <1>2, <1>3, <1>4, UpStepNet DEF UpSoFar
  <1> QED
    BY <1>1, <1>2, <1>3, <1>4, <1>5, <1>6, UpStepNet, Zenon DEF NetShape

\* UpFails: the part that is up stays, and u is excused.
LEMMA UpFailsStep ==
  ASSUME Shape, NEW u \in Users, UpFails(u)
  PROVE  NetShape' /\ Apart(u) /\ UpSoFar(u)' /\ u \in upset' /\ upk'[u] = 0
  BY DEF Shape, NetShape, Apart, UpSoFar, UpFails, Clean
-----------------------------------------------------------------------------
\* Goto moves the builder on and keeps what it is building.
LEMMA GotoStep ==
  ASSUME Shape, b.pc # "idle", NEW pc \in Early \cup Cleaned, Goto(pc)
  PROVE  /\ b' \in Builders /\ (b'.pc = "idle" <=> b'.v = NoVersion)
         /\ b'.pc = pc /\ b'.v = b.v /\ b'.n = b.n /\ b'.oci = b.oci /\ b'.net = b.net
         /\ b.v \in Versions /\ b.v \in Users
  <1> USE Zenon
  <1>1. b \in Builders /\ b.v \in Versions
    BY DEF Shape, Builders
  <1>2. pc # "idle"
    BY DEF Early, Cleaned, Based, Synced, Snapped, Expected, Described, Signed, Registered
  <1>3. /\ b' \in Builders
        /\ b'.pc = pc /\ b'.v = b.v /\ b'.n = b.n /\ b'.oci = b.oci /\ b'.net = b.net
    BY <1>1 DEF Goto, Builders
  <1> QED
    BY <1>1, <1>2, <1>3, BuildAssumption DEF Users

\* An idle builder builds nothing.
LEMMA IdleStep ==
  ASSUME b' = Idle
  PROVE  /\ b' \in Builders /\ b'.pc = "idle" /\ b'.v = NoVersion /\ ~b'.net
         /\ (b'.pc = "idle" <=> b'.v = NoVersion)
  BY Zenon DEF Idle, Builders

\* The steps of EndPhase: the builder moves on or is idle.
LEMMA EndPhaseStep ==
  ASSUME Shape, b.pc # "idle", NEW pc \in {"idle", "bake2"}, EndPhase(pc)
  PROVE  /\ b' \in Builders /\ (b'.pc = "idle" <=> b'.v = NoVersion) /\ b'.pc = pc
         /\ pc # "idle" => b'.v = b.v /\ b'.n = b.n /\ b'.net = b.net
         /\ b.v \in Versions /\ b.v \in Users /\ bvm' = FALSE /\ NetShape'
  <1> USE Zenon
  <1>1. b \in Builders /\ b.v \in Versions /\ b.v \in Users
    BY DEF Shape, Builders, Users
  <1>2. NetShape'
    <2>1. CASE b.net
      BY <1>1, <2>1, TakeDownStep DEF EndPhase
    <2>2. CASE ~b.net
      BY <2>2 DEF EndPhase, Shape, NetShape
    <2> QED  BY <2>1, <2>2
  <1>3. CASE pc = "idle"
    BY <1>1, <1>2, <1>3, IdleStep DEF EndPhase
  <1>4. CASE pc = "bake2"
    <2>1. pc \in Early \cup Cleaned /\ Goto(pc)
      BY <1>4 DEF EndPhase, Goto, Cleaned, Based, Synced
    <2> QED  BY <1>1, <1>2, <1>4, <2>1, GotoStep DEF EndPhase
  <1> QED
    BY <1>3, <1>4

-----------------------------------------------------------------------------
\* Writing one file of the directory leaves the others, and the other
\* directories, alone.
LEMMA FileStep ==
  ASSUME Shape, b.v \in Versions, NEW f \in {"snap", "expect", "manifest", "sig"}, File(f, b.n)
  PROVE  /\ dir' \in [Versions -> Dirs]
         /\ \A v \in Versions \ {b.v} : dir'[v] = dir[v]
         /\ dir'[b.v].ran = dir[b.v].ran /\ dir'[b.v].ident = dir[b.v].ident
         /\ dir'[b.v].rootfs = dir[b.v].rootfs
         /\ dir'[b.v].snap = IF f = "snap" THEN b.n ELSE dir[b.v].snap
         /\ dir'[b.v].expect = IF f = "expect" THEN b.n ELSE dir[b.v].expect
         /\ dir'[b.v].manifest = IF f = "manifest" THEN b.n ELSE dir[b.v].manifest
         /\ dir'[b.v].sig = IF f = "sig" THEN b.n ELSE dir[b.v].sig
  <1> USE Zenon
  <1>1. dir[b.v] \in Dirs /\ b.n \in Nat /\ dir \in [Versions -> Dirs]
    BY DEF Shape, Builders
  <1>2. dir' = [dir EXCEPT ![b.v] = [dir[b.v] EXCEPT ![f] = b.n]]
    BY DEF File
  <1>3. dir'[b.v] = [dir[b.v] EXCEPT ![f] = b.n] /\ \A v \in Versions \ {b.v} : dir'[v] = dir[v]
    BY <1>1, <1>2
  <1>4. CASE f = "snap"
    <2>1. dir'[b.v] = [dir[b.v] EXCEPT !.snap = b.n]
      BY <1>3, <1>4
    <2>2. dir'[b.v] \in Dirs
      BY <1>1, <2>1 DEF Dirs
    <2> QED  BY <1>1, <1>2, <1>3, <1>4, <2>1, <2>2 DEF Dirs
  <1>5. CASE f = "expect"
    <2>1. dir'[b.v] = [dir[b.v] EXCEPT !.expect = b.n]
      BY <1>3, <1>5
    <2>2. dir'[b.v] \in Dirs
      BY <1>1, <2>1 DEF Dirs
    <2> QED  BY <1>1, <1>2, <1>3, <1>5, <2>1, <2>2 DEF Dirs
  <1>6. CASE f = "manifest"
    <2>1. dir'[b.v] = [dir[b.v] EXCEPT !.manifest = b.n]
      BY <1>3, <1>6
    <2>2. dir'[b.v] \in Dirs
      BY <1>1, <2>1 DEF Dirs
    <2> QED  BY <1>1, <1>2, <1>3, <1>6, <2>1, <2>2 DEF Dirs
  <1>7. CASE f = "sig"
    <2>1. dir'[b.v] = [dir[b.v] EXCEPT !.sig = b.n]
      BY <1>3, <1>7
    <2>2. dir'[b.v] \in Dirs
      BY <1>1, <2>1 DEF Dirs
    <2> QED  BY <1>1, <1>2, <1>3, <1>7, <2>1, <2>2 DEF Dirs
  <1> QED
    BY <1>4, <1>5, <1>6, <1>7
-----------------------------------------------------------------------------
\* The steps of the egress sandboxes and of the gated session.
HostStep ==
    \/ \E u \in Sbx : CreateBegin(u) \/ CreateUp(u) \/ CreateBoot(u) \/ DestroyEgress(u)
    \/ SessionUp \/ SessionGate \/ SessionBoot \/ SessionAllow \/ SessionEnd

\* A step of the host leaves the builder alone.
LEMMA HostApart ==
  HostStep => UNCHANGED buildVars
  BY Zenon DEF HostStep, CreateBegin, CreateUp, CreateBoot, DestroyEgress,
         SessionUp, SessionGate, SessionBoot, SessionAllow, SessionEnd

\* The gate is apart from the wires.
SameWires(n, m) ==
    /\ m.ns = n.ns /\ m.veth = n.veth /\ m.tap = n.tap
    /\ m.nat = n.nat /\ m.fwd = n.fwd /\ m.route = n.route

\* gate_up adds a gate, add_allow an allowed host, teardown removes both; none
\* of them touches a wire.
LEMMA GateNet ==
  ASSUME NEW n \in Nets, NEW u \in Users
  PROVE  /\ GateUp(n, u) \in Nets /\ SameWires(n, GateUp(n, u))
         /\ GateUp(n, u).gate = n.gate \cup {u}
         /\ AddAllow(n, u) \in Nets /\ SameWires(n, AddAllow(n, u))
         /\ AddAllow(n, u).gate = n.gate
         /\ GateDown(n, u) \in Nets /\ SameWires(n, GateDown(n, u))
         /\ GateDown(n, u).gate = n.gate \ {u}
  <1> USE Zenon
  <1>1. /\ GateUp(n, u) \in Nets /\ SameWires(n, GateUp(n, u))
        /\ GateUp(n, u).gate = n.gate \cup {u}
    <2> DEFINE m == [n EXCEPT !.gate = n.gate \cup {u}]
    <2>1. m \in Nets /\ SameWires(n, m) /\ m.gate = n.gate \cup {u} /\ m.allow = n.allow
      BY DEF Nets, SameWires
    <2>2. GateUp(n, u) = [m EXCEPT !.allow = m.allow \ {u}]
      BY <2>1 DEF GateUp
    <2> HIDE DEF m
    <2> QED  BY <2>1, <2>2, SMT DEF Nets, SameWires
  <1>2. /\ AddAllow(n, u) \in Nets /\ SameWires(n, AddAllow(n, u))
        /\ AddAllow(n, u).gate = n.gate
    BY DEF Nets, AddAllow, SameWires
  <1>3. /\ GateDown(n, u) \in Nets /\ SameWires(n, GateDown(n, u))
        /\ GateDown(n, u).gate = n.gate \ {u}
    <2> DEFINE m == [n EXCEPT !.gate = n.gate \ {u}]
    <2>1. m \in Nets /\ SameWires(n, m) /\ m.gate = n.gate \ {u} /\ m.allow = n.allow
      BY DEF Nets, SameWires
    <2>2. GateDown(n, u) = [m EXCEPT !.allow = m.allow \ {u}]
      BY <2>1 DEF GateDown
    <2> HIDE DEF m
    <2> QED  BY <2>1, <2>2, SMT DEF Nets, SameWires
  <1> QED
    BY <1>1, <1>2, <1>3

\* UpNext keeps the shape whatever ran before.
LEMMA UpNextShape ==
  ASSUME Shape, NEW u \in Users, UpNext(u)
  PROVE  NetShape'
  <1>1. net \in Nets /\ upk \in [Users -> 0..6] /\ upset \in SUBSET Users
    BY Zenon DEF Shape
  <1>2. upk[u] \in 0..5
    BY <1>1 DEF UpNext, UpSteps
  <1>3. upk' \in [Users -> 0..6]
    BY <1>1, <1>2 DEF UpNext
  <1>4. net' \in UpResults(net, u, UpSteps[upk[u] + 1]) /\ upset' = upset
    BY Zenon DEF UpNext
  <1> QED
    BY <1>1, <1>2, <1>3, <1>4, UpStepNet, Zenon DEF NetShape

\* The host's steps keep the shape.
LEMMA HostShape ==
  ASSUME Shape, HostStep
  PROVE  Shape'
  <1> USE Zenon
  <1>1. b' = b /\ bvm' = bvm /\ cache' = cache /\ dir' = dir /\ key' = key /\ rec' = rec
        /\ latest' = latest /\ begun' = begun
    BY HostApart DEF buildVars
  <1>2. SUFFICES /\ NetShape'
                 /\ cp' \in [Sbx -> {"new", "up", "live", "gone"}]
                 /\ gs' \in {"idle", "up", "gated", "run", "allowed"}
    BY <1>1 DEF Shape, NetShape
  <1>3. /\ net \in Nets /\ upk \in [Users -> 0..6] /\ upset \in SUBSET Users /\ NetShape
        /\ cp \in [Sbx -> {"new", "up", "live", "gone"}]
        /\ gs \in {"idle", "up", "gated", "run", "allowed"}
        /\ Live \in Users /\ \A u \in Sbx : u \in Users
    BY DEF Shape, NetShape, Users
  <1>4. ASSUME NEW u \in Sbx, CreateBegin(u) PROVE <1>2!1
    BY <1>3, <1>4, UpBeginStep DEF CreateBegin
  <1>5. ASSUME NEW u \in Sbx, CreateUp(u) PROVE <1>2!1
    BY <1>3, <1>5, UpNextShape, UpFailsStep DEF CreateUp
  <1>6. ASSUME NEW u \in Sbx, CreateBoot(u) PROVE <1>2!1
    BY <1>3, <1>6, TakeDownStep DEF CreateBoot, NetShape
  <1>7. ASSUME NEW u \in Sbx, DestroyEgress(u) PROVE <1>2!1
    BY <1>3, <1>7, TakeDownStep DEF DestroyEgress
  <1>8. ASSUME SessionUp PROVE <1>2!1
    BY <1>3, <1>8, UpBeginStep, UpNextShape, UpFailsStep DEF SessionUp
  <1>9. ASSUME SessionGate PROVE <1>2!1
    BY <1>3, <1>9, TakeDownStep, GateNet, SMT DEF SessionGate, NetShape
  <1>10. ASSUME SessionBoot PROVE <1>2!1
    BY <1>3, <1>10, TakeDownStep DEF SessionBoot, NetShape
  <1>11. ASSUME SessionAllow PROVE <1>2!1
    BY <1>3, <1>11, TakeDownStep, GateNet, SMT DEF SessionAllow, NetShape
  <1>12. ASSUME SessionEnd PROVE <1>2!1
    <2>1. GateDown(net, Live) \in Nets
      BY <1>3, GateNet
    <2>2. net' \in Nets
      BY <1>3, <1>12, <2>1, DownNet DEF SessionEnd
    <2> QED  BY <1>3, <1>12, <2>2, SMT DEF SessionEnd, NetShape
  <1> QED
    BY <1>4, <1>5, <1>6, <1>7, <1>8, <1>9, <1>10, <1>11, <1>12 DEF HostStep
-----------------------------------------------------------------------------
BuilderShape ==
    /\ b \in Builders /\ (b.pc = "idle" <=> b.v = NoVersion)
    /\ cache \in Caches
    /\ dir \in [Versions -> Dirs] /\ key \in {"none", "torn", "whole"}
    /\ rec \in [Versions -> Nat] /\ begun \in [Versions -> Nat]
    /\ latest \in Versions \cup {NoVersion}

\* A build number is above every number begun.
LEMMA BuildBeginStep ==
  ASSUME Shape, NEW v \in Versions, BuildBegin(v)
  PROVE  /\ b' \in Builders /\ b'.v = v /\ b'.pc \in {"source", "dir"}
         /\ \A w \in Versions : begun[w] < b'.n
         /\ (b'.pc = "idle" <=> b'.v = NoVersion)
  <1>1. begun \in [Versions -> Nat] /\ NoVersion \notin Versions
    BY BuildAssumption, Zenon DEF Shape
  <1>2. PICK last \in Versions, oci \in BOOLEAN, egress \in BOOLEAN :
          /\ \A w \in Versions : begun[w] <= begun[last]
          /\ b' = [pc |-> IF oci THEN "source" ELSE "dir", v |-> v, n |-> 1 + begun[last],
                   oci |-> oci, net |-> egress]
    BY Zenon DEF BuildBegin
  <1>3. /\ b'.v = v /\ b'.n = 1 + begun[last] /\ b'.pc \in {"source", "dir"}
        /\ b'.oci = oci /\ b'.net = egress
    BY <1>2, Zenon
  <1>4. b' \in Builders
    BY <1>1, <1>2 DEF Builders, Early
  <1> QED
    BY <1>1, <1>2, <1>3, <1>4

\* What the bakes make of a cache entry.
LEMMA BakeStep ==
  ASSUME NEW c \in Caches, NEW x \in {"named", "other"}
  PROVE  /\ BakeBegin(c, x) \in Caches /\ BakeEnd(c) \in Caches /\ BakeConfig(c) \in Caches
         /\ BakeBegin(c, x).rootfs = "part" /\ BakeBegin(c, x).blobs = x
         /\ BakeBegin(c, x).config = c.config
         /\ BakeEnd(c).rootfs = "whole" /\ BakeEnd(c).blobs = c.blobs /\ BakeEnd(c).config = c.config
         /\ BakeConfig(c).rootfs = c.rootfs /\ BakeConfig(c).blobs = c.blobs /\ BakeConfig(c).config
  <1> USE Zenon
  <1>1. /\ BakeBegin(c, x) \in Caches /\ BakeBegin(c, x).rootfs = "part"
        /\ BakeBegin(c, x).blobs = x /\ BakeBegin(c, x).config = c.config
    <2> DEFINE m == [c EXCEPT !.rootfs = "part"]
    <2>1. m \in Caches /\ m.rootfs = "part" /\ m.config = c.config
      BY DEF Caches
    <2>2. BakeBegin(c, x) = [m EXCEPT !.blobs = x]
      BY DEF BakeBegin
    <2> HIDE DEF m
    <2> QED  BY <2>1, <2>2 DEF Caches
  <1>2. /\ BakeEnd(c) \in Caches
        /\ BakeEnd(c).rootfs = "whole" /\ BakeEnd(c).blobs = c.blobs /\ BakeEnd(c).config = c.config
    BY DEF BakeEnd, Caches
  <1>3. /\ BakeConfig(c) \in Caches
        /\ BakeConfig(c).rootfs = c.rootfs /\ BakeConfig(c).blobs = c.blobs /\ BakeConfig(c).config
    <2>1. BakeConfig(c).config
      BY DEF BakeConfig, Caches
    <2>2. BakeConfig(c) \in Caches /\ BakeConfig(c).rootfs = c.rootfs /\ BakeConfig(c).blobs = c.blobs
      BY DEF BakeConfig, Caches
    <2> QED  BY <2>1, <2>2
  <1> QED
    BY <1>1, <1>2, <1>3

\* The flags of a directory: ident and ran change alone.
LEMMA FlagStep ==
  ASSUME Shape, b.v \in Versions, NEW x \in BOOLEAN
  PROVE  /\ dir' = [dir EXCEPT ![b.v].ident = x] =>
            /\ dir' \in [Versions -> Dirs] /\ \A v \in Versions \ {b.v} : dir'[v] = dir[v]
            /\ dir'[b.v].rootfs = dir[b.v].rootfs /\ dir'[b.v].snap = dir[b.v].snap
         /\ dir' = [dir EXCEPT ![b.v].ran = x] =>
            /\ dir' \in [Versions -> Dirs] /\ \A v \in Versions \ {b.v} : dir'[v] = dir[v]
            /\ dir'[b.v].rootfs = dir[b.v].rootfs /\ dir'[b.v].snap = dir[b.v].snap
            /\ dir'[b.v].ran = x /\ dir'[b.v].ident = dir[b.v].ident
  <1> USE Zenon
  <1>1. dir[b.v] \in Dirs /\ dir \in [Versions -> Dirs]
    BY DEF Shape
  <1>2. ASSUME dir' = [dir EXCEPT ![b.v].ident = x]
        PROVE  /\ dir' \in [Versions -> Dirs] /\ \A v \in Versions \ {b.v} : dir'[v] = dir[v]
               /\ dir'[b.v].rootfs = dir[b.v].rootfs /\ dir'[b.v].snap = dir[b.v].snap
    <2>1. dir'[b.v] = [dir[b.v] EXCEPT !.ident = x] /\ \A v \in Versions \ {b.v} : dir'[v] = dir[v]
      BY <1>1, <1>2
    <2>2. dir'[b.v] \in Dirs /\ dir'[b.v].rootfs = dir[b.v].rootfs /\ dir'[b.v].snap = dir[b.v].snap
      BY <1>1, <2>1 DEF Dirs
    <2>3. dir' = [dir EXCEPT ![b.v] = dir'[b.v]]
      BY <1>1, <1>2, <2>1
    <2> QED  BY <1>1, <2>1, <2>2, <2>3
  <1>3. ASSUME dir' = [dir EXCEPT ![b.v].ran = x]
        PROVE  /\ dir' \in [Versions -> Dirs] /\ \A v \in Versions \ {b.v} : dir'[v] = dir[v]
               /\ dir'[b.v].rootfs = dir[b.v].rootfs /\ dir'[b.v].snap = dir[b.v].snap
               /\ dir'[b.v].ran = x /\ dir'[b.v].ident = dir[b.v].ident
    <2>1. dir'[b.v] = [dir[b.v] EXCEPT !.ran = x] /\ \A v \in Versions \ {b.v} : dir'[v] = dir[v]
      BY <1>1, <1>3
    <2>2. /\ dir'[b.v] \in Dirs /\ dir'[b.v].rootfs = dir[b.v].rootfs /\ dir'[b.v].snap = dir[b.v].snap
          /\ dir'[b.v].ran = x /\ dir'[b.v].ident = dir[b.v].ident
      BY <1>1, <2>1 DEF Dirs
    <2>3. dir' = [dir EXCEPT ![b.v] = dir'[b.v]]
      BY <1>1, <1>3, <2>1
    <2> QED  BY <1>1, <2>1, <2>2, <2>3
  <1> QED
    BY <1>2, <1>3

\* The steps of the builder.
BuilderStep ==
    \/ \E v \in Versions : BuildBegin(v)
    \/ BuildSource \/ BuildPull \/ BuildBake \/ BuildClean \/ BuildCleanDies \/ BuildCopy
    \/ BuildNet \/ BuildUp \/ BuildBoot \/ BuildInject \/ BuildRun \/ BuildSync
    \/ PrebakeBoot \/ PrebakeSnapshot \/ PrebakeExpect
    \/ BuildKey \/ BuildKeyWrite \/ BuildManifest \/ BuildSign \/ BuildPut
    \/ BuildError \/ BuilderDies

\* A fresh directory.
LEMMA FreshDir ==
  NoFiles \in Dirs /\ NoFiles.snap = 0 /\ NoFiles.rootfs = 0 /\ ~NoFiles.ident
  <1> USE Zenon
  <1>1. NoFiles \in Dirs /\ NoFiles.snap = 0 /\ NoFiles.rootfs = 0
    BY DEF NoFiles, Dirs
  <1>2. ~NoFiles.ident
    BY DEF NoFiles
  <1> QED
    BY <1>1, <1>2

\* A directory with a copied base.
LEMMA CopiedDir ==
  ASSUME NEW n \in Nat, NEW id \in BOOLEAN
  PROVE  /\ [NoFiles EXCEPT !.rootfs = n, !.ident = id] \in Dirs
         /\ [NoFiles EXCEPT !.rootfs = n, !.ident = id].rootfs = n
         /\ [NoFiles EXCEPT !.rootfs = n, !.ident = id].snap = 0
  <1> USE Zenon
  <1> DEFINE m == [NoFiles EXCEPT !.rootfs = n]
  <1>1. m \in Dirs /\ m.rootfs = n /\ m.snap = 0
    BY FreshDir DEF Dirs
  <1> SUFFICES [m EXCEPT !.ident = id] \in Dirs /\ [m EXCEPT !.ident = id].rootfs = n
               /\ [m EXCEPT !.ident = id].snap = 0
    OBVIOUS
  <1> HIDE DEF m
  <1> QED
    BY <1>1 DEF Dirs

\* A directory the removal of which was cut short.
LEMMA CutDir ==
  ASSUME NEW m \in Nat, NEW n \in Nat
  PROVE  /\ [NoFiles EXCEPT !.rootfs = m, !.sig = n] \in Dirs
         /\ [NoFiles EXCEPT !.rootfs = m, !.sig = n].snap = 0
  <1> USE Zenon
  <1> DEFINE f == [NoFiles EXCEPT !.rootfs = m]
  <1>1. f \in Dirs /\ f.snap = 0
    BY FreshDir DEF Dirs
  <1> SUFFICES [f EXCEPT !.sig = n] \in Dirs /\ [f EXCEPT !.sig = n].snap = 0
    OBVIOUS
  <1> HIDE DEF f
  <1> QED
    BY <1>1 DEF Dirs

\* The builder's steps keep the shape.
LEMMA BuilderKeeps ==
  ASSUME Shape, BuilderStep
  PROVE  Shape'
  <1> USE Zenon
  <1> DEFINE Goal == NetShape' /\ BuilderShape' /\ UNCHANGED <<cp, gs>>
  <1>1. SUFFICES Goal
    BY DEF Shape, NetShape, BuilderShape
  <1>2. NetShape /\ BuilderShape
    BY DEF Shape, NetShape, BuilderShape
  <1>3. b.pc # "idle" => b.v \in Versions /\ b.v \in Users /\ b.n \in Nat
    BY DEF Shape, Builders, Users
  <1>4. ASSUME Quiet PROVE NetShape' /\ UNCHANGED <<cp, gs>>
    BY <1>2, <1>4 DEF Quiet, NetShape, hostVars
  <1>5. {"source", "pull", "bake", "config", "dir", "copy", "net", "up", "boot", "check", "copied",
         "ran", "bake2", "snap", "expect", "key", "keywrite", "manifest", "sig", "put", "latest"}
           \subseteq Early \cup Cleaned
    BY DEF Early, Cleaned, Based, Synced, Snapped, Expected, Described, Signed, Registered
  <1>6. ASSUME NEW v \in Versions, BuildBegin(v) PROVE Goal
    <2>1. /\ b' \in Builders /\ (b'.pc = "idle" <=> b'.v = NoVersion)
      BY <1>6, BuildBeginStep
    <2> QED  BY <1>2, <1>4, <1>6, <2>1 DEF BuildBegin, BuilderShape
  <1>7. ASSUME BuildSource PROVE Goal
    BY <1>2, <1>4, <1>5, <1>7, GotoStep DEF BuildSource, BuilderShape
  <1>8. ASSUME BuildPull PROVE Goal
    BY <1>2, <1>4, <1>5, <1>8, GotoStep, BakeStep, SMT DEF BuildPull, BuilderShape
  <1>9. ASSUME BuildBake PROVE Goal
    BY <1>2, <1>4, <1>5, <1>9, GotoStep, BakeStep, SMT DEF BuildBake, BuilderShape
  <1>10. ASSUME BuildClean PROVE Goal
    BY <1>2, <1>3, <1>4, <1>5, <1>10, GotoStep, FreshDir DEF BuildClean, BuilderShape
  <1>11. ASSUME BuildCleanDies PROVE Goal
    <2>1. PICK left \in SUBSET {"rootfs", "sig"} :
            dir' = [dir EXCEPT ![b.v] = [NoFiles EXCEPT
                !.rootfs = IF "rootfs" \in left THEN dir[b.v].rootfs ELSE 0,
                !.sig = IF "sig" \in left THEN dir[b.v].sig ELSE 0]]
      BY <1>11 DEF BuildCleanDies
    <2>2. /\ (IF "rootfs" \in left THEN dir[b.v].rootfs ELSE 0) \in Nat
          /\ (IF "sig" \in left THEN dir[b.v].sig ELSE 0) \in Nat
      BY <1>2, <1>3, <1>11 DEF BuilderShape, Dirs, BuildCleanDies
    <2>3. dir' \in [Versions -> Dirs]
      BY <1>2, <2>1, <2>2, CutDir DEF BuilderShape
    <2> QED  BY <1>2, <1>3, <1>4, <1>11, <2>3, IdleStep DEF BuildCleanDies, BuilderShape
  <1>12. ASSUME BuildCopy PROVE Goal
    <2>1. PICK id \in BOOLEAN :
            dir' = [dir EXCEPT ![b.v] = [NoFiles EXCEPT !.rootfs = b.n, !.ident = id]]
      BY <1>12 DEF BuildCopy
    <2>2. b.n \in Nat
      BY <1>3, <1>12 DEF BuildCopy
    <2>3. dir' \in [Versions -> Dirs]
      BY <1>2, <2>1, <2>2, CopiedDir DEF BuilderShape
    <2> QED  BY <1>2, <1>4, <1>5, <1>12, <2>3, GotoStep DEF BuildCopy, BuilderShape
  <1>13. ASSUME BuildNet PROVE Goal
    BY <1>2, <1>3, <1>5, <1>13, GotoStep, UpBeginStep DEF BuildNet, BuilderShape, NetShape, hostVars
  <1>14. ASSUME BuildUp PROVE Goal
    <2>1. b.pc # "idle" /\ b.v \in Users
      BY <1>3, <1>14 DEF BuildUp
    <2>2. NetShape'
      BY <1>2, <1>14, <2>1, UpNextShape, UpFailsStep DEF BuildUp, NetShape
    <2> QED  BY <1>2, <1>5, <1>14, <2>1, <2>2, GotoStep, IdleStep DEF BuildUp, BuilderShape, hostVars
  <1>15. ASSUME BuildBoot PROVE Goal
    BY <1>2, <1>3, <1>5, <1>15, GotoStep, IdleStep DEF BuildBoot, BuilderShape, NetShape, hostVars
  <1>16. ASSUME BuildInject PROVE Goal
    <2>1. b.pc # "idle" /\ b.v \in Versions
      BY <1>3, <1>16 DEF BuildInject
    <2>2. CASE EndPhase("idle") /\ UNCHANGED dir
      BY <1>2, <1>16, <2>1, <2>2, EndPhaseStep DEF BuildInject, BuilderShape, hostVars
    <2>3. CASE ~(EndPhase("idle") /\ UNCHANGED dir)
      <3>1. dir' \in [Versions -> Dirs]
        BY <1>16, <2>1, <2>3, FlagStep DEF BuildInject
      <3> QED  BY <1>2, <1>5, <1>16, <2>1, <2>3, <3>1, GotoStep DEF BuildInject, BuilderShape, NetShape, hostVars
    <2> QED  BY <2>2, <2>3
  <1>17. ASSUME BuildRun PROVE Goal
    <2>1. b.pc # "idle" /\ b.v \in Versions
      BY <1>3, <1>17 DEF BuildRun
    <2>2. CASE EndPhase("idle") /\ UNCHANGED dir
      BY <1>2, <1>17, <2>1, <2>2, EndPhaseStep DEF BuildRun, BuilderShape, hostVars
    <2>3. CASE ~(EndPhase("idle") /\ UNCHANGED dir)
      <3>1. dir' \in [Versions -> Dirs]
        BY <1>17, <2>1, <2>3, FlagStep DEF BuildRun
      <3> QED  BY <1>2, <1>5, <1>17, <2>1, <2>3, <3>1, GotoStep DEF BuildRun, BuilderShape, NetShape, hostVars
    <2> QED  BY <2>2, <2>3
  <1>18. ASSUME BuildSync PROVE Goal
    <2>1. b.pc # "idle" /\ b.v \in Versions
      BY <1>3, <1>18 DEF BuildSync
    <2>2. dir' \in [Versions -> Dirs]
      BY <1>2, <1>18, <2>1, FlagStep DEF BuildSync, BuilderShape
    <2>3. NetShape' /\ b' \in Builders /\ (b'.pc = "idle" <=> b'.v = NoVersion)
      BY <1>18, <2>1, EndPhaseStep DEF BuildSync
    <2> QED  BY <1>2, <1>18, <2>2, <2>3 DEF BuildSync, BuilderShape, hostVars
  <1>19. ASSUME PrebakeBoot PROVE Goal
    BY <1>2, <1>4, <1>5, <1>19, GotoStep, IdleStep DEF PrebakeBoot, BuilderShape
  <1>20. ASSUME PrebakeSnapshot PROVE Goal
    BY <1>2, <1>3, <1>4, <1>5, <1>20, GotoStep, IdleStep, FileStep DEF PrebakeSnapshot, BuilderShape
  <1>21. ASSUME PrebakeExpect PROVE Goal
    BY <1>2, <1>3, <1>4, <1>5, <1>21, GotoStep, IdleStep, FileStep DEF PrebakeExpect, BuilderShape
  <1>22. ASSUME BuildKey PROVE Goal
    BY <1>2, <1>4, <1>5, <1>22, GotoStep, IdleStep DEF BuildKey, BuilderShape
  <1>23. ASSUME BuildKeyWrite PROVE Goal
    BY <1>2, <1>4, <1>5, <1>23, GotoStep DEF BuildKeyWrite, BuilderShape
  <1>24. ASSUME BuildManifest PROVE Goal
    BY <1>2, <1>3, <1>4, <1>5, <1>24, GotoStep, FileStep DEF BuildManifest, BuilderShape
  <1>25. ASSUME BuildSign PROVE Goal
    BY <1>2, <1>3, <1>4, <1>5, <1>25, GotoStep, FileStep DEF BuildSign, BuilderShape
  <1>26. ASSUME BuildPut PROVE Goal
    BY <1>2, <1>3, <1>4, <1>5, <1>26, GotoStep, IdleStep DEF BuildPut, BuilderShape
  <1>27. ASSUME BuildError PROVE Goal
    BY <1>2, <1>4, <1>27, IdleStep DEF BuildError, BuilderShape
  <1>28. ASSUME BuilderDies PROVE Goal
    BY <1>2, <1>3, <1>28, IdleStep, SMT DEF BuilderDies, BuilderShape, NetShape, hostVars
  <1> QED
    BY <1>6, <1>7, <1>8, <1>9, <1>10, <1>11, <1>12, <1>13, <1>14, <1>15, <1>16, <1>17, <1>18, <1>19,
       <1>20, <1>21, <1>22, <1>23, <1>24, <1>25, <1>26, <1>27, <1>28 DEF BuilderStep

\* A step is the host's or the builder's.
LEMMA WhoSteps ==
  Next => HostStep \/ BuilderStep
  BY Zenon DEF Next, HostStep, BuilderStep

\* The states of the builder, of the host's network and of the template's
\* files stay within their types.
THEOREM ShapeHolds == Spec => []Shape
  <1> USE Zenon
  <1>1. Init => Shape
    <2> SUFFICES ASSUME Init PROVE Shape
      OBVIOUS
    <2>1. net \in Nets
      BY DEF Init, NoNet, Nets
    <2>2. b \in Builders /\ b.pc = "idle" /\ b.v = NoVersion
      BY DEF Init, Idle, Builders
    <2>3. cache \in Caches
      BY DEF Init, NoCache, Caches
    <2>4. dir \in [Versions -> Dirs]
      BY FreshDir DEF Init
    <2> QED  BY <2>1, <2>2, <2>3, <2>4, SMT DEF Init, Shape
  <1>2. Shape /\ [Next]_vars => Shape'
    <2> SUFFICES ASSUME Shape, [Next]_vars PROVE Shape'
      OBVIOUS
    <2>1. CASE HostStep
      BY <2>1, HostShape
    <2>2. CASE BuilderStep
      BY <2>2, BuilderKeeps
    <2>3. CASE UNCHANGED vars
      BY <2>3 DEF vars, Shape
    <2> QED  BY <2>1, <2>2, <2>3, WhoSteps
  <1> QED
    BY <1>1, <1>2, PTL DEF Spec
-----------------------------------------------------------------------------
\* CacheInv is about the cache and the builder's step only.
LEMMA CacheSteps ==
  ASSUME Shape, CacheInv, [Next]_vars
  PROVE  CacheInv'
  <1> USE Zenon
  <1>1. b.pc \in {"idle"} \cup Early \cup Cleaned /\ cache \in Caches
    BY DEF Shape, Builders
  <1>2. ASSUME b'.pc \notin {"pull", "bake", "config"}, UNCHANGED cache PROVE CacheInv'
    BY <1>2 DEF CacheInv
  <1>3. {"source", "pull", "bake", "config", "dir", "copy", "net", "up", "boot", "check", "copied",
         "ran", "bake2", "snap", "expect", "key", "keywrite", "manifest", "sig", "put", "latest"}
           \subseteq Early \cup Cleaned
    BY DEF Early, Cleaned, Based, Synced, Snapped, Expected, Described, Signed, Registered
  <1>4. CASE HostStep
    BY <1>4, HostApart DEF buildVars, CacheInv
  <1>5. ASSUME NEW v \in Versions, BuildBegin(v) PROVE CacheInv'
    BY <1>2, <1>5, BuildBeginStep DEF BuildBegin
  <1>6. CASE BuildSource
    <2>1. CASE CacheHit(cache) /\ Goto("dir") /\ UNCHANGED cache
      BY <1>2, <1>3, <1>6, <2>1, GotoStep DEF BuildSource
    <2>2. CASE ~CacheHit(cache) /\ Goto("pull") /\ UNCHANGED cache
      <3>1. b'.pc = "pull"
        BY <1>3, <1>6, <2>2, GotoStep DEF BuildSource
      <3>2. ~cache.config
        BY <1>1, <2>2 DEF CacheInv, CacheHit
      <3> QED  BY <2>2, <3>1, <3>2 DEF CacheInv
    <2> QED  BY <1>6, <2>1, <2>2 DEF BuildSource
  <1>7. CASE BuildPull
    <2>1. b'.pc = "bake"
      BY <1>3, <1>7, GotoStep DEF BuildPull
    <2>2. cache' = BakeBegin(cache, "named")
      BY <1>7 DEF BuildPull, Kept
    <2>3. cache'.blobs = "named" /\ cache'.config = cache.config
      BY <1>1, <2>2, BakeStep
    <2> QED  BY <1>7, <2>1, <2>3 DEF BuildPull, CacheInv
  <1>8. CASE BuildBake
    <2>1. CASE b.pc = "bake" /\ Goto("config") /\ cache' = BakeEnd(cache)
      <3>1. b'.pc = "config"
        BY <1>3, <2>1, GotoStep
      <3>2. cache'.rootfs = "whole" /\ cache'.blobs = cache.blobs /\ cache'.config = cache.config
        BY <1>1, <2>1, BakeStep
      <3> QED  BY <2>1, <3>1, <3>2 DEF CacheInv
    <2>2. CASE b.pc = "config" /\ Goto("dir") /\ cache' = BakeConfig(cache)
      <3>1. b'.pc = "dir"
        BY <1>3, <2>2, GotoStep
      <3>2. cache'.rootfs = cache.rootfs /\ cache'.blobs = cache.blobs
        BY <1>1, <2>2, BakeStep
      <3> QED  BY <2>2, <3>1, <3>2 DEF CacheInv
    <2> QED  BY <1>8, <2>1, <2>2 DEF BuildBake
  <1>9. ASSUME NEW pc \in Cleaned, Goto(pc), b.pc # "idle", UNCHANGED cache PROVE CacheInv'
    BY <1>2, <1>9, GotoStep DEF Cleaned, Based, Synced, Snapped, Expected, Described, Signed, Registered
  <1>10. ASSUME b' = Idle, UNCHANGED cache PROVE CacheInv'
    BY <1>2, <1>10, IdleStep
  <1>11. ASSUME NEW pc \in {"idle", "bake2"}, EndPhase(pc), b.pc # "idle", UNCHANGED cache PROVE CacheInv'
    <2>1. b'.pc = pc
      BY <1>11, EndPhaseStep
    <2> QED  BY <1>2, <1>11, <2>1
  <1>12. {"copy", "net", "up", "boot", "check", "copied", "ran", "bake2", "snap", "expect",
          "key", "keywrite", "manifest", "sig", "put", "latest"} \subseteq Cleaned
    BY DEF Cleaned, Based, Synced, Snapped, Expected, Described, Signed, Registered
  <1>13. CASE BuildClean \/ BuildCleanDies \/ BuildCopy
    <2>1. b.pc # "idle" /\ UNCHANGED cache /\ (Goto("copy") \/ Goto("net") \/ b' = Idle)
      BY <1>13 DEF BuildClean, BuildCleanDies, BuildCopy
    <2> QED  BY <1>9, <1>10, <1>12, <2>1
  <1>14. CASE BuildNet \/ BuildUp \/ BuildBoot
    BY <1>9, <1>10, <1>12, <1>14 DEF BuildNet, BuildUp, BuildBoot, CacheInv
  <1>15. CASE BuildInject \/ BuildRun \/ BuildSync
    BY <1>9, <1>11, <1>12, <1>15 DEF BuildInject, BuildRun, BuildSync
  <1>16. CASE PrebakeBoot \/ PrebakeSnapshot \/ PrebakeExpect
    BY <1>9, <1>10, <1>12, <1>16 DEF PrebakeBoot, PrebakeSnapshot, PrebakeExpect
  <1>17. CASE BuildKey \/ BuildKeyWrite \/ BuildManifest \/ BuildSign \/ BuildPut
    BY <1>9, <1>10, <1>12, <1>17 DEF BuildKey, BuildKeyWrite, BuildManifest, BuildSign, BuildPut
  <1>18. CASE BuildError \/ BuilderDies
    BY <1>10, <1>18 DEF BuildError, BuilderDies
  <1>19. CASE UNCHANGED vars
    BY <1>19 DEF vars, CacheInv
  <1> QED
    BY <1>4, <1>5, <1>6, <1>7, <1>8, <1>13, <1>14, <1>15, <1>16, <1>17, <1>18, <1>19, WhoSteps
       DEF BuilderStep

\* try_cache, finish_bake: a cache hit is a completely baked image of the
\* blobs the manifest names, wherever earlier builders failed or died.
THEOREM CacheHitsAreWhole == Spec => []CacheHitWhole
  <1>1. Init => CacheInv
    BY DEF Init, CacheInv, NoCache, Idle
  <1>2. Shape /\ CacheInv /\ [Next]_vars => CacheInv'
    BY CacheSteps, Zenon
  <1>3. CacheInv => CacheHitWhole
    BY Zenon DEF CacheInv, CacheHitWhole, CacheHit
  <1> QED
    BY <1>1, <1>2, <1>3, ShapeHolds, PTL DEF Spec
-----------------------------------------------------------------------------
\* Which steps lie before and after which.
LEMMA Phases ==
  /\ "idle" \notin Early \cup Cleaned /\ Early \cap Cleaned = {}
  /\ {"source", "pull", "bake", "config", "dir"} \subseteq Early
  /\ "copy" \in Cleaned \ Based
  /\ {"net", "up", "boot", "check", "copied", "ran"} \subseteq Based \ Synced
  /\ {"bake2", "snap"} \subseteq Synced \ Snapped
  /\ "expect" \in Snapped \ Expected
  /\ {"key", "keywrite", "manifest"} \subseteq Expected \ Described
  /\ "sig" \in Described \ Signed
  /\ "put" \in Signed \ Registered
  /\ "latest" \in Registered
  /\ Registered \subseteq Signed /\ Signed \subseteq Described /\ Described \subseteq Expected
  /\ Expected \subseteq Snapped /\ Snapped \subseteq Synced /\ Synced \subseteq Based
  /\ Based \subseteq Cleaned
  BY Zenon DEF Early, Cleaned, Based, Synced, Snapped, Expected, Described, Signed, Registered

\* A build that has not registered its version may do what it likes to its
\* own directory, as long as it snapshots no machine id.
LEMMA PastOfOthers ==
  ASSUME Shape, FilesInv, b.pc \in Cleaned \ Registered, UNCHANGED <<rec, begun, latest>>,
         \A v \in Versions \ {b.v} : dir'[v] = dir[v],
         dir'[b.v].snap = 0 \/ ~dir'[b.v].ident
  PROVE  FilesPast'
  <1>1. b.v \in Versions /\ rec[b.v] # begun[b.v]
    <2>1. b.v \in Versions /\ rec \in [Versions -> Nat] /\ b.n \in Nat
      BY Phases DEF Shape, Builders
    <2>2. begun[b.v] = b.n /\ rec[b.v] < b.n
      BY Zenon DEF FilesInv, FilesNow
    <2> QED  BY <2>1, <2>2
  <1>2. PublishedIntact'
    BY <1>1 DEF FilesInv, FilesPast, PublishedIntact
  <1>3. NoIdentityShipped'
    BY <1>1, Zenon DEF FilesInv, FilesPast, NoIdentityShipped
  <1> QED
    BY <1>2, <1>3, Zenon DEF FilesInv, FilesPast

\* Nothing of the files changes and the builder stops.
LEMMA FilesStop ==
  ASSUME FilesInv, b'.pc = "idle", UNCHANGED <<dir, rec, begun, latest>>
  PROVE  FilesInv'
  <1> USE Zenon
  <1>1. FilesPast'
    BY DEF FilesInv, FilesPast, PublishedIntact, NoIdentityShipped
  <1>2. FilesNow'
    BY Phases DEF FilesNow
  <1> QED
    BY <1>1, <1>2 DEF FilesInv

\* Nothing of the files changes and the builder stays in its phase.
LEMMA FilesStay ==
  ASSUME Shape, FilesInv, UNCHANGED <<dir, rec, begun, latest>>, b.pc # "idle", b'.v = b.v, b'.n = b.n,
         \E P \in {Early, Based \ Synced, Synced \ Snapped, Expected \ Described} :
            b.pc \in P /\ b'.pc \in P
  PROVE  FilesInv'
  <1> USE Zenon
  <1>1. FilesPast'
    BY DEF FilesInv, FilesPast, PublishedIntact, NoIdentityShipped
  <1>2. FilesNow'
    <2>1. CASE b.pc \in Early /\ b'.pc \in Early
      BY <2>1, Phases, SMTT(30) DEF FilesInv, FilesNow
    <2>2. CASE b.pc \in Based \ Synced /\ b'.pc \in Based \ Synced
      BY <2>2, Phases, SMTT(30) DEF FilesInv, FilesNow
    <2>3. CASE b.pc \in Synced \ Snapped /\ b'.pc \in Synced \ Snapped
      BY <2>3, Phases DEF FilesInv, FilesNow
    <2>4. CASE b.pc \in Expected \ Described /\ b'.pc \in Expected \ Described
      BY <2>4, Phases DEF FilesInv, FilesNow
    <2> QED  BY <2>1, <2>2, <2>3, <2>4
  <1> QED
    BY <1>1, <1>2 DEF FilesInv

\* The steps that write the directory, the records or the history.
LEMMA CleanFiles ==
  ASSUME Shape, FilesInv, BuildClean \/ BuildCleanDies
  PROVE  FilesInv'
  <1> USE Zenon
  <1>1. /\ b.pc = "dir" /\ b.v \in Versions /\ b.n \in Nat
        /\ dir \in [Versions -> Dirs] /\ rec \in [Versions -> Nat] /\ begun \in [Versions -> Nat]
    BY DEF Shape, Builders, BuildClean, BuildCleanDies
  <1>2. /\ begun' = [begun EXCEPT ![b.v] = b.n] /\ rec' = rec /\ latest' = latest
    BY DEF BuildClean, BuildCleanDies
  <1>3. /\ \A v \in Versions \ {b.v} : dir'[v] = dir[v]
        /\ dir'[b.v].snap = 0
    <2>1. CASE BuildClean
      BY <1>1, <2>1, FreshDir DEF BuildClean
    <2>2. CASE BuildCleanDies
      <3>1. PICK left \in SUBSET {"rootfs", "sig"} :
              dir' = [dir EXCEPT ![b.v] = [NoFiles EXCEPT
                  !.rootfs = IF "rootfs" \in left THEN dir[b.v].rootfs ELSE 0,
                  !.sig = IF "sig" \in left THEN dir[b.v].sig ELSE 0]]
        BY <2>2 DEF BuildCleanDies
      <3>2. /\ (IF "rootfs" \in left THEN dir[b.v].rootfs ELSE 0) \in Nat
            /\ (IF "sig" \in left THEN dir[b.v].sig ELSE 0) \in Nat
        BY <1>1 DEF Dirs
      <3>3. PICK m, n \in Nat : dir' = [dir EXCEPT ![b.v] = [NoFiles EXCEPT !.rootfs = m, !.sig = n]]
        BY <3>1, <3>2
      <3>4. /\ \A v \in Versions \ {b.v} : dir'[v] = dir[v]
            /\ dir'[b.v] = [NoFiles EXCEPT !.rootfs = m, !.sig = n]
        BY <1>1, <3>3
      <3> QED  BY <3>4, CutDir, ZenonT(30)
    <2> QED  BY <2>1, <2>2
  <1>4. \A v \in Versions : begun[v] < b.n
    BY <1>1, Phases DEF FilesInv, FilesNow
  <1>5. rec[b.v] < b.n /\ b.n > 0 /\ begun'[b.v] = b.n /\ rec[b.v] # b.n
        /\ \A v \in Versions \ {b.v} : begun'[v] = begun[v]
    BY <1>1, <1>2, <1>4, SMT DEF FilesInv, FilesPast
  <1>6. FilesPast'
    <2>1. PublishedIntact'
      BY <1>2, <1>3, <1>5, SMT DEF FilesInv, FilesPast, PublishedIntact
    <2>2. NoIdentityShipped'
      BY <1>3 DEF FilesInv, FilesPast, NoIdentityShipped
    <2> QED  BY <1>1, <1>2, <1>5, <2>1, <2>2, SMT DEF FilesInv, FilesPast
  <1>7. FilesNow'
    <2>1. CASE BuildClean
      <3>1. b'.pc = "copy" /\ b'.v = b.v /\ b'.n = b.n
        BY <1>1, <2>1, GotoStep, Phases DEF BuildClean
      <3> QED  BY <1>2, <1>3, <1>5, <3>1, Phases, SMTT(30) DEF FilesNow
    <2>2. CASE BuildCleanDies
      <3>1. b'.pc = "idle"
        BY <2>2, IdleStep DEF BuildCleanDies
      <3> QED  BY <3>1, Phases DEF FilesNow
    <2> QED  BY <2>1, <2>2
  <1> QED
    BY <1>6, <1>7 DEF FilesInv

\* The base is copied under the build's number.
LEMMA CopyFiles ==
  ASSUME Shape, FilesInv, BuildCopy
  PROVE  FilesInv'
  <1> USE Zenon
  <1>1. b.pc = "copy" /\ b.v \in Versions /\ b.n \in Nat /\ dir \in [Versions -> Dirs]
        /\ UNCHANGED <<rec, begun, latest>>
    BY DEF Shape, Builders, BuildCopy
  <1>2. PICK id \in BOOLEAN :
          dir' = [dir EXCEPT ![b.v] = [NoFiles EXCEPT !.rootfs = b.n, !.ident = id]]
    BY DEF BuildCopy
  <1>3. /\ \A v \in Versions \ {b.v} : dir'[v] = dir[v]
        /\ dir'[b.v].snap = 0 /\ dir'[b.v].rootfs = b.n
    BY <1>1, <1>2, CopiedDir, ZenonT(30)
  <1>4. b'.pc = "net" /\ b'.v = b.v /\ b'.n = b.n
    BY <1>1, GotoStep, Phases DEF BuildCopy
  <1>5. FilesPast'
    BY <1>1, <1>3, PastOfOthers, Phases, SMTT(30)
  <1>6. FilesNow'
    BY <1>1, <1>3, <1>4, Phases, SMT DEF FilesInv, FilesNow
  <1> QED
    BY <1>5, <1>6 DEF FilesInv

\* COPY and RUN change the rootfs before any snapshot of it exists.
LEMMA RunFiles ==
  ASSUME Shape, FilesInv, BuildInject \/ BuildRun
  PROVE  FilesInv'
  <1> USE Zenon
  <1>1. b.pc \in {"check", "copied"} /\ b.v \in Versions /\ UNCHANGED <<rec, begun, latest>>
    BY DEF Shape, Builders, BuildInject, BuildRun
  <1>2. CASE EndPhase("idle") /\ UNCHANGED dir
    <2>1. b'.pc = "idle"
      BY <1>1, <1>2, EndPhaseStep
    <2> QED  BY <1>1, <1>2, <2>1, FilesStop
  <1>3. CASE ~(EndPhase("idle") /\ UNCHANGED dir)
    <2>1. Goto("copied") \/ Goto("ran")
      BY <1>3 DEF BuildInject, BuildRun
    <2>2. b'.pc \in {"copied", "ran"} /\ b'.v = b.v /\ b'.n = b.n
      BY <1>1, <2>1, GotoStep, Phases
    <2>3. /\ \A v \in Versions \ {b.v} : dir'[v] = dir[v]
          /\ dir'[b.v].rootfs = dir[b.v].rootfs /\ dir'[b.v].snap = dir[b.v].snap
      BY <1>1, <1>3, FlagStep, ZenonT(30) DEF BuildInject, BuildRun
    <2>4. dir[b.v].snap = 0
      BY <1>1, Phases DEF FilesInv, FilesNow
    <2>5. FilesPast'
      BY <1>1, <2>3, <2>4, PastOfOthers, Phases, SMTT(30)
    <2>6. FilesNow'
      BY <1>1, <2>2, <2>3, Phases, SMT DEF FilesInv, FilesNow
    <2> QED  BY <2>5, <2>6 DEF FilesInv
  <1> QED
    BY <1>2, <1>3

\* assert_no_identity passes before the snapshot is made.
LEMMA SyncFiles ==
  ASSUME Shape, FilesInv, BuildSync
  PROVE  FilesInv'
  <1> USE Zenon
  <1>1. b.pc = "ran" /\ b.v \in Versions /\ UNCHANGED <<rec, begun, latest>>
    BY DEF Shape, Builders, BuildSync
  <1>2. CASE EndPhase("idle") /\ UNCHANGED dir
    <2>1. b'.pc = "idle"
      BY <1>1, <1>2, EndPhaseStep
    <2> QED  BY <1>1, <1>2, <2>1, FilesStop
  <1>3. CASE ~(EndPhase("idle") /\ UNCHANGED dir)
    <2>1. ~dir[b.v].ident /\ dir' = [dir EXCEPT ![b.v].ran = TRUE] /\ EndPhase("bake2")
      BY <1>3 DEF BuildSync, NoIdentity
    <2>2. b'.pc = "bake2" /\ b'.v = b.v /\ b'.n = b.n
      BY <1>1, <2>1, EndPhaseStep
    <2>3. /\ \A v \in Versions \ {b.v} : dir'[v] = dir[v]
          /\ dir'[b.v].rootfs = dir[b.v].rootfs /\ dir'[b.v].snap = dir[b.v].snap
          /\ dir'[b.v].ran = TRUE /\ dir'[b.v].ident = dir[b.v].ident
      BY <1>1, <2>1, FlagStep
    <2>4. dir'[b.v].ran /\ ~dir'[b.v].ident
      BY <2>1, <2>3, ZenonT(30)
    <2>5. FilesPast'
      BY <1>1, <2>3, <2>4, PastOfOthers, Phases, SMTT(30)
    <2>6. FilesNow'
      BY <1>1, <2>2, <2>3, <2>4, Phases, SMT DEF FilesInv, FilesNow
    <2> QED  BY <2>5, <2>6 DEF FilesInv
  <1> QED
    BY <1>2, <1>3

\* Where the four files are written, and where their writers go on.
LEMMA WritePhases ==
  /\ {"snap", "expect", "manifest", "sig"} \subseteq Synced \ Registered
  /\ {"expect", "key", "manifest", "sig", "put"} \subseteq Snapped \ Registered
  /\ "expect" \notin Expected \cup Described \cup Signed
  /\ {"key", "manifest"} \subseteq Expected \ (Described \cup Signed)
  /\ "sig" \in (Expected \cap Described) \ Signed
  /\ "put" \in Expected \cap Described \cap Signed
  BY Zenon DEF Synced, Snapped, Expected, Described, Signed, Registered

\* After the snapshot, a file that is due is under the build's number.
LEMMA WriteNow ==
  ASSUME FilesNow, b.pc \in Synced \ Registered, b'.pc \in Snapped \ Registered,
         b'.v = b.v, b'.n = b.n, UNCHANGED <<rec, begun>>,
         dir'[b.v].ran = dir[b.v].ran, dir'[b.v].ident = dir[b.v].ident,
         dir'[b.v].rootfs = dir[b.v].rootfs, dir'[b.v].snap = b.n,
         b'.pc \in Expected => dir'[b.v].expect = b.n,
         b'.pc \in Described => dir'[b.v].manifest = b.n,
         b'.pc \in Signed => dir'[b.v].sig = b.n
  PROVE  FilesNow'
  <1> USE Zenon
  <1>1. b'.pc \notin Early /\ b.pc \in Based /\ b.pc \in Cleaned
    BY Phases
  <1>2. /\ b.n > 0 /\ begun[b.v] = b.n /\ rec[b.v] < b.n
        /\ dir[b.v].rootfs = b.n /\ dir[b.v].ran /\ ~dir[b.v].ident
    BY <1>1 DEF FilesNow
  <1> QED
    BY <1>1, <1>2 DEF FilesNow

\* The snapshot, expect, manifest.json and its signature, each under the
\* build's number.
LEMMA WriteFiles ==
  ASSUME Shape, FilesInv, PrebakeSnapshot \/ PrebakeExpect \/ BuildManifest \/ BuildSign
  PROVE  FilesInv'
  <1> USE Zenon
  <1>1. /\ b.pc \in {"snap", "expect", "manifest", "sig"} /\ b.v \in Versions
        /\ UNCHANGED <<rec, begun, latest>>
    BY DEF Shape, Builders, PrebakeSnapshot, PrebakeExpect, BuildManifest, BuildSign
  <1>2. CASE b' = Idle /\ UNCHANGED dir
    BY <1>1, <1>2, IdleStep, FilesStop
  <1>3. ASSUME NEW f \in {"snap", "expect", "manifest", "sig"}, File(f, b.n)
        PROVE  FilesPast'
    <2>1. \A v \in Versions \ {b.v} : dir'[v] = dir[v]
      BY <1>1, <1>3, FileStep
    <2>2. ~dir[b.v].ident
      BY <1>1, Phases, SMTT(30) DEF FilesInv, FilesNow
    <2>3. dir'[b.v].ident = dir[b.v].ident
      BY <1>1, <1>3, FileStep
    <2> QED  BY <1>1, <2>1, <2>2, <2>3, PastOfOthers, Phases, SMTT(30)
  <1>4. CASE b.pc = "snap" /\ Goto("expect") /\ File("snap", b.n)
    <2>1. b'.pc = "expect" /\ b'.v = b.v /\ b'.n = b.n
      BY <1>4, GotoStep, Phases
    <2>2. /\ dir'[b.v].ran = dir[b.v].ran /\ dir'[b.v].ident = dir[b.v].ident
          /\ dir'[b.v].rootfs = dir[b.v].rootfs
          /\ dir'[b.v].snap = b.n /\ dir'[b.v].expect = dir[b.v].expect
          /\ dir'[b.v].manifest = dir[b.v].manifest /\ dir'[b.v].sig = dir[b.v].sig
      BY <1>1, <1>4, FileStep
    <2>3. /\ b.pc \in Synced \ Registered /\ b'.pc \in Snapped \ Registered
          /\ b'.pc \notin Expected /\ b'.pc \notin Described /\ b'.pc \notin Signed
      BY <1>4, <2>1, WritePhases
    <2>4. FilesNow /\ UNCHANGED <<rec, begun>>
      BY <1>1 DEF FilesInv
    <2>5. FilesNow'
      BY <2>1, <2>2, <2>3, <2>4, WriteNow
    <2> QED  BY <1>3, <1>4, <2>5 DEF FilesInv
  <1>5. CASE b.pc = "expect" /\ Goto("key") /\ File("expect", b.n)
    <2>1. b'.pc = "key" /\ b'.v = b.v /\ b'.n = b.n
      BY <1>5, GotoStep, Phases
    <2>2. /\ dir'[b.v].ran = dir[b.v].ran /\ dir'[b.v].ident = dir[b.v].ident
          /\ dir'[b.v].rootfs = dir[b.v].rootfs
          /\ dir'[b.v].snap = dir[b.v].snap /\ dir'[b.v].expect = b.n
          /\ dir'[b.v].manifest = dir[b.v].manifest /\ dir'[b.v].sig = dir[b.v].sig
      BY <1>1, <1>5, FileStep
    <2>3. /\ b.pc \in Synced \ Registered /\ b'.pc \in Snapped \ Registered
          /\ b.pc \in Snapped /\ b'.pc \notin Described /\ b'.pc \notin Signed
      BY <1>5, <2>1, WritePhases
    <2>4. FilesNow /\ UNCHANGED <<rec, begun>>
      BY <1>1 DEF FilesInv
    <2>5. FilesNow'
      BY <2>1, <2>2, <2>3, <2>4, WriteNow DEF FilesNow
    <2> QED  BY <1>3, <1>5, <2>5 DEF FilesInv
  <1>6. CASE b.pc = "manifest" /\ Goto("sig") /\ File("manifest", b.n)
    <2>1. b'.pc = "sig" /\ b'.v = b.v /\ b'.n = b.n
      BY <1>6, GotoStep, Phases
    <2>2. /\ dir'[b.v].ran = dir[b.v].ran /\ dir'[b.v].ident = dir[b.v].ident
          /\ dir'[b.v].rootfs = dir[b.v].rootfs
          /\ dir'[b.v].snap = dir[b.v].snap /\ dir'[b.v].expect = dir[b.v].expect
          /\ dir'[b.v].manifest = b.n /\ dir'[b.v].sig = dir[b.v].sig
      BY <1>1, <1>6, FileStep
    <2>3. /\ b.pc \in Synced \ Registered /\ b'.pc \in Snapped \ Registered
          /\ b.pc \in Snapped /\ b.pc \in Expected /\ b'.pc \notin Signed
      BY <1>6, <2>1, WritePhases
    <2>4. FilesNow /\ UNCHANGED <<rec, begun>>
      BY <1>1 DEF FilesInv
    <2>5. FilesNow'
      BY <2>1, <2>2, <2>3, <2>4, WriteNow DEF FilesNow
    <2> QED  BY <1>3, <1>6, <2>5 DEF FilesInv
  <1>7. CASE b.pc = "sig" /\ Goto("put") /\ File("sig", b.n)
    <2>1. b'.pc = "put" /\ b'.v = b.v /\ b'.n = b.n
      BY <1>7, GotoStep, Phases
    <2>2. /\ dir'[b.v].ran = dir[b.v].ran /\ dir'[b.v].ident = dir[b.v].ident
          /\ dir'[b.v].rootfs = dir[b.v].rootfs
          /\ dir'[b.v].snap = dir[b.v].snap /\ dir'[b.v].expect = dir[b.v].expect
          /\ dir'[b.v].manifest = dir[b.v].manifest /\ dir'[b.v].sig = b.n
      BY <1>1, <1>7, FileStep
    <2>3. /\ b.pc \in Synced \ Registered /\ b'.pc \in Snapped \ Registered
          /\ b.pc \in Snapped /\ b.pc \in Expected /\ b.pc \in Described
      BY <1>7, <2>1, WritePhases
    <2>4. FilesNow /\ UNCHANGED <<rec, begun>>
      BY <1>1 DEF FilesInv
    <2>5. FilesNow'
      BY <2>1, <2>2, <2>3, <2>4, WriteNow DEF FilesNow
    <2> QED  BY <1>3, <1>7, <2>5 DEF FilesInv
  <1> QED
    BY <1>2, <1>4, <1>5, <1>6, <1>7 DEF PrebakeSnapshot, PrebakeExpect, BuildManifest, BuildSign

\* The version is registered when its directory is whole, and `latest` names
\* it after that.
LEMMA PutFiles ==
  ASSUME Shape, FilesInv, BuildPut
  PROVE  FilesInv'
  <1> USE Zenon
  <1>1. /\ b.pc \in {"put", "latest"} /\ b.v \in Versions /\ b.n \in Nat
        /\ rec \in [Versions -> Nat] /\ begun \in [Versions -> Nat] /\ NoVersion \notin Versions
        /\ latest \in Versions \cup {NoVersion} /\ UNCHANGED <<dir, begun>>
    BY BuildAssumption, ZenonT(30) DEF Shape, Builders, BuildPut
  <1>2. /\ b.n > 0 /\ begun[b.v] = b.n
        /\ dir[b.v].rootfs = b.n /\ dir[b.v].ran /\ ~dir[b.v].ident /\ dir[b.v].snap = b.n
        /\ dir[b.v].expect = b.n /\ dir[b.v].manifest = b.n /\ dir[b.v].sig = b.n
    BY <1>1, Phases DEF FilesInv, FilesNow
  <1>3. NoIdentityShipped'
    BY <1>1 DEF FilesInv, FilesPast, NoIdentityShipped
  <1>4. CASE b.pc = "put" /\ rec' = [rec EXCEPT ![b.v] = b.n] /\ Goto("latest") /\ UNCHANGED latest
    <2>1. b'.pc = "latest" /\ b'.v = b.v /\ b'.n = b.n
      BY <1>4, GotoStep, Phases
    <2>2. rec'[b.v] = b.n /\ \A v \in Versions \ {b.v} : rec'[v] = rec[v]
      BY <1>1, <1>4
    <2>3. \A f \in {"rootfs", "snap", "expect", "manifest", "sig"} : dir[b.v][f] = b.n
      BY <1>2
    <2>4. PublishedIntact'
      <3>1. ASSUME NEW v \in Versions, rec'[v] # 0, rec'[v] = begun'[v]
            PROVE  /\ dir'[v].ran
                   /\ \A f \in {"rootfs", "snap", "expect", "manifest", "sig"} : dir'[v][f] = rec'[v]
        <4>1. CASE v = b.v
          BY <1>1, <1>2, <2>2, <2>3, <4>1
        <4>2. CASE v # b.v
          BY <1>1, <2>2, <3>1, <4>2, SMT DEF FilesInv, FilesPast, PublishedIntact
        <4> QED  BY <4>1, <4>2
      <3>2. latest' # NoVersion => rec'[latest'] # 0
        BY <1>1, <1>2, <1>4, <2>2, SMTT(30) DEF FilesInv, FilesPast, PublishedIntact
      <3> QED  BY <3>1, <3>2 DEF PublishedIntact
    <2>5. FilesPast'
      BY <1>1, <1>2, <1>3, <2>2, <2>4, SMTT(30) DEF FilesInv, FilesPast
    <2>6. FilesNow'
      BY <1>1, <1>2, <2>1, <2>2, Phases, SMTT(30) DEF FilesNow
    <2> QED  BY <2>5, <2>6 DEF FilesInv
  <1>5. CASE b.pc = "latest" /\ latest' = b.v /\ b' = Idle /\ UNCHANGED rec
    <2>1. rec[b.v] = b.n
      BY <1>5, Phases DEF FilesInv, FilesNow
    <2>2. PublishedIntact'
      BY <1>1, <1>2, <1>5, <2>1, SMT DEF FilesInv, FilesPast, PublishedIntact
    <2>3. FilesPast'
      BY <1>1, <1>3, <1>5, <2>2 DEF FilesInv, FilesPast
    <2>4. FilesNow'
      BY <1>5, IdleStep, Phases, SMT DEF FilesNow
    <2> QED  BY <2>3, <2>4 DEF FilesInv
  <1> QED
    BY <1>4, <1>5 DEF BuildPut

\* FilesInv is kept by every step.
LEMMA FilesSteps ==
  ASSUME Shape, FilesInv, [Next]_vars
  PROVE  FilesInv'
  <1> USE Zenon
  <1>1. ASSUME UNCHANGED <<b, dir, rec, begun, latest>> PROVE FilesInv'
    BY <1>1, ZenonT(30) DEF FilesInv, FilesPast, FilesNow, PublishedIntact, NoIdentityShipped
  <1>2. CASE HostStep
    BY <1>1, <1>2, HostApart DEF buildVars
  <1>3. ASSUME NEW v \in Versions, BuildBegin(v) PROVE FilesInv'
    <2>1. b'.pc \in Early /\ \A w \in Versions : begun[w] < b'.n
      BY <1>3, BuildBeginStep, Phases
    <2>2. FilesPast'
      BY <1>3 DEF BuildBegin, FilesInv, FilesPast, PublishedIntact, NoIdentityShipped
    <2>3. FilesNow'
      BY <1>3, <2>1, Phases DEF BuildBegin, FilesNow
    <2> QED  BY <2>2, <2>3 DEF FilesInv
  <1>4. CASE BuildSource \/ BuildPull \/ BuildBake
    <2>1. b.pc \in Early /\ b.pc # "idle" /\ UNCHANGED <<dir, rec, begun, latest>>
      BY <1>4, Phases DEF BuildSource, BuildPull, BuildBake
    <2>2. Goto("dir") \/ Goto("pull") \/ Goto("bake") \/ Goto("config")
      BY <1>4 DEF BuildSource, BuildPull, BuildBake
    <2>3. b'.pc \in Early /\ b'.v = b.v /\ b'.n = b.n
      BY <2>1, <2>2, GotoStep, Phases, SMT
    <2> QED  BY <2>1, <2>3, FilesStay
  <1>5. CASE BuildNet \/ BuildUp \/ BuildBoot
    <2>1. b.pc \in Based \ Synced /\ b.pc # "idle" /\ UNCHANGED <<dir, rec, begun, latest>>
      BY <1>5, Phases DEF BuildNet, BuildUp, BuildBoot
    <2>2. \/ UNCHANGED b \/ b' = Idle
          \/ Goto("boot") \/ Goto("up") \/ Goto("check")
      BY <1>5 DEF BuildNet, BuildUp, BuildBoot
    <2>3. CASE UNCHANGED b
      BY <1>1, <2>1, <2>3
    <2>4. CASE b' = Idle
      BY <2>1, <2>4, IdleStep, FilesStop
    <2>5. CASE Goto("boot") \/ Goto("up") \/ Goto("check")
      <3>1. b'.pc \in Based \ Synced /\ b'.v = b.v /\ b'.n = b.n
        BY <2>1, <2>5, GotoStep, Phases
      <3> QED  BY <2>1, <3>1, FilesStay
    <2> QED  BY <2>2, <2>3, <2>4, <2>5
  <1>6. CASE PrebakeBoot
    <2>1. CASE b' = Idle
      BY <1>6, <2>1, IdleStep, FilesStop DEF PrebakeBoot
    <2>2. CASE Goto("snap")
      <3>1. b'.pc = "snap" /\ b'.v = b.v /\ b'.n = b.n
        BY <1>6, <2>2, GotoStep, Phases DEF PrebakeBoot
      <3> QED  BY <1>6, <3>1, FilesStay, Phases DEF PrebakeBoot
    <2> QED  BY <1>6, <2>1, <2>2 DEF PrebakeBoot
  <1>7. CASE BuildKey \/ BuildKeyWrite
    <2>1. b.pc \in Expected \ Described /\ b.pc # "idle" /\ UNCHANGED <<dir, rec, begun, latest>>
      BY <1>7, Phases DEF BuildKey, BuildKeyWrite
    <2>2. CASE b' = Idle
      BY <2>1, <2>2, IdleStep, FilesStop
    <2>3. CASE Goto("keywrite") \/ Goto("manifest")
      <3>1. b'.pc \in Expected \ Described /\ b'.v = b.v /\ b'.n = b.n
        BY <2>1, <2>3, GotoStep, Phases
      <3> QED  BY <2>1, <3>1, FilesStay
    <2> QED  BY <1>7, <2>2, <2>3, ZenonT(30) DEF BuildKey, BuildKeyWrite
  <1>8. CASE BuildError \/ BuilderDies
    BY <1>8, IdleStep, FilesStop DEF BuildError, BuilderDies
  <1>9. CASE UNCHANGED vars
    BY <1>1, <1>9 DEF vars
  <1> QED
    BY <1>2, <1>3, <1>4, <1>5, <1>6, <1>7, <1>8, <1>9, WhoSteps, CleanFiles, CopyFiles, RunFiles,
       SyncFiles, WriteFiles, PutFiles DEF BuilderStep

\* FilesInv is an invariant.
LEMMA FilesHold == Spec => []FilesInv
  <1> USE Zenon
  <1>1. Init => FilesInv
    <2> SUFFICES ASSUME Init PROVE FilesInv
      OBVIOUS
    <2>1. b.pc = "idle" /\ latest = NoVersion /\ \A v \in Versions : rec[v] = 0 /\ begun[v] = 0 /\ dir[v] = NoFiles
      BY DEF Init, Idle
    <2>2. FilesPast
      BY <2>1, FreshDir, SMTT(30) DEF FilesPast, PublishedIntact, NoIdentityShipped
    <2>3. FilesNow
      <3>1. b.pc \notin Early /\ b.pc \notin Cleaned
        BY <2>1, Phases
      <3>2. \A S : b.pc \in S => S # Based /\ S # Synced /\ S # Snapped /\ S # Expected
                                   /\ S # Described /\ S # Signed /\ S # Registered
        BY <3>1, Phases
      <3> QED  BY <3>1, <3>2 DEF FilesNow
    <2> QED  BY <2>2, <2>3 DEF FilesInv
  <1>2. Shape /\ FilesInv /\ [Next]_vars => FilesInv'
    BY FilesSteps
  <1> QED
    BY <1>1, <1>2, ShapeHolds, PTL DEF Spec

\* build: a registered version nobody has started to rebuild has its whole
\* directory from the build on record, and `latest` names a registered
\* version, wherever builders failed or died.
THEOREM PublishedStaysIntact == Spec => []PublishedIntact
  <1>1. FilesInv => PublishedIntact
    BY Zenon DEF FilesInv, FilesPast
  <1> QED
    BY <1>1, FilesHold, PTL

\* assert_no_identity: no snapshot is taken of a rootfs with a machine id.
THEOREM NoIdentityIsShipped == Spec => []NoIdentityShipped
  <1>1. FilesInv => NoIdentityShipped
    BY Zenon DEF FilesInv, FilesPast
  <1> QED
    BY <1>1, FilesHold, PTL
-----------------------------------------------------------------------------
\* Sandboxes, versions and the session are different instances.
LEMMA OwnersDiffer ==
  /\ Live \in Users /\ \A u \in Sbx : u \in Users /\ u # Live /\ u \notin Versions
  /\ \A v \in Versions : v \in Users /\ v # Live
  BY BuildAssumption, Zenon DEF Users

\* A build that has a network has a version.
LEMMA NetworkedBuild ==
  ASSUME Shape, b.pc \in Networked
  PROVE  b.v \in Versions
  BY Zenon DEF Shape, Builders, Networked, Running

\* A step of sandbox u matters to u only.
LEMMA SandboxNet ==
  ASSUME Shape, NetInv, NEW u \in Sbx, Apart(u), UpSoFar(u)', UNCHANGED <<gs, b>>,
         \A w \in Sbx \ {u} : cp'[w] = cp[w],
         cp'[u] = "live" => upk'[u] = 6,
         cp'[u] \in {"new", "gone"} /\ u \notin upset' => Clean(net, u)'
  PROVE  NetInv'
  <1> USE Zenon
  <1>1. \A w \in Users : UpSoFar(w)'
    BY DEF NetInv, Apart
  <1>2. \A w \in Sbx : cp'[w] = "live" => upk'[w] = 6
    BY OwnersDiffer DEF NetInv, Apart
  <1>3. gs' \in {"gated", "run", "allowed"} => upk'[Live] = 6 /\ Live \in net'.gate
    BY OwnersDiffer DEF NetInv, Apart
  <1>4. b'.net /\ b'.pc \in Networked \ {"up"} => upk'[b'.v] = 6
    BY OwnersDiffer, NetworkedBuild, SMTT(30) DEF NetInv, Apart
  <1>5. \A w \in Sbx : cp'[w] \in {"new", "gone"} /\ w \notin upset' => Clean(net, w)'
    BY OwnersDiffer DEF NetInv, Apart
  <1>6. gs' = "idle" /\ Live \notin upset' => Clean(net, Live)'
    BY OwnersDiffer DEF NetInv, Apart
  <1>7. \A v \in Versions :
          ~(b'.v = v /\ b'.net /\ b'.pc \in Networked) /\ v \notin upset' => Clean(net, v)'
    BY OwnersDiffer DEF NetInv, Apart
  <1> QED
    BY <1>1, <1>2, <1>3, <1>4, <1>5, <1>6, <1>7, ZenonT(30) DEF NetInv

\* A step of the gated session matters to the session only.
LEMMA SessionNet ==
  ASSUME Shape, NetInv, Apart(Live), UpSoFar(Live)', UNCHANGED <<cp, b>>,
         gs' \in {"gated", "run", "allowed"} => upk'[Live] = 6 /\ Live \in net'.gate,
         gs' = "idle" /\ Live \notin upset' => Clean(net, Live)'
  PROVE  NetInv'
  <1> USE Zenon
  <1>1. \A w \in Users : UpSoFar(w)'
    BY DEF NetInv, Apart
  <1>2. \A w \in Sbx : cp'[w] = "live" => upk'[w] = 6
    BY OwnersDiffer DEF NetInv, Apart
  <1>4. b'.net /\ b'.pc \in Networked \ {"up"} => upk'[b'.v] = 6
    BY OwnersDiffer, NetworkedBuild DEF NetInv, Apart
  <1>5. \A w \in Sbx : cp'[w] \in {"new", "gone"} /\ w \notin upset' => Clean(net, w)'
    BY OwnersDiffer DEF NetInv, Apart
  <1>7. \A v \in Versions :
          ~(b'.v = v /\ b'.net /\ b'.pc \in Networked) /\ v \notin upset' => Clean(net, v)'
    BY OwnersDiffer DEF NetInv, Apart
  <1> QED
    BY <1>1, <1>2, <1>4, <1>5, <1>7 DEF NetInv

\* A step of the builder matters to its version only.
LEMMA VersionNet ==
  ASSUME Shape, NetInv, NEW v \in Versions, b.v = v, Apart(v), UpSoFar(v)', UNCHANGED <<cp, gs>>,
         b'.v \in {v, NoVersion},
         b'.net /\ b'.pc \in Networked \ {"up"} => upk'[b'.v] = 6,
         ~(b'.v = v /\ b'.net /\ b'.pc \in Networked) /\ v \notin upset' => Clean(net, v)'
  PROVE  NetInv'
  <1> USE Zenon
  <1>1. \A w \in Users : UpSoFar(w)'
    BY DEF NetInv, Apart
  <1>2. \A w \in Sbx : cp'[w] = "live" => upk'[w] = 6
    BY OwnersDiffer DEF NetInv, Apart
  <1>3. gs' \in {"gated", "run", "allowed"} => upk'[Live] = 6 /\ Live \in net'.gate
    BY OwnersDiffer DEF NetInv, Apart
  <1>5. \A w \in Sbx : cp'[w] \in {"new", "gone"} /\ w \notin upset' => Clean(net, w)'
    BY OwnersDiffer, SMTT(30) DEF NetInv, Apart
  <1>6. gs' = "idle" /\ Live \notin upset' => Clean(net, Live)'
    BY OwnersDiffer DEF NetInv, Apart
  <1>7. \A w \in Versions :
          ~(b'.v = w /\ b'.net /\ b'.pc \in Networked) /\ w \notin upset' => Clean(net, w)'
    BY OwnersDiffer DEF NetInv, Apart
  <1> QED
    BY <1>1, <1>2, <1>3, <1>5, <1>6, <1>7, ZenonT(30) DEF NetInv

\* The host's steps keep NetInv.
LEMMA HostNet ==
  ASSUME Shape, NetInv, HostStep
  PROVE  NetInv'
  <1> USE Zenon
  <1>0. /\ net \in Nets /\ upk \in [Users -> 0..6] /\ upset \in SUBSET Users
        /\ cp \in [Sbx -> {"new", "up", "live", "gone"}]
        /\ Live \in Users /\ \A u \in Sbx : u \in Users
        /\ b' = b
    BY OwnersDiffer, HostApart DEF Shape, buildVars
  <1>1. ASSUME NEW u \in Sbx, CreateBegin(u) PROVE NetInv'
    <2>1. cp'[u] = "up" /\ gs' = gs /\ \A w \in Sbx \ {u} : cp'[w] = cp[w]
      BY <1>0, <1>1 DEF CreateBegin
    <2>2. Apart(u) /\ UpSoFar(u)'
      BY <1>0, <1>1, UpBeginStep DEF CreateBegin
    <2>3. cp'[u] # "live" /\ cp'[u] \notin {"new", "gone"} /\ UNCHANGED <<gs, b>>
      BY <1>0, <2>1
    <2> QED  BY <2>1, <2>2, <2>3, SandboxNet
  <1>2. ASSUME NEW u \in Sbx, CreateUp(u) PROVE NetInv'
    <2>0. UpSoFar(u) /\ gs' = gs /\ cp[u] = "up"
      BY <1>0, <1>2 DEF NetInv, CreateUp
    <2>1. CASE UpNext(u) /\ UNCHANGED cp
      BY <1>0, <2>0, <2>1, UpNextStep, SandboxNet
    <2>2. CASE UpFails(u) /\ cp' = [cp EXCEPT ![u] = "gone"]
      <3>1. cp'[u] = "gone" /\ \A w \in Sbx \ {u} : cp'[w] = cp[w]
        BY <1>0, <2>2
      <3>2. Apart(u) /\ UpSoFar(u)' /\ u \in upset'
        BY <1>0, <2>2, UpFailsStep
      <3> QED  BY <1>0, <2>0, <3>1, <3>2, SandboxNet
    <2> QED  BY <1>2, <2>1, <2>2 DEF CreateUp
  <1>3. ASSUME NEW u \in Sbx, TakeDown(u), cp' = [cp EXCEPT ![u] = "gone"], gs' = gs PROVE NetInv'
    <2>1. cp'[u] = "gone" /\ \A w \in Sbx \ {u} : cp'[w] = cp[w]
      BY <1>0, <1>3
    <2>2. Apart(u) /\ UpSoFar(u)' /\ Clean(net, u)'
      BY <1>0, <1>3, TakeDownStep
    <2> QED  BY <1>0, <1>3, <2>1, <2>2, SandboxNet
  <1>4. ASSUME NEW u \in Sbx, CreateBoot(u) PROVE NetInv'
    <2>1. CASE cp' = [cp EXCEPT ![u] = "live"] /\ UNCHANGED <<net, upk, upset>>
      <3>1. cp'[u] = "live" /\ \A w \in Sbx \ {u} : cp'[w] = cp[w]
        BY <1>0, <2>1
      <3>2. upk'[u] = 6 /\ gs' = gs
        BY <1>4, <2>1 DEF CreateBoot, UpDone, UpSteps
      <3>3. Apart(u) /\ UpSoFar(u)'
        BY <1>0, <2>1 DEF Apart, UpSoFar, Clean, NetInv
      <3> QED  BY <1>0, <3>1, <3>2, <3>3, SandboxNet
    <2> QED  BY <1>3, <1>4, <2>1 DEF CreateBoot
  <1>5. ASSUME NEW u \in Sbx, DestroyEgress(u) PROVE NetInv'
    BY <1>3, <1>5 DEF DestroyEgress
  <1>6. ASSUME TakeDown(Live), gs' = "idle", cp' = cp PROVE NetInv'
    <2>2. Apart(Live) /\ UpSoFar(Live)' /\ Clean(net, Live)'
      BY <1>0, <1>6, TakeDownStep
    <2> QED  BY <1>0, <1>6, <2>2, SessionNet
  <1>7. CASE SessionUp
    <2>1. CASE gs = "idle" /\ UpBegin(Live) /\ gs' = "up"
      BY <1>0, <1>7, <2>1, UpBeginStep, SessionNet DEF SessionUp
    <2>2. CASE gs = "up" /\ UpNext(Live) /\ UNCHANGED gs
      <3>1. UpSoFar(Live)
        BY <1>0 DEF NetInv
      <3> QED  BY <1>0, <1>7, <2>2, <3>1, UpNextStep, SessionNet DEF SessionUp
    <2>3. CASE gs = "up" /\ UpFails(Live) /\ gs' = "idle"
      BY <1>0, <1>7, <2>3, UpFailsStep, SessionNet, ZenonT(30) DEF SessionUp
    <2> QED  BY <1>7, <2>1, <2>2, <2>3 DEF SessionUp
  <1>8. ASSUME net' \in {net, GateUp(net, Live), AddAllow(net, Live)}, UNCHANGED <<upk, upset>>
        PROVE  Apart(Live) /\ UpSoFar(Live)' /\ net.gate \subseteq net'.gate
    <2>1. SameWires(net, net') /\ (net'.gate = net.gate \/ net'.gate = net.gate \cup {Live})
      <3>1. /\ SameWires(net, GateUp(net, Live)) /\ GateUp(net, Live).gate = net.gate \cup {Live}
            /\ SameWires(net, AddAllow(net, Live)) /\ AddAllow(net, Live).gate = net.gate
        BY <1>0, GateNet
      <3>2. SameWires(net, net)
        BY DEF SameWires
      <3>3. CASE net' = net
        BY <3>2, <3>3
      <3>4. CASE net' = GateUp(net, Live)
        BY <3>1, <3>4
      <3>5. CASE net' = AddAllow(net, Live)
        BY <3>1, <3>5
      <3> QED  BY <1>8, <3>3, <3>4, <3>5
    <2>2. UpSoFar(Live)
      BY <1>0 DEF NetInv
    <2>3. \A w \in Users : UpSoFar(w) => UpSoFar(w)'
      BY <1>8, <2>1 DEF SameWires, UpSoFar
    <2>4. \A w \in Users \ {Live} : Clean(net, w) => Clean(net, w)'
      BY <2>1 DEF SameWires, Clean
    <2>5. net.gate \subseteq net'.gate
      BY <2>1
    <2>6. Apart(Live)
      BY <1>8, <2>3, <2>4, <2>5 DEF Apart
    <2> QED  BY <1>0, <2>2, <2>3, <2>5, <2>6, ZenonT(30)
  <1>9. CASE SessionGate
    <2>1. CASE gs' = "gated" /\ net' = GateUp(net, Live) /\ UNCHANGED <<upk, upset>>
      <3>1. upk'[Live] = 6
        BY <1>9, <2>1 DEF SessionGate, UpDone, UpSteps
      <3>2. Live \in net'.gate
        BY <1>0, <2>1, GateNet, SMT
      <3> QED  BY <1>0, <1>8, <1>9, <2>1, <3>1, <3>2, SessionNet DEF SessionGate
    <2> QED  BY <1>6, <1>9, <2>1 DEF SessionGate
  <1>10. CASE SessionBoot
    <2>1. CASE gs' = "run" /\ UNCHANGED <<net, upk, upset>>
      <3>1. upk'[Live] = 6 /\ Live \in net'.gate
        BY <1>10, <2>1 DEF SessionBoot, NetInv
      <3> QED  BY <1>0, <1>8, <1>10, <2>1, <3>1, SessionNet DEF SessionBoot
    <2> QED  BY <1>6, <1>10, <2>1 DEF SessionBoot
  <1>11. CASE SessionAllow
    <2>1. CASE gs' = "allowed" /\ net' = AddAllow(net, Live) /\ UNCHANGED <<upk, upset>>
      <3>1. upk'[Live] = 6 /\ Live \in net'.gate
        BY <1>0, <1>11, <2>1, GateNet DEF SessionAllow, NetInv
      <3> QED  BY <1>0, <1>8, <1>11, <2>1, <3>1, SessionNet DEF SessionAllow
    <2> QED  BY <1>6, <1>11, <2>1 DEF SessionAllow
  <1>12. CASE SessionEnd
    <2> DEFINE m == GateDown(net, Live)
    <2>1. m \in Nets /\ SameWires(net, m) /\ m.gate = net.gate \ {Live}
      BY <1>0, GateNet
    <2>2. net' = Down(m, Live) /\ gs' = "idle" /\ UNCHANGED <<upset, cp>> /\ upk' = [upk EXCEPT ![Live] = 0]
      BY <1>12 DEF SessionEnd
    <2> HIDE DEF m
    <2>3. /\ Clean(net', Live) /\ net'.gate = m.gate \ {Live}
          /\ net'.ns = m.ns \ {Live} /\ net'.veth = m.veth \ {Live} /\ net'.tap = m.tap \ {Live}
          /\ net'.nat = m.nat \ {Live} /\ \A w \in Users : Clean(m, w) => Clean(net', w)
      BY <1>0, <2>1, <2>2, DownNet
    <2>4. \A w \in Users : Clean(net, w) => Clean(m, w)
      BY <2>1 DEF SameWires, Clean
    <2>5. upk'[Live] = 0 /\ \A w \in Users \ {Live} : upk'[w] = upk[w]
      BY <1>0, <2>2
    <2>6. UpSoFar(Live)'
      BY <2>5, SMTT(30) DEF UpSoFar
    <2>7. \A w \in Users \ {Live} : UpSoFar(w) => UpSoFar(w)'
      BY <2>1, <2>3, <2>5 DEF UpSoFar, SameWires
    <2>8. \A w \in Users \ {Live} : Clean(net, w) => Clean(net, w)'
      BY <2>3, <2>4 DEF Clean
    <2>9. Apart(Live)
      <3>1. \A w \in Users \ {Live} : w \in net.gate => w \in net'.gate
        BY <2>1, <2>3
      <3> QED  BY <2>2, <2>5, <2>7, <2>8, <3>1 DEF Apart
    <2>10. Clean(net, Live)'
      BY <2>3 DEF Clean
    <2> QED  BY <1>0, <2>2, <2>6, <2>9, <2>10, SessionNet
  <1> QED
    BY <1>1, <1>2, <1>4, <1>5, <1>7, <1>9, <1>10, <1>11, <1>12 DEF HostStep

\* A step that leaves the network alone, at which the builder neither gets
\* nor loses one.
LEMMA QuietNet ==
  ASSUME Shape, NetInv, UNCHANGED <<net, upk, upset, cp, gs>>,
         b'.net /\ b'.pc \in Networked => /\ b.net /\ b'.v = b.v
                                          /\ b.pc \in Networked /\ (b'.pc # "up" => b.pc # "up"),
         b.net /\ b.pc \in Networked => b'.net /\ b'.v = b.v /\ b'.pc \in Networked
  PROVE  NetInv'
  <1> USE Zenon
  <1>1. \A w \in Users : UpSoFar(w)'
    BY DEF NetInv, UpSoFar
  <1>2. b'.net /\ b'.pc \in Networked \ {"up"} => upk'[b'.v] = 6
    BY DEF NetInv
  <1>3. \A w \in Versions :
          ~(b'.v = w /\ b'.net /\ b'.pc \in Networked) /\ w \notin upset' => Clean(net, w)'
    BY DEF NetInv, Clean
  <1>4. /\ \A u \in Sbx : cp'[u] = "live" => upk'[u] = 6
        /\ gs' \in {"gated", "run", "allowed"} => upk'[Live] = 6 /\ Live \in net'.gate
        /\ \A u \in Sbx : cp'[u] \in {"new", "gone"} /\ u \notin upset' => Clean(net, u)'
        /\ gs' = "idle" /\ Live \notin upset' => Clean(net, Live)'
    BY DEF NetInv, Clean
  <1> QED
    BY <1>1, <1>2, <1>3, <1>4, ZenonT(30) DEF NetInv

\* Nothing happens to the network of v.
LEMMA StillNet ==
  ASSUME Shape, NetInv, NEW v \in Versions, UNCHANGED <<net, upk>>, upset' \in {upset, upset \cup {v}}
  PROVE  Apart(v) /\ UpSoFar(v)'
  BY OwnersDiffer, Zenon DEF NetInv, Apart, UpSoFar, Clean

\* Networked holds the steps from up to ran.
LEMMA NetworkedSteps ==
  /\ {"up", "boot", "check", "copied", "ran"} \subseteq Networked
  /\ \A pc \in {"idle", "copy", "net", "bake2", "snap", "expect", "key", "keywrite", "manifest", "sig",
                "put", "latest"} \cup Early : pc \notin Networked
  BY Zenon DEF Networked, Running, Early

\* EndPhase: whatever the builder had of a network is gone.
LEMMA EndPhaseNet ==
  ASSUME Shape, NetInv, b.pc \in Networked, NEW pc \in {"idle", "bake2"}, EndPhase(pc), UNCHANGED <<cp, gs>>
  PROVE  NetInv'
  <1> USE Zenon
  <1>1. PICK v \in Versions : v = b.v
    BY NetworkedBuild
  <1>2. b.pc # "idle" /\ v \in Users
    BY NetworkedSteps, OwnersDiffer
  <1>3. b'.pc \notin Networked /\ b'.v \in {v, NoVersion}
    <2>1. b'.pc = pc /\ (pc # "idle" => b'.v = b.v) /\ (b'.pc = "idle" <=> b'.v = NoVersion)
      BY <1>2, EndPhaseStep
    <2> QED  BY <1>1, <2>1, NetworkedSteps
  <1>4. CASE b.net
    <2>1. TakeDown(v)
      BY <1>1, <1>4 DEF EndPhase
    <2>2. Apart(v) /\ UpSoFar(v)' /\ Clean(net, v)'
      BY <1>2, <2>1, TakeDownStep
    <2> QED  BY <1>1, <1>3, <2>2, VersionNet
  <1>5. CASE ~b.net
    <2>1. UNCHANGED <<net, upk, upset>>
      BY <1>5 DEF EndPhase
    <2> QED  BY <1>3, <1>5, <2>1, QuietNet
  <1> QED
    BY <1>4, <1>5

\* The steps at which the builder has a network, or gets one.
LEMMA BuildersNet ==
  ASSUME Shape, VmInv, NetInv, BuildNet \/ BuildUp \/ BuildBoot
  PROVE  NetInv'
  <1> USE Zenon
  <1>0. b.pc \in {"net", "up", "boot"} /\ b.pc # "idle" /\ UNCHANGED <<cp, gs>>
    BY DEF BuildNet, BuildUp, BuildBoot, hostVars
  <1>1. PICK v \in Versions : v = b.v
    BY <1>0 DEF Shape, Builders
  <1>2. v \in Users /\ NoVersion # v /\ UpSoFar(v) /\ {"boot", "up", "check"} \subseteq Early \cup Cleaned
    BY OwnersDiffer, BuildAssumption, Phases DEF NetInv
  <1>3. CASE BuildNet
    <2>1. CASE ~b.net /\ Goto("boot") /\ UNCHANGED <<net, upk, upset>>
      <3>1. ~b'.net
        BY <1>0, <1>2, <2>1, GotoStep
      <3> QED  BY <1>0, <2>1, <3>1, QuietNet
    <2>2. CASE b.net /\ Goto("up") /\ UpBegin(v)
      <3>0. Goto("up") /\ "up" \in Early \cup Cleaned
        BY <1>2, <2>2
      <3>a. b'.pc = "up" /\ b'.v = b.v /\ b'.net = b.net
        BY <1>0, <3>0, GotoStep
      <3>1. b'.pc = "up" /\ b'.v = v /\ b'.net
        BY <1>1, <2>2, <3>a
      <3>2. Apart(v) /\ UpSoFar(v)' /\ Clean(net, v)'
        BY <1>2, <2>2, UpBeginStep
      <3> QED  BY <1>0, <1>1, <3>1, <3>2, VersionNet
    <2> QED  BY <1>1, <1>3, <2>1, <2>2 DEF BuildNet
  <1>4. CASE BuildUp
    <2>1. CASE UpNext(v) /\ UNCHANGED b
      <3>1. Apart(v) /\ UpSoFar(v)' /\ upset' = upset
        BY <1>2, <2>1, UpNextStep
      <3>2. b'.pc = "up" /\ b'.v = v
        BY <1>1, <1>4, <2>1 DEF BuildUp
      <3>3. b'.net /\ b'.pc \in Networked
        BY <1>4, <2>1, <3>2, NetworkedSteps DEF BuildUp, VmInv
      <3> QED  BY <1>0, <1>1, <3>1, <3>2, <3>3, VersionNet
    <2>2. CASE UpDone(v) /\ Goto("boot") /\ UNCHANGED <<net, upk, upset>>
      <3>1. b'.pc = "boot" /\ b'.v = v /\ b'.net = b.net
        BY <1>0, <1>1, <1>2, <2>2, GotoStep
      <3>2. Apart(v) /\ UpSoFar(v)'
        BY <2>2, StillNet
      <3>3. upk'[v] = 6
        BY <2>2 DEF UpDone, UpSteps
      <3>4. ~(b'.v = v /\ b'.net /\ b'.pc \in Networked) /\ v \notin upset' => Clean(net, v)'
        BY <1>1, <2>2, <3>1, NetworkedSteps DEF NetInv, Clean
      <3> QED  BY <1>0, <1>1, <3>1, <3>2, <3>3, <3>4, VersionNet
    <2>3. CASE UpFails(v) /\ b' = Idle
      <3>1. Apart(v) /\ UpSoFar(v)' /\ v \in upset'
        BY <1>2, <2>3, UpFailsStep
      <3>2. b'.v = NoVersion /\ b'.pc = "idle"
        BY <2>3, IdleStep
      <3> QED  BY <1>0, <1>1, <3>1, <3>2, NetworkedSteps, VersionNet
    <2> QED  BY <1>1, <1>4, <2>1, <2>2, <2>3 DEF BuildUp
  <1>5. CASE BuildBoot
    <2>1. CASE Goto("check") /\ UNCHANGED upset
      <3>1. b'.pc = "check" /\ b'.v = v /\ b'.net = b.net
        BY <1>0, <1>1, <1>2, <2>1, GotoStep
      <3> QED  BY <1>0, <1>1, <1>5, <2>1, <3>1, NetworkedSteps, QuietNet DEF BuildBoot
    <2>2. CASE b' = Idle /\ upset' = IF b.net THEN upset \cup {v} ELSE upset
      <3>1. b'.v = NoVersion /\ b'.pc = "idle" /\ UNCHANGED <<net, upk>>
        BY <1>5, <2>2, IdleStep DEF BuildBoot
      <3>2. upset' \in {upset, upset \cup {v}}
        BY <2>2
      <3>3. Apart(v) /\ UpSoFar(v)'
        BY <3>1, <3>2, StillNet
      <3>4. v \notin upset' => Clean(net, v)'
        BY <1>1, <2>2, <3>1, ZenonT(30) DEF NetInv, Clean
      <3> QED  BY <1>0, <1>1, <3>1, <3>3, <3>4, NetworkedSteps, VersionNet
    <2> QED  BY <1>1, <1>5, <2>1, <2>2, ZenonT(30) DEF BuildBoot
  <1> QED
    BY <1>3, <1>4, <1>5

\* A step that only moves the builder on does not touch the network.
LEMMA MovesNet ==
  ASSUME Shape, NetInv, UNCHANGED <<net, upk, upset, cp, gs>>,
         \/ b.pc \notin Networked /\ b'.pc \notin Networked
         \/ b.pc \in Networked \ {"up"} /\ b'.pc \in Networked /\ b'.net = b.net /\ b'.v = b.v
  PROVE  NetInv'
  BY QuietNet, Zenon

\* NetInv is kept by every step.
LEMMA NetSteps ==
  ASSUME Shape, VmInv, NetInv, [Next]_vars
  PROVE  NetInv'
  <1> USE Zenon
  <1>1. ASSUME Quiet PROVE UNCHANGED <<net, upk, upset, cp, gs>>
    BY <1>1 DEF Quiet, hostVars
  <1>2. CASE HostStep
    BY <1>2, HostNet
  <1>3. ASSUME NEW v \in Versions, BuildBegin(v) PROVE NetInv'
    <2>1. b.pc = "idle" /\ b'.pc \in {"source", "dir"} /\ Quiet
      BY <1>3, BuildBeginStep DEF BuildBegin
    <2> QED  BY <1>1, <2>1, NetworkedSteps, Phases, MovesNet
  <1>4. CASE BuildSource \/ BuildPull \/ BuildBake
    <2>1. b.pc \in Early /\ b.pc # "idle" /\ Quiet
      BY <1>4, Phases DEF BuildSource, BuildPull, BuildBake
    <2>2. Goto("dir") \/ Goto("pull") \/ Goto("bake") \/ Goto("config")
      BY <1>4 DEF BuildSource, BuildPull, BuildBake
    <2>3. b'.pc \in Early
      BY <2>1, <2>2, GotoStep, Phases
    <2>4. b.pc \notin Networked /\ b'.pc \notin Networked
      BY <2>1, <2>3, NetworkedSteps, ZenonT(30)
    <2> QED  BY <1>1, <2>1, <2>4, MovesNet
  <1>5. CASE BuildClean \/ BuildCleanDies \/ BuildCopy
    <2>1. b.pc \in {"dir", "copy"} /\ Quiet /\ (Goto("copy") \/ Goto("net") \/ b' = Idle)
      BY <1>5 DEF BuildClean, BuildCleanDies, BuildCopy
    <2>2. b'.pc \in {"copy", "net", "idle"}
      BY <2>1, GotoStep, IdleStep, Phases
    <2> QED  BY <1>1, <2>1, <2>2, NetworkedSteps, Phases, MovesNet
  <1>6. CASE BuildInject \/ BuildRun \/ BuildSync
    <2>1. b.pc \in Networked \ {"up"} /\ b.pc # "idle" /\ UNCHANGED <<cp, gs>>
      BY <1>6, NetworkedSteps DEF BuildInject, BuildRun, BuildSync, hostVars
    <2>2. CASE EndPhase("idle") \/ EndPhase("bake2")
      BY <2>1, <2>2, EndPhaseNet
    <2>3. CASE (Goto("copied") \/ Goto("ran")) /\ UNCHANGED <<net, upk, upset>>
      <3>1. b'.pc \in {"copied", "ran"} /\ b'.net = b.net /\ b'.v = b.v
        BY <2>1, <2>3, GotoStep, Phases
      <3> QED  BY <2>1, <2>3, <3>1, NetworkedSteps, MovesNet, ZenonT(30)
    <2> QED  BY <1>6, <2>2, <2>3 DEF BuildInject, BuildRun, BuildSync
  <1>7. CASE PrebakeBoot \/ PrebakeSnapshot \/ PrebakeExpect
    <2>1. /\ b.pc \in {"bake2", "snap", "expect"} /\ Quiet
          /\ Goto("snap") \/ Goto("expect") \/ Goto("key") \/ b' = Idle
      BY <1>7, ZenonT(30) DEF PrebakeBoot, PrebakeSnapshot, PrebakeExpect
    <2>2. b'.pc \in {"snap", "expect", "key", "idle"}
      BY <2>1, GotoStep, IdleStep, Phases
    <2> QED  BY <1>1, <2>1, <2>2, NetworkedSteps, MovesNet
  <1>8. CASE BuildKey \/ BuildKeyWrite \/ BuildManifest \/ BuildSign \/ BuildPut
    <2>1. /\ b.pc \in {"key", "keywrite", "manifest", "sig", "put", "latest"} /\ Quiet
          /\ \/ Goto("keywrite") \/ Goto("manifest") \/ Goto("sig") \/ Goto("put") \/ Goto("latest")
             \/ b' = Idle
      BY <1>8, ZenonT(30) DEF BuildKey, BuildKeyWrite, BuildManifest, BuildSign, BuildPut
    <2>2. b'.pc \in {"keywrite", "manifest", "sig", "put", "latest", "idle"}
      BY <2>1, GotoStep, IdleStep, Phases
    <2> QED  BY <1>1, <2>1, <2>2, NetworkedSteps, MovesNet
  <1>9. CASE BuildError
    <2>1. b.pc \notin Networked /\ Quiet /\ b'.pc = "idle"
      BY <1>9, IdleStep, NetworkedSteps, Phases DEF BuildError
    <2> QED  BY <1>1, <2>1, NetworkedSteps, MovesNet
  <1>10. CASE BuilderDies
    <2>1. b.pc # "idle" /\ UNCHANGED <<net, cp, gs>> /\ b'.pc = "idle" /\ b'.v = NoVersion
      BY <1>10, IdleStep DEF BuilderDies, hostVars
    <2>2. PICK v \in Versions : v = b.v
      BY <2>1 DEF Shape, Builders
    <2>3. v \in Users /\ v # NoVersion /\ upk \in [Users -> 0..6] /\ UpSoFar(v)
      BY OwnersDiffer, BuildAssumption DEF Shape, NetInv
    <2>4. upk'[v] = 0 /\ \A w \in Users \ {v} : upk'[w] = upk[w]
      BY <1>10, <2>2, <2>3 DEF BuilderDies
    <2>5. upset' = IF b.net THEN upset \cup {v} ELSE upset
      BY <1>10, <2>2 DEF BuilderDies
    <2>6. Apart(v) /\ UpSoFar(v)'
      <3>1. \A w \in Users : UpSoFar(w) => UpSoFar(w)'
        BY <2>1, <2>4, SMT DEF UpSoFar
      <3>2. \A w \in Users : Clean(net, w) => Clean(net, w)'
        BY <2>1 DEF Clean
      <3> QED  BY <2>1, <2>3, <2>4, <2>5, <3>1, <3>2 DEF Apart
    <2>7. v \notin upset' => Clean(net, v)'
      BY <2>1, <2>2, <2>5 DEF NetInv, Clean
    <2> QED  BY <2>1, <2>2, <2>6, <2>7, NetworkedSteps, VersionNet
  <1>11. CASE UNCHANGED vars
    BY <1>11, QuietNet DEF vars
  <1> QED
    BY <1>2, <1>3, <1>4, <1>5, <1>6, <1>7, <1>8, <1>9, <1>10, <1>11, WhoSteps, BuildersNet
       DEF BuilderStep

\* VmInv is kept by every step: boots are followed by kills.
LEMMA VmSteps ==
  ASSUME Shape, VmInv, [Next]_vars
  PROVE  VmInv'
  <1> USE Zenon
  <1> DEFINE With == Running \cup {"snap", "expect"}
  <1>1. /\ {"check", "copied", "ran", "snap", "expect"} \subseteq With /\ "up" \notin With
        /\ \A pc \in Early \cup {"idle", "copy", "net", "up", "boot", "bake2", "key", "keywrite",
                                 "manifest", "sig", "put", "latest"} : pc \notin With
    BY DEF Running, Early
  <1> HIDE DEF With
  <1>2. VmInv <=> ((bvm => b.pc \in With) /\ (b.pc = "up" => b.net))
    BY DEF VmInv, With
  <1>3. VmInv' <=> ((bvm' => b'.pc \in With) /\ (b'.pc = "up" => b'.net))
    BY DEF VmInv, With
  <1>4. ASSUME b.pc \notin With, UNCHANGED bvm, b'.pc # "up" PROVE VmInv'
    BY <1>2, <1>3, <1>4
  <1>5. ASSUME b'.pc \in With PROVE VmInv'
    BY <1>1, <1>3, <1>5
  <1>6. ASSUME bvm' = FALSE, b'.pc # "up" PROVE VmInv'
    BY <1>3, <1>6
  <1>7. CASE HostStep
    <2>1. bvm' = bvm /\ b' = b
      BY <1>7, HostApart DEF buildVars
    <2> QED  BY <1>2, <1>3, <2>1
  <1>8. ASSUME NEW v \in Versions, BuildBegin(v) PROVE VmInv'
    <2>1. b.pc = "idle" /\ b'.pc \in {"source", "dir"} /\ UNCHANGED bvm
      BY <1>8, BuildBeginStep DEF BuildBegin
    <2> QED  BY <1>1, <1>4, <2>1
  <1>9. CASE BuildSource \/ BuildPull \/ BuildBake
    <2>1. b.pc \in {"source", "pull", "bake", "config"} /\ UNCHANGED bvm
      BY <1>9 DEF BuildSource, BuildPull, BuildBake
    <2>2. Goto("dir") \/ Goto("pull") \/ Goto("bake") \/ Goto("config")
      BY <1>9 DEF BuildSource, BuildPull, BuildBake
    <2>3. b'.pc # "up"
      BY <2>1, <2>2, GotoStep, Phases
    <2>4. b.pc \notin With
      BY <1>1, <2>1, Phases
    <2> QED  BY <1>4, <2>1, <2>3, <2>4
  <1>10. CASE BuildClean \/ BuildCleanDies \/ BuildCopy
    <2>1. b.pc \in {"dir", "copy"} /\ UNCHANGED bvm /\ (Goto("copy") \/ Goto("net") \/ b' = Idle)
      BY <1>10, ZenonT(30) DEF BuildClean, BuildCleanDies, BuildCopy
    <2>2. b'.pc # "up"
      BY <2>1, GotoStep, IdleStep, Phases
    <2>3. b.pc \notin With
      BY <1>1, <2>1, Phases
    <2> QED  BY <1>4, <2>1, <2>2, <2>3
  <1>11. CASE BuildNet
    <2>1. b.pc = "net" /\ UNCHANGED bvm
      BY <1>11 DEF BuildNet
    <2>2. ~bvm
      BY <1>1, <1>2, <2>1
    <2>3. CASE Goto("boot")
      <3>1. b'.pc = "boot"
        BY <2>1, <2>3, GotoStep, Phases
      <3> QED  BY <1>1, <1>4, <2>1, <3>1
    <2>4. CASE b.net /\ Goto("up")
      <3>1. Goto("up") /\ "up" \in Early \cup Cleaned
        BY <2>4, Phases
      <3>2. b'.net = b.net
        BY <2>1, <3>1, GotoStep
      <3> QED  BY <1>3, <2>1, <2>2, <2>4, <3>2
    <2> QED  BY <1>11, <2>3, <2>4 DEF BuildNet
  <1>12. CASE BuildUp
    <2>1. b.pc = "up" /\ UNCHANGED bvm
      BY <1>12 DEF BuildUp
    <2>2. CASE UNCHANGED b
      BY <1>2, <1>3, <2>1, <2>2
    <2>3. CASE Goto("boot") \/ b' = Idle
      <3>1. b'.pc # "up"
        BY <2>1, <2>3, GotoStep, IdleStep, Phases
      <3> QED  BY <1>1, <1>4, <2>1, <3>1
    <2> QED  BY <1>12, <2>2, <2>3 DEF BuildUp
  <1>13. CASE BuildBoot
    <2>1. CASE Goto("check")
      <3>1. b'.pc = "check"
        BY <1>13, <2>1, GotoStep, Phases DEF BuildBoot
      <3> QED  BY <1>1, <1>5, <3>1
    <2>2. CASE b' = Idle /\ UNCHANGED bvm
      <3>1. b'.pc = "idle" /\ b.pc = "boot"
        BY <1>13, <2>2, IdleStep DEF BuildBoot
      <3> QED  BY <1>1, <1>4, <2>2, <3>1
    <2> QED  BY <1>13, <2>1, <2>2 DEF BuildBoot
  <1>14. CASE BuildInject \/ BuildRun \/ BuildSync
    <2>1. b.pc \in {"check", "copied", "ran"}
      BY <1>14 DEF BuildInject, BuildRun, BuildSync
    <2>2. CASE EndPhase("idle") \/ EndPhase("bake2")
      <3>1. bvm' = FALSE
        BY <2>2 DEF EndPhase
      <3>2. b'.pc # "up"
        BY <2>1, <2>2, EndPhaseStep
      <3> QED  BY <1>6, <3>1, <3>2
    <2>3. CASE Goto("copied") \/ Goto("ran")
      <3>1. b'.pc \in {"copied", "ran"}
        BY <2>1, <2>3, GotoStep, Phases
      <3> QED  BY <1>1, <1>5, <3>1
    <2> QED  BY <1>14, <2>2, <2>3 DEF BuildInject, BuildRun, BuildSync
  <1>15. CASE PrebakeBoot \/ PrebakeSnapshot \/ PrebakeExpect
    <2>1. b.pc \in {"bake2", "snap", "expect"}
      BY <1>15 DEF PrebakeBoot, PrebakeSnapshot, PrebakeExpect
    <2>2. CASE Goto("snap") \/ Goto("expect")
      <3>1. b'.pc \in {"snap", "expect"}
        BY <2>1, <2>2, GotoStep, Phases
      <3> QED  BY <1>1, <1>5, <3>1
    <2>3. CASE b.pc = "bake2" /\ b' = Idle /\ UNCHANGED bvm
      <3>1. b'.pc = "idle"
        BY <2>3, IdleStep
      <3> QED  BY <1>1, <1>4, <2>3, <3>1
    <2>4. CASE bvm' = FALSE /\ (Goto("key") \/ b' = Idle)
      <3>1. b'.pc # "up"
        BY <2>1, <2>4, GotoStep, IdleStep, Phases
      <3> QED  BY <1>6, <2>4, <3>1, ZenonT(30)
    <2> QED  BY <1>15, <2>2, <2>3, <2>4 DEF PrebakeBoot, PrebakeSnapshot, PrebakeExpect
  <1>16. CASE BuildKey \/ BuildKeyWrite \/ BuildManifest \/ BuildSign \/ BuildPut
    <2>1. /\ b.pc \in {"key", "keywrite", "manifest", "sig", "put", "latest"} /\ UNCHANGED bvm
          /\ \/ Goto("keywrite") \/ Goto("manifest") \/ Goto("sig") \/ Goto("put") \/ Goto("latest")
             \/ b' = Idle
      BY <1>16, ZenonT(30) DEF BuildKey, BuildKeyWrite, BuildManifest, BuildSign, BuildPut
    <2>2. b'.pc # "up"
      BY <2>1, GotoStep, IdleStep, Phases
    <2>3. b.pc \notin With
      BY <1>1, <2>1
    <2> QED  BY <1>4, <2>1, <2>2, <2>3
  <1>17. CASE BuildError
    <2>1. b.pc \notin With /\ UNCHANGED bvm /\ b'.pc = "idle"
      BY <1>1, <1>17, IdleStep, Phases, SMT DEF BuildError
    <2> QED  BY <1>4, <2>1
  <1>18. CASE BuilderDies
    <2>1. bvm' = FALSE /\ b'.pc = "idle"
      BY <1>18, IdleStep DEF BuilderDies
    <2> QED  BY <1>6, <2>1
  <1>19. CASE UNCHANGED vars
    <2>1. bvm' = bvm /\ b' = b
      BY <1>19 DEF vars
    <2> QED  BY <1>2, <1>3, <2>1
  <1> QED
    BY <1>7, <1>8, <1>9, <1>10, <1>11, <1>12, <1>13, <1>14, <1>15, <1>16, <1>17, <1>18, <1>19, WhoSteps
       DEF BuilderStep

\* VmInv and NetInv are invariants.
LEMMA NetHolds == Spec => [](VmInv /\ NetInv)
  <1> USE Zenon
  <1>1. Init => VmInv
    <2> SUFFICES ASSUME Init PROVE VmInv
      OBVIOUS
    <2>1. bvm = FALSE /\ b.pc = "idle"
      BY DEF Init, Idle
    <2> QED  BY <2>1 DEF VmInv
  <1>2. Init => NetInv
    <2> SUFFICES ASSUME Init PROVE NetInv
      OBVIOUS
    <2>1. /\ \A u \in Users : upk[u] = 0 /\ u # NoUser
          /\ \A u \in Sbx : cp[u] = "new" /\ gs = "idle" /\ b.pc = "idle"
      BY BuildAssumption DEF Init, Idle
    <2>2. \A u \in Users : Clean(net, u)
      BY <2>1 DEF Init, NoNet, Clean
    <2>3. gs = "idle" /\ b.pc \notin Networked
      BY NetworkedSteps DEF Init, Idle
    <2> QED  BY <2>1, <2>2, <2>3, OwnersDiffer, SMTT(30) DEF NetInv, UpSoFar
  <1>3. Shape /\ VmInv /\ NetInv /\ [Next]_vars => VmInv' /\ NetInv'
    BY VmSteps, NetSteps
  <1> QED
    BY <1>1, <1>2, <1>3, ShapeHolds, PTL DEF Spec

\* LiveNet, nftfw: what runs keeps its namespace, veth, tap and NAT table
\* through every other instance's up and down, and the session its gate.
THEOREM WhatRunsIsWired == Spec => []RunsWired
  <1> USE Zenon
  <1>1. Shape /\ NetInv => RunsWired
    <2> SUFFICES ASSUME Shape, NetInv PROVE RunsWired
      OBVIOUS
    <2>1. ASSUME NEW u \in Users, upk[u] = 6 PROVE Wired(net, u)
      BY <2>1, SMT DEF NetInv, UpSoFar, Wired
    <2>2. {"boot", "check", "copied", "ran"} \subseteq Networked \ {"up"}
      BY NetworkedSteps
    <2>3. \A u \in Sbx : cp[u] = "live" => Wired(net, u)
      BY <2>1, OwnersDiffer, ZenonT(30) DEF NetInv
    <2>4. gs \in {"gated", "run", "allowed"} => Wired(net, Live) /\ Live \in net.gate
      BY <2>1, OwnersDiffer DEF NetInv
    <2>5. b.net /\ b.pc \in {"boot", "check", "copied", "ran"} => Wired(net, b.v)
      BY <2>1, <2>2, NetworkedBuild, OwnersDiffer DEF NetInv
    <2> QED  BY <2>3, <2>4, <2>5 DEF RunsWired
  <1> QED
    BY <1>1, NetHolds, ShapeHolds, PTL

\* create_egress, run_build_phase, net_live_reconcile: what does not run has
\* left nothing of its network on the host unless its own failure explains
\* it, and an idle builder has no VM.
THEOREM ResidueIsExplained == Spec => []ResidueExplained
  <1> USE Zenon
  <1>1. Shape /\ VmInv /\ NetInv => ResidueExplained
    <2> SUFFICES ASSUME Shape, VmInv, NetInv PROVE ResidueExplained
      OBVIOUS
    <2>1. \A v \in Versions : b.v # v /\ v \notin upset => Clean(net, v)
      BY DEF NetInv
    <2>2. b.pc = "idle" => ~bvm
      BY ZenonT(30) DEF VmInv, Running
    <2>3. /\ \A u \in Sbx : cp[u] \in {"new", "gone"} /\ u \notin upset => Clean(net, u)
          /\ gs = "idle" /\ Live \notin upset => Clean(net, Live)
      BY DEF NetInv
    <2> QED  BY <2>1, <2>2, <2>3 DEF ResidueExplained
  <1> QED
    BY <1>1, NetHolds, ShapeHolds, PTL
=============================================================================
