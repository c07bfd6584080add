------------------------------- MODULE LiveNet -------------------------------
(***************************************************************************)
(* The live network of one instance (sl-node/netlive.rs) and its gate      *)
(* (nftfw.rs): a named network namespace, a veth pair, a tap, a NAT table  *)
(* and a FORWARD rule, all named after a short hash of the id, and one     *)
(* host route to the guest subnet, the same subnet for every instance.     *)
(* The tools (ip, nft, iptables) act on the host's state `net`; each is    *)
(* one atomic step.  Ids hash to different names here.                     *)
(***************************************************************************)
EXTENDS Naturals, Sequences

CONSTANTS NoUser     \* no instance

\* The host before any instance: which instances own a namespace, a veth
\* pair, a tap, a NAT table, a FORWARD rule and a gate; who owns the route.
NoNet == [ns |-> {}, veth |-> {}, tap |-> {}, route |-> NoUser,
          nat |-> {}, fwd |-> {}, gate |-> {}, allow |-> {}]

\* Mutant of Down: the NAT tables are not told apart by instance.
DownAllNat(n, u) ==
    [ns |-> n.ns \ {u}, veth |-> n.veth \ {u}, tap |-> n.tap \ {u},
     route |-> IF n.route = u THEN NoUser ELSE n.route,
     nat |-> {}, fwd |-> n.fwd \ {u},
     gate |-> n.gate \ {u}, allow |-> n.allow \ {u}]

\* down: every removal is tried and its failure ignored.  The tap, the peer
\* and the gate go with the namespace, the route with the veth it names.
Down(n, u) ==
    [ns |-> n.ns \ {u}, veth |-> n.veth \ {u}, tap |-> n.tap \ {u},
     route |-> IF n.route = u THEN NoUser ELSE n.route,
     nat |-> n.nat \ {u}, fwd |-> n.fwd \ {u},
     gate |-> n.gate \ {u}, allow |-> n.allow \ {u}]

\* up after its first call of down, tool by tool.
UpSteps == <<"ns", "veth", "tap", "route", "nat", "fwd">>

UpStep(n, u, s) ==
    CASE s = "ns"    -> [n EXCEPT !.ns = @ \cup {u}]
      [] s = "veth"  -> [n EXCEPT !.veth = @ \cup {u}]
      [] s = "tap"   -> [n EXCEPT !.tap = @ \cup {u}]
      [] s = "route" -> [n EXCEPT !.route = u]          \* `ip route replace`
      [] s = "nat"   -> [n EXCEPT !.nat = @ \cup {u}]
      [] s = "fwd"   -> [n EXCEPT !.fwd = @ \cup {u}]

\* The steps whose failure `?` returns; the others are best effort and may
\* silently do nothing.
Checked(s) == s \in {"ns", "veth", "tap", "nat"}

\* What the host looks like after step s of u, as far as s is concerned.
UpResults(n, u, s) == {UpStep(n, u, s)} \cup IF Checked(s) THEN {} ELSE {n}

\* gate_up / Sandbox::ensure: one transaction in the instance's namespace
\* leaves a drop policy and empty allow sets; without a namespace it fails.
GateUp(n, u) == [n EXCEPT !.gate = @ \cup {u}, !.allow = @ \ {u}]

\* add_allow and teardown
AddAllow(n, u) == [n EXCEPT !.allow = @ \cup {u}]

GateDown(n, u) == [n EXCEPT !.gate = @ \ {u}, !.allow = @ \ {u}]

\* What a guest of u needs to reach the outside, except the way back.
Wired(n, u) == u \in n.ns \cap n.veth \cap n.tap \cap n.nat

\* residue_clean, with the rest of what up makes
Clean(n, u) ==
    /\ u \notin n.ns \cup n.veth \cup n.tap \cup n.nat \cup n.fwd \cup n.gate
    /\ n.route # u
=============================================================================
