------------------------------ MODULE Cluster ------------------------------
(***************************************************************************)
(* Several `serve` replicas on one etcd store behind a gateway (api.rs,    *)
(* sched.rs, cluster.rs, expose.rs): a create is placed on a node and      *)
(* relayed there, its quota checked and its project tag written by the     *)
(* replica that received it; delete, expose and unexpose are relayed to    *)
(* the owner; the reaper of the leader enforces TTLs and reclaims the      *)
(* sandboxes of nodes without a heartbeat.  One project; --require-auth.   *)
(* The ledger and the records of one node are those of module Orch, seen   *)
(* here one sandbox at a time; leases are the server's to expire.          *)
(*                                                                         *)
(*   lock, flag  the leader lock, and the replicas whose is_leader is set  *)
(*   beats       nodes whose heartbeat key node/<id> exists                *)
(*   down        nodes that died (a restarted daemon has a new node id)    *)
(*   live        node -> sandboxes in its Orch.live                        *)
(*   due         live sandboxes past their TTL                             *)
(*   owner       records: sandbox -> value of its node key                 *)
(*   tags, bare  project keys on the sandbox's lease / on no lease         *)
(*   lsn         running expose listeners; reg: the registry has a handle  *)
(*   req         requests in progress, one per thread                      *)
(*   made        sandboxes created so far; faults: failed calls so far     *)
(* and the history that the properties refer to:                           *)
(*   overlaps    checks passed while another create was past its own       *)
(*   untagged    recorded sandboxes whose create ended without a tag       *)
(*   lapsed      live sandboxes whose lease ran out or was revoked by one  *)
(*               who saw no heartbeat of their node                        *)
(*   stray       (in lsn) nothing will stop the listener with its sandbox  *)
(***************************************************************************)
EXTENDS Integers, FiniteSets, Maps

CONSTANTS
    Nodes,       \* node ids, compared as numbers
    Cap,         \* sandboxes that fit on a node
    Reqs,        \* threads that serve API requests
    Quota,       \* sandboxes the project may have
    MaxSids,     \* bound on sandboxes ever created
    MaxFaults    \* bound on failed calls, lost leases and deaths

ASSUME ClusterAssumption ==
    Quota \in Nat /\ MaxSids \in Nat /\ MaxFaults \in Nat /\ IsFiniteSet(Reqs)

VARIABLES lock, flag, beats, down, live, due, owner, tags, bare, lsn, req,
          made, faults, overlaps, untagged, lapsed

ctl   == <<lock, flag, beats, down>>
store == <<owner, tags, bare>>
hist  == <<overlaps, untagged, lapsed>>
vars  == <<ctl, live, due, store, lsn, req, made, faults, hist>>

None == 0

Sids == 1..MaxSids

Idle == [pc |-> "idle", op |-> "none", at |-> None, to |-> None, sid |-> None]

Init ==
    /\ lock = None /\ flag = {} /\ beats = Nodes /\ down = {}
    /\ live = [n \in Nodes |-> {}] /\ due = {}
    /\ owner = EmptyMap /\ tags = {} /\ bare = {} /\ lsn = {}
    /\ req = [r \in Reqs |-> Idle]
    /\ made = 0 /\ faults = 0 /\ overlaps = 0 /\ untagged = {} /\ lapsed = {}

Fault == faults < MaxFaults /\ faults' = faults + 1

Goto(r, pc) == req' = [req EXCEPT ![r].pc = pc]

Answer(r) == req' = [req EXCEPT ![r] = Idle]

\* create_sandbox holds the orchestrator's mutex from the quota check to the
\* tag; everything else on that node that needs it waits.
Held(n) == \E r \in Reqs : req[r].pc = "make" /\ req[r].at = n

Free(n) == n \notin down /\ ~Held(n)
-----------------------------------------------------------------------------
\* sched::survey and sched::place: nodes with a heartbeat and room for one
\* more; most free memory, fewest sandboxes, the replica itself, lowest id.
Used(n) == Cardinality({s \in DOMAIN owner : owner[s] = n})

Fits == {n \in beats : Cap[n] - Used(n) >= 1}

Rank(self, n) == <<Used(n) - Cap[n], Used(n), IF n = self THEN 0 ELSE 1, n>>

Before(a, b) == \E i \in 1..4 : a[i] < b[i] /\ \A j \in 1..(i - 1) : a[j] = b[j]

Place(self) ==
    CHOOSE n \in Fits : \A m \in Fits \ {n} : Before(Rank(self, n), Rank(self, m))

Counted == (tags \cup bare) \cap DOMAIN owner

\* Mutant of UnderQuota: the sandbox to come is not counted.
UnderQuotaCurrent == Cardinality(Counted) <= Quota

UnderQuota == Cardinality(Counted) + 1 <= Quota

Passed(r) == req[r].op = "create" /\ req[r].pc \in {"make", "relay", "tag"}

\* Bound: no more creates are begun than there are sandbox ids left for.
IdsLeft == made + Cardinality({r \in Reqs : req[r].pc \in {"make", "relay"}}) < MaxSids

\* POST /v1/sandboxes.  The survey and quota::check read the store; without
\* a fitting node, or when the survey fails, the create stays here, and then
\* the check is made under the mutex, which is kept.
Create(r, n) ==
    /\ req[r] = Idle /\ Free(n) /\ UnderQuota /\ IdsLeft
    /\ \E to \in Nodes :
        /\ \/ Fits # {} /\ to = Place(n) /\ UNCHANGED faults
           \/ Fits = {} /\ to = n /\ UNCHANGED faults
           \/ Fits # {} /\ to = n /\ to # Place(n) /\ Fault
        /\ req' = [req EXCEPT ![r] = [pc |-> IF to = n THEN "make" ELSE "relay",
                                      op |-> "create", at |-> n, to |-> to, sid |-> None]]
    /\ overlaps' = overlaps + IF \E q \in Reqs : Passed(q) THEN 1 ELSE 0
    /\ UNCHANGED <<ctl, live, due, store, lsn, made, untagged, lapsed>>

\* create_in: the instance, its entry in the ledger and its records.
Register(n) ==
    /\ made < MaxSids /\ made' = made + 1
    /\ live' = [live EXCEPT ![n] = @ \cup {made'}]
    /\ owner' = Bind(owner, made', n)

\* The rest of create_sandbox under the mutex: it fails, or creates and tags,
\* or creates and answers an error because the tag could not be written.
Make(r) ==
    /\ req[r].pc = "make" /\ Answer(r)
    /\ \/ /\ Register(req[r].at)
          /\ \/ tags' = tags \cup {made'} /\ UNCHANGED <<faults, untagged>>
             \/ Fault /\ untagged' = untagged \cup {made'} /\ UNCHANGED tags
       \/ Fault /\ UNCHANGED <<live, owner, made, tags, untagged>>
    /\ UNCHANGED <<ctl, due, bare, lsn, overlaps, lapsed>>

\* /gw/create on the target, which knows no project.
CreateThere(r) ==
    /\ Free(req[r].to) /\ Register(req[r].to)
    /\ req' = [req EXCEPT ![r].pc = "tag", ![r].sid = made']
    /\ UNCHANGED faults

\* relay_via_gw: the target creates, or the relay fails.
RelayCreate(r) ==
    /\ req[r].pc = "relay"
    /\ \/ CreateThere(r)
       \/ Answer(r) /\ Fault /\ UNCHANGED <<live, owner, made>>
    /\ UNCHANGED <<ctl, due, tags, bare, lsn, hist>>

\* Mutant of PutTag: the lease is taken from the ledger only.
PutTagLedger(n, s) ==
    IF s \in live[n] THEN tags' = tags \cup {s} /\ UNCHANGED bare
                     ELSE bare' = bare \cup {s} /\ UNCHANGED tags

\* tag_project: on the lease of the ledger or of the meta key; a sandbox that
\* has neither any more gets a key without a lease.
PutTag(n, s) ==
    IF s \in live[n] \cup DOMAIN owner THEN tags' = tags \cup {s} /\ UNCHANGED bare
                                       ELSE bare' = bare \cup {s} /\ UNCHANGED tags

\* schedule_create after a 201, unless that answer is lost (502): an error of
\* tag_project is ignored.
Tag(r) ==
    /\ req[r].pc = "tag" /\ Free(req[r].at) /\ Answer(r)
    /\ \/ PutTag(req[r].at, req[r].sid) /\ UNCHANGED <<faults, untagged>>
       \/ Fault /\ untagged' = untagged \cup ({req[r].sid} \cap DOMAIN owner) /\ UNCHANGED <<tags, bare>>
    /\ UNCHANGED <<ctl, live, due, owner, lsn, made, overlaps, lapsed>>
-----------------------------------------------------------------------------
\* authorize: a sandbox without a project key is unknown to every caller.
Authorized(s) == s \in tags \cup bare

\* remote_owner: the node a request about s is served on.
Serves(n, s) ==
    IF s \in live[n] \/ s \notin DOMAIN owner THEN n ELSE owner[s]

\* forward_via_gw finds the owner alive.
Delivered(n, s) == Serves(n, s) \notin down

\* A delete or an expose is authorized and delivered to the owner.  One that
\* gets lost on its way, 502, changes nothing, nor does one for a sandbox that
\* is not live there by then, 404, since it never will be again.
Request(r, n, op, s) ==
    /\ req[r] = Idle /\ Free(n) /\ Authorized(s) /\ Delivered(n, s)
    /\ s \in live[Serves(n, s)]
    /\ req' = [req EXCEPT ![r] = [pc |-> op, op |-> op, at |-> Serves(n, s), to |-> Serves(n, s), sid |-> s]]
    /\ UNCHANGED <<ctl, live, due, store, lsn, made, faults, hist>>

\* The sandboxes S leave the ledger of n, and with it their instances.
Leave(n, S) == live' = [live EXCEPT ![n] = @ \ S] /\ due' = due \ S

\* The records of S go with their leases.
Forget(S) == owner' = Drop(owner, S) /\ tags' = tags \ S /\ untagged' = untagged \ S

Of(n, S) == {l \in lsn : l.at = n /\ l.sid \in S}

\* Nothing is going to stop the listeners of S on n any more.
Strays(n, S) == (lsn \ Of(n, S)) \cup {[l EXCEPT !.stray = TRUE] : l \in Of(n, S)}

\* Mutant of Dropped: the handle is removed from the registry, not stopped.
DroppedOnly(n, S) == (lsn \ Of(n, S)) \cup {[l EXCEPT !.reg = FALSE] : l \in Of(n, S)}

\* drop_exposes: what the registry has is stopped.
Dropped(n, S) == lsn \ {l \in Of(n, S) : l.reg}

\* destroy on the owner.  etcd answers an error when the lease is gone, and
\* then (or when the call fails) the listeners are not dropped: 404.
Destroy(r) ==
    LET n == req[r].to
        s == req[r].sid IN
    /\ req[r].pc = "delete" /\ Free(n)
    /\ \/ s \notin live[n] /\ Answer(r) /\ UNCHANGED <<live, due, owner, tags, lsn, faults, untagged, lapsed>>
       \/ /\ s \in live[n] /\ Leave(n, {s}) /\ lapsed' = lapsed \ {s}
          /\ \/ s \in DOMAIN owner /\ Goto(r, "drop") /\ Forget({s}) /\ UNCHANGED <<lsn, faults>>
             \/ /\ Answer(r) /\ lsn' = Strays(n, {s}) /\ UNCHANGED <<owner, tags, untagged>>
                /\ IF s \in DOMAIN owner THEN Fault ELSE UNCHANGED faults
    /\ UNCHANGED <<ctl, bare, made, overlaps>>

\* drop_exposes after a delete, when the mutex is free again.
DropExposes(r) ==
    /\ req[r].pc = "drop" /\ req[r].to \notin down
    /\ lsn' = Dropped(req[r].to, {req[r].sid}) /\ Answer(r)
    /\ UNCHANGED <<ctl, live, due, store, made, faults, hist>>
-----------------------------------------------------------------------------
Registered(n, s) == \E l \in Of(n, {s}) : l.reg

\* expose_port up to exec_target: an exposed port is answered at once.
Lookup(r) ==
    LET n == req[r].to
        s == req[r].sid IN
    /\ req[r].pc = "expose" /\ Free(n)
    /\ IF ~Registered(n, s) /\ s \in live[n] THEN Goto(r, "listen") ELSE Answer(r)
    /\ UNCHANGED <<ctl, live, due, store, lsn, made, faults, hist>>

\* A delete of s on n has yet to drop the listeners.
Dropping(n, s) == \E q \in Reqs : req[q].pc = "drop" /\ req[q].to = n /\ req[q].sid = s

\* start_listener and the insert, outside the mutex: a handle already there
\* is replaced without being stopped.
Listen(r) ==
    LET n == req[r].to
        s == req[r].sid
        gone == s \notin live[n] /\ ~Dropping(n, s)
        old == {l \in Of(n, {s}) : l.reg} IN
    /\ req[r].pc = "listen" /\ n \notin down /\ Answer(r)
    /\ lsn' = (lsn \ old) \cup {[l EXCEPT !.reg = FALSE, !.stray = TRUE] : l \in old}
                          \cup {[at |-> n, sid |-> s, reg |-> TRUE, stray |-> gone]}
    /\ UNCHANGED <<ctl, live, due, store, made, faults, hist>>

Unexpose(n, s) ==
    /\ Free(n) /\ Authorized(s) /\ Delivered(n, s)
    /\ Registered(Serves(n, s), s)
    /\ lsn' = Dropped(Serves(n, s), {s})
    /\ UNCHANGED <<ctl, live, due, store, req, made, faults, hist>>
-----------------------------------------------------------------------------
\* Mutant of Orphans: a node is protected by nothing but its heartbeat.
OrphansAll(n) == {s \in DOMAIN owner : owner[s] \notin beats}

\* cluster::reclaim_orphans: the records of nodes without a heartbeat, never
\* those of the node itself.
Orphans(n) == {s \in DOMAIN owner : owner[s] \notin beats \cup {n}}

Taken(n, R) == {s \in R : owner[s] # n /\ s \in live[owner[s]]}

\* One round of the reaper on a replica that believes to be the leader.  tick
\* knows its own ledger only; a destroy that fails (E) ends it, and then the
\* listeners of what it destroyed before (D) are not dropped.  After it the
\* orphans are reclaimed, up to the first error (R).
Reaper(n) ==
    LET expired == live[n] \cap due IN
    /\ n \in flag /\ Free(n)
    /\ \E D \in SUBSET (expired \cap DOMAIN owner), E \in SUBSET expired, R \in SUBSET Orphans(n) :
        /\ (E = {} /\ D = expired) \/ \E e \in expired \ D : E = {e}
        /\ IF R = Orphans(n) /\ E \cap DOMAIN owner = {} THEN UNCHANGED faults ELSE Fault
        /\ Forget(D \cup R) /\ Leave(n, D \cup E)
        /\ lapsed' = (lapsed \cup Taken(n, R)) \ (D \cup E)
        /\ lsn' = IF E = {} THEN Dropped(n, D) ELSE Strays(n, D \cup E)
    /\ UNCHANGED <<ctl, bare, req, made, overlaps>>

\* The leader thread: take or keep the lock, set the flag accordingly.
Campaign(n) ==
    /\ n \notin down
    /\ IF lock \in {None, n} THEN lock' = n /\ flag' = flag \cup {n}
                             ELSE flag' = flag \ {n} /\ UNCHANGED lock
    /\ UNCHANGED <<beats, down, live, due, store, lsn, req, made, faults, hist>>

\* The lease of the leader lock runs out; the flag stays until the next try.
LockLost ==
    /\ lock # None /\ lock' = None
    /\ IF lock \in down THEN UNCHANGED faults ELSE Fault
    /\ UNCHANGED <<flag, beats, down, live, due, store, lsn, req, made, hist>>

\* The heartbeat thread registers the node; a late one lets the key run out.
Heartbeat(n) ==
    /\ n \notin down \cup beats /\ beats' = beats \cup {n}
    /\ UNCHANGED <<lock, flag, down, live, due, store, lsn, req, made, faults, hist>>

HeartbeatLost(n) ==
    /\ n \in beats /\ beats' = beats \ {n}
    /\ IF n \in down THEN UNCHANGED faults ELSE Fault
    /\ UNCHANGED <<lock, flag, down, live, due, store, lsn, req, made, hist>>

\* The idle window of s ends and the etcd server drops its lease.
LeaseExpires(s) ==
    /\ s \in DOMAIN owner /\ Forget({s}) /\ lapsed' = lapsed \cup ({s} \cap UNION {live[n] : n \in Nodes})
    /\ UNCHANGED <<ctl, live, due, bare, lsn, req, made, faults, overlaps>>

DeadlinePasses(s) ==
    /\ s \notin due /\ due' = due \cup {s}
    /\ \E n \in Nodes : s \in live[n]
    /\ UNCHANGED <<ctl, live, store, lsn, req, made, faults, hist>>

\* A daemon dies with its ledger, its listeners and the requests it serves.
Die(n) ==
    LET cut == {r \in Reqs : req[r].at = n} IN
    /\ n \notin down /\ Fault
    /\ down' = down \cup {n} /\ flag' = flag \ {n}
    /\ Leave(n, live[n]) /\ lapsed' = lapsed \ live[n] /\ lsn' = {l \in lsn : l.at # n}
    /\ req' = [r \in Reqs |-> IF r \in cut THEN Idle ELSE req[r]]
    /\ untagged' = untagged \cup ({req[r].sid : r \in {q \in cut : req[q].pc = "tag"}} \cap DOMAIN owner)
    /\ UNCHANGED <<lock, beats, store, made, overlaps>>

Serve(r) ==
    \/ Make(r) \/ RelayCreate(r) \/ Tag(r)
    \/ Destroy(r) \/ DropExposes(r) \/ Lookup(r) \/ Listen(r)

Next ==
    \/ \E r \in Reqs : Serve(r)
    \/ \E r \in Reqs, n \in Nodes :
        Create(r, n) \/ \E s \in Sids, op \in {"delete", "expose"} : Request(r, n, op, s)
    \/ \E n \in Nodes : Reaper(n) \/ Campaign(n) \/ Heartbeat(n) \/ HeartbeatLost(n) \/ Die(n)
    \/ \E s \in Sids : LeaseExpires(s) \/ DeadlinePasses(s) \/ \E n \in Nodes : Unexpose(n, s)
    \/ LockLost

Spec == Init /\ [][Next]_vars

\* The leader and reaper threads of every replica wake up again and again,
\* and requests are served to their end.
Fairness ==
    /\ \A n \in Nodes : WF_vars(Campaign(n)) /\ WF_vars(Reaper(n))
    /\ \A r \in Reqs : WF_vars(Serve(r))

FairSpec == Spec /\ Fairness
-----------------------------------------------------------------------------
\* A create passes quota::check and is counted only when its tag is written,
\* on another node or later: the project exceeds its quota by at most the
\* number of checks that passed while another create was between the two.
\* Deletes, reclaims, lost answers and relays add nothing to that.
QuotaBounded == Cardinality(Counted) <= Quota + overlaps

\* schedule_create tags what another node created: a recorded sandbox has a
\* project key on its own lease (so that it goes with the sandbox), or its
\* create is still in progress, or that ended early with a lost answer, a
\* failed put or the death of the replica.
TagsFollow ==
    \A s \in DOMAIN owner :
        \/ s \in tags /\ s \notin bare
        \/ s \in untagged
        \/ \E r \in Reqs : req[r].op = "create" /\ req[r].sid = s

\* expose_port and drop_exposes: a listener has its handle in the registry
\* and its sandbox is live or about to be cleaned up, except where an expose
\* overlapped another one or a destroy, or a destroy ended with an error.
ListenersStopped ==
    \A l \in lsn : l.stray \/ (l.reg /\ (l.sid \in live[l.at] \/ Dropping(l.at, l.sid)))

\* reclaim_orphans spares what the node itself runs, and destroy and tick take
\* a sandbox out of the ledger before its record goes: a live sandbox without
\* a record lost it to the idle timer or to a leader on another node.
LiveRecordLost ==
    \A n \in Nodes : \A s \in live[n] : s \in DOMAIN owner \/ s \in lapsed

\* orch.rs:11, "TTL: the absolute cap in the metadata, judged by tick alone":
\* a sandbox past its TTL does not run on.
TtlCap == \A n \in Nodes, s \in Sids : (s \in live[n] /\ s \in due) ~> s \notin live[n]
=============================================================================
