---------------------------- MODULE SqliteStore ----------------------------
(***************************************************************************)
(* SqliteStore (sl-store/lib.rs) statement by statement.  Every method     *)
(* locks the connection of its handle and runs SQL statements that commit  *)
(* one by one: there is no BEGIN.  Threads of one handle exclude each      *)
(* other; the handles one process opens on the same file (api server,      *)
(* authentication, heartbeat) interleave between statements.  Values are   *)
(* left out: the properties are about revisions, the log and leases.       *)
(*                                                                         *)
(*   rev      meta.current_rev                                             *)
(*   kv       table kv: key -> [create, mod, lease]                        *)
(*   events   table events: rev -> [key, kind]                             *)
(*   leases   table leases: id -> whether its expires_at has passed        *)
(*   floor    revisions up to floor were compacted away                    *)
(*   granted  largest lease id ever granted: the ids callers can know      *)
(*   lock     who holds the Mutex<Connection> of each handle               *)
(*   th       the call each thread is in: next statement and its locals    *)
(*   seen     revisions received by a watcher subscribed since opening     *)
(*   opened   revision when the handles were opened                        *)
(*   faults   failed statements and crashes so far, at most MaxFaults      *)
(***************************************************************************)
EXTENDS Naturals, Sequences, Maps

CONSTANTS Keys, Threads, Handles, HandleOf, None, MaxRev, MaxLease, MaxFaults

ASSUME HandlesAssumption == HandleOf \in [Threads -> Handles] /\ None \notin Threads \cup Keys
ASSUME BoundsAssumption == MaxRev \in Nat /\ MaxLease \in Nat /\ MaxFaults \in Nat

VARIABLES rev, kv, events, leases, floor, granted, lock, th, seen, opened, faults

vars == <<rev, kv, events, leases, floor, granted, lock, th, seen, opened, faults>>

tables == <<rev, kv, events, leases, floor, granted>>

NoLease == 0

Idle == [pc |-> "idle", op |-> "none", key |-> None, lease |-> NoLease, cmp |-> 0,
         create |-> 0, rev |-> 0, ids |-> {}, keys |-> {}, out |-> <<>>]

Init ==
    /\ rev = 0 /\ kv = EmptyMap /\ events = EmptyMap /\ leases = EmptyMap
    /\ floor = 0 /\ granted = 0
    /\ lock = [h \in Handles |-> None]
    /\ th = [t \in Threads |-> Idle]
    /\ seen = [h \in Handles |-> <<>>]
    /\ opened = 0
    /\ faults = 0

ModOf(k) == IF k \in DOMAIN kv THEN kv[k].mod ELSE 0

CreateOf(k) == IF k \in DOMAIN kv THEN kv[k].create ELSE 0

KeysOn(l) == {k \in DOMAIN kv : kv[k].lease = l}

At(t, l) == th[t].pc = l

Do(t, r) == th' = [th EXCEPT ![t] = r]

Larger(m, n) == IF m >= n THEN m ELSE n

\* Mutant of Lock: threads of one handle do not wait for each other.
LockShared(t) ==
    /\ At(t, "idle")
    /\ lock' = [lock EXCEPT ![HandleOf[t]] = t]
    /\ UNCHANGED <<tables, seen, opened, faults>>

\* self.conn.lock(): the first thing every method does.
Lock(t) ==
    /\ At(t, "idle") /\ lock[HandleOf[t]] = None
    /\ lock' = [lock EXCEPT ![HandleOf[t]] = t]
    /\ UNCHANGED <<tables, seen, opened, faults>>

Unlock(t) == lock' = [lock EXCEPT ![HandleOf[t]] = None]

\* Return, with an error or not: the guard is dropped, nothing is undone.
Return(t) == Do(t, Idle) /\ Unlock(t)

CallPut(t) ==
    /\ Lock(t) /\ rev < MaxRev
    /\ \E k \in Keys, l \in 0..granted :
          Do(t, [Idle EXCEPT !.pc = IF l = NoLease THEN "bump" ELSE "lease",
                             !.op = "put", !.key = k, !.lease = l])

CallDelete(t) ==
    /\ Lock(t)
    /\ \E k \in Keys : Do(t, [Idle EXCEPT !.pc = "del", !.op = "delete", !.key = k])

\* expect_mod_rev is None (0) or a revision the caller has read before.
CallCas(t) ==
    /\ Lock(t) /\ rev < MaxRev
    /\ \E k \in Keys, e \in 0..rev, l \in 0..granted :
          Do(t, [Idle EXCEPT !.pc = "compare", !.op = "cas", !.key = k, !.cmp = e, !.lease = l])

CallGrant(t) ==
    /\ Lock(t)
    /\ Do(t, [Idle EXCEPT !.pc = "max", !.op = "grant"])

CallKeepalive(t) ==
    /\ Lock(t)
    /\ \E l \in 1..granted : Do(t, [Idle EXCEPT !.pc = "ttl", !.op = "keepalive", !.lease = l])

\* lease_revoke(id), and lease_sweep(now) for lease = NoLease.
CallReap(t) ==
    /\ Lock(t)
    /\ \E l \in 0..granted : Do(t, [Idle EXCEPT !.pc = "ids", !.op = "reap", !.lease = l])

CallCompact(t) ==
    /\ Lock(t)
    /\ \E r \in 1..rev : Do(t, [Idle EXCEPT !.pc = "compact", !.op = "compact", !.rev = r])

\* get, list, current_revision, changes_since: one SELECT.
CallRead(t) == Lock(t) /\ Do(t, [Idle EXCEPT !.pc = "select", !.op = "read"])
-----------------------------------------------------------------------------
Read(t) ==
    /\ At(t, "select")
    /\ Return(t)
    /\ UNCHANGED <<tables, seen, opened, faults>>

\* put: SELECT 1 FROM leases; a missing lease is NoSuchLease.
CheckLease(t) ==
    /\ At(t, "lease")
    /\ \/ th[t].lease \in DOMAIN leases /\ Do(t, [th[t] EXCEPT !.pc = "bump"]) /\ UNCHANGED lock
       \/ th[t].lease \notin DOMAIN leases /\ Return(t)
    /\ UNCHANGED <<tables, seen, opened, faults>>

\* compare_and_swap: SELECT the row and compare its mod_rev.
Compare(t) ==
    /\ At(t, "compare")
    /\ \/ /\ ModOf(th[t].key) = th[t].cmp
          /\ Do(t, [th[t] EXCEPT !.pc = "bump", !.create = CreateOf(th[t].key)])
          /\ UNCHANGED lock
       \/ ModOf(th[t].key) # th[t].cmp /\ Return(t)
    /\ UNCHANGED <<tables, seen, opened, faults>>

\* Mutant of DeleteRow: no revision is taken for a deletion.
DeleteRowNoBump(t) ==
    /\ At(t, "del")
    /\ kv' = Drop(kv, {th[t].key})
    /\ Do(t, [th[t] EXCEPT !.pc = "rev"])
    /\ UNCHANGED <<rev, events, leases, floor, granted, lock, seen, opened, faults>>

\* DELETE FROM kv; delete() returns false when no row matched, reap_leases
\* goes on whatever the count.
DeleteRow(t) ==
    /\ At(t, "del")
    /\ kv' = Drop(kv, {th[t].key})
    /\ \/ /\ th[t].key \in DOMAIN kv \/ th[t].op = "reap"
          /\ Do(t, [th[t] EXCEPT !.pc = "bump"]) /\ UNCHANGED lock
       \/ /\ th[t].key \notin DOMAIN kv /\ th[t].op = "delete"
          /\ Return(t)
    /\ UNCHANGED <<rev, events, leases, floor, granted, seen, opened, faults>>

\* bump_rev: UPDATE meta, then SELECT it, two statements.
Bump(t) ==
    /\ At(t, "bump")
    /\ rev' = rev + 1
    /\ Do(t, [th[t] EXCEPT !.pc = "rev"])
    /\ UNCHANGED <<kv, events, leases, floor, granted, lock, seen, opened, faults>>

ReadRev(t) ==
    /\ At(t, "rev")
    /\ Do(t, [th[t] EXCEPT !.rev = rev,
                           !.pc = IF th[t].op \in {"put", "cas"} THEN "upsert" ELSE "log"])
    /\ UNCHANGED <<tables, lock, seen, opened, faults>>

\* INSERT ... ON CONFLICT DO UPDATE: create_rev survives, the lease does not.
Upsert(t) ==
    /\ At(t, "upsert")
    /\ kv' = Bind(kv, th[t].key,
                  [create |-> IF CreateOf(th[t].key) # 0 THEN CreateOf(th[t].key)
                              ELSE IF th[t].create # 0 THEN th[t].create ELSE th[t].rev,
                   mod |-> th[t].rev, lease |-> th[t].lease])
    /\ Do(t, [th[t] EXCEPT !.pc = "log"])
    /\ UNCHANGED <<rev, events, leases, floor, granted, lock, seen, opened, faults>>

\* Mutant of KindOf: a compare_and_swap is logged as a deletion.
KindOfPutOnly(op) == IF op = "put" THEN "put" ELSE "delete"

KindOf(op) == IF op \in {"put", "cas"} THEN "put" ELSE "delete"

\* append_event: rev is the primary key, a second row for it is an error.
AppendEvent(t) ==
    LET e == [key |-> th[t].key, kind |-> KindOf(th[t].op)]
        sent == Append(th[t].out, th[t].rev)
    IN
    /\ At(t, "log")
    /\ \/ /\ th[t].rev \in DOMAIN events
          /\ Return(t) /\ UNCHANGED events
       \/ /\ th[t].rev \notin DOMAIN events
          /\ events' = Bind(events, th[t].rev, e)
          /\ \/ /\ th[t].op = "reap"
                /\ Do(t, [th[t] EXCEPT !.pc = "keys", !.out = sent]) /\ UNCHANGED lock
             \/ /\ th[t].op # "reap"
                /\ Do(t, [Idle EXCEPT !.pc = "broadcast", !.out = sent]) /\ Unlock(t)
    /\ UNCHANGED <<rev, kv, leases, floor, granted, seen, opened, faults>>

\* Mutant of Broadcast: only the first event of a sweep goes out.
BroadcastFirst(t) ==
    /\ At(t, "broadcast")
    /\ seen' = [seen EXCEPT ![HandleOf[t]] = Append(@, Head(th[t].out))]
    /\ Do(t, Idle)
    /\ UNCHANGED <<tables, lock, opened, faults>>

\* After the connection lock is released the event goes to the watchers.
Broadcast(t) ==
    /\ At(t, "broadcast")
    /\ seen' = [seen EXCEPT ![HandleOf[t]] = Append(@, Head(th[t].out))]
    /\ Do(t, IF Len(th[t].out) = 1 THEN Idle ELSE [th[t] EXCEPT !.out = Tail(@)])
    /\ UNCHANGED <<tables, lock, opened, faults>>
-----------------------------------------------------------------------------
\* lease_grant: SELECT MAX(id) + 1, then INSERT under that id.
MaxId(t) ==
    /\ At(t, "max")
    /\ \E max \in DOMAIN leases \cup {0} :
          /\ \A l \in DOMAIN leases : l <= max
          /\ Do(t, [th[t] EXCEPT !.pc = "insert", !.lease = max + 1])
    /\ UNCHANGED <<tables, lock, seen, opened, faults>>

InsertLease(t) ==
    /\ At(t, "insert")
    /\ IF th[t].lease \in DOMAIN leases \/ th[t].lease > MaxLease
       THEN UNCHANGED <<leases, granted>>
       ELSE leases' = Bind(leases, th[t].lease, FALSE) /\ granted' = Larger(granted, th[t].lease)
    /\ Return(t)
    /\ UNCHANGED <<rev, kv, events, floor, seen, opened, faults>>

\* lease_keepalive: SELECT ttl, then UPDATE expires_at.
ReadTtl(t) ==
    /\ At(t, "ttl")
    /\ \/ th[t].lease \in DOMAIN leases /\ Do(t, [th[t] EXCEPT !.pc = "renew"]) /\ UNCHANGED lock
       \/ th[t].lease \notin DOMAIN leases /\ Return(t)
    /\ UNCHANGED <<tables, seen, opened, faults>>

Renew(t) ==
    /\ At(t, "renew")
    /\ leases' = [l \in DOMAIN leases |-> IF l = th[t].lease THEN FALSE ELSE leases[l]]
    /\ Return(t)
    /\ UNCHANGED <<rev, kv, events, floor, granted, seen, opened, faults>>

\* reap_leases: SELECT the ids; per id SELECT its keys; per key DELETE, bump
\* and log; then DELETE the lease.
SelectIds(t) ==
    LET ids == {l \in DOMAIN leases : IF th[t].lease = NoLease THEN leases[l] ELSE l = th[t].lease}
    IN
    /\ At(t, "ids")
    /\ \/ ids = {} /\ Return(t)
       \/ ids # {} /\ Do(t, [th[t] EXCEPT !.pc = "attached", !.ids = ids]) /\ UNCHANGED lock
    /\ UNCHANGED <<tables, seen, opened, faults>>

SelectKeys(t) ==
    /\ At(t, "attached")
    /\ \E l \in th[t].ids :
          Do(t, [th[t] EXCEPT !.pc = "keys", !.ids = @ \ {l}, !.lease = l, !.keys = KeysOn(l)])
    /\ UNCHANGED <<tables, lock, seen, opened, faults>>

NextKey(t) ==
    /\ At(t, "keys") /\ th[t].keys # {}
    /\ \E k \in th[t].keys :
          Do(t, [th[t] EXCEPT !.pc = "del", !.key = k, !.keys = @ \ {k}])
    /\ UNCHANGED <<tables, lock, seen, opened, faults>>

DeleteLease(t) ==
    /\ At(t, "keys") /\ th[t].keys = {}
    /\ leases' = Drop(leases, {th[t].lease})
    /\ \/ th[t].ids # {} /\ Do(t, [th[t] EXCEPT !.pc = "attached"]) /\ UNCHANGED lock
       \/ /\ th[t].ids = {}
          /\ Do(t, IF th[t].out = <<>> THEN Idle
                   ELSE [Idle EXCEPT !.pc = "broadcast", !.out = th[t].out])
          /\ Unlock(t)
    /\ UNCHANGED <<rev, kv, events, floor, granted, seen, opened, faults>>

Compact(t) ==
    /\ At(t, "compact")
    /\ events' = Drop(events, 1..th[t].rev)
    /\ floor' = Larger(floor, th[t].rev)
    /\ Return(t)
    /\ UNCHANGED <<rev, kv, leases, granted, seen, opened, faults>>
-----------------------------------------------------------------------------
Call(t) ==
    \/ CallPut(t) \/ CallDelete(t) \/ CallCas(t) \/ CallGrant(t)
    \/ CallKeepalive(t) \/ CallReap(t) \/ CallCompact(t) \/ CallRead(t)

Statement(t) ==
    \/ Read(t) \/ CheckLease(t) \/ Compare(t) \/ DeleteRow(t) \/ Bump(t) \/ ReadRev(t)
    \/ Upsert(t) \/ AppendEvent(t) \/ Broadcast(t) \/ MaxId(t) \/ InsertLease(t)
    \/ ReadTtl(t) \/ Renew(t) \/ SelectIds(t) \/ SelectKeys(t) \/ NextKey(t)
    \/ DeleteLease(t) \/ Compact(t)

\* The clock passes a lease's expires_at.
LeaseRunsOut(l) ==
    /\ ~leases[l]
    /\ leases' = [leases EXCEPT ![l] = TRUE]
    /\ UNCHANGED <<rev, kv, events, floor, granted, lock, th, seen, opened, faults>>

\* A statement fails (disk full, database busy): `?` leaves the method.
StatementFails(t) ==
    /\ lock[HandleOf[t]] = t
    /\ faults < MaxFaults /\ faults' = faults + 1
    /\ Return(t)
    /\ UNCHANGED <<tables, seen, opened>>

\* The process dies; the tables keep what was committed.
Crash ==
    /\ faults < MaxFaults /\ faults' = faults + 1
    /\ lock' = [h \in Handles |-> None]
    /\ th' = [t \in Threads |-> Idle]
    /\ seen' = [h \in Handles |-> <<>>]
    /\ opened' = rev
    /\ UNCHANGED tables

Next ==
    \/ \E t \in Threads : Call(t) \/ Statement(t) \/ StatementFails(t)
    \/ \E l \in DOMAIN leases : LeaseRunsOut(l)
    \/ Crash

Spec == Init /\ [][Next]_vars
-----------------------------------------------------------------------------
\* lib.rs:8, "CAS ... is the atomic primitive of concurrent state changes":
\* the row a compare_and_swap has compared is still that row when it writes.
CasAtomic ==
    \A t \in Threads :
        th[t].op = "cas" /\ th[t].pc \in {"bump", "rev", "upsert"} => ModOf(th[t].key) = th[t].cmp

Quiet == \A h \in Handles : lock[h] = None

LastOfKey(r) == \A q \in DOMAIN events : q > r => events[q].key # events[r].key

\* lib.rs:10, "changes_since replays (deletions too, from the bounded log)":
\* between calls the log ends in the table, the last event of a key says
\* whether and since when the key is there.
ReplayMatches ==
    Quiet =>
      /\ \A k \in DOMAIN kv : kv[k].mod > floor => kv[k].mod \in DOMAIN events
      /\ \A r \in DOMAIN events :
            LastOfKey(r) => (events[r].kind = "put" <=> ModOf(events[r].key) = r)

\* A change is one revision and one event: without failed statements and
\* crashes the log has no gap between calls, and it replays into kv.
OneRevisionPerChange ==
    faults = 0 /\ Quiet => DOMAIN events = (floor + 1)..rev /\ ReplayMatches

\* lib.rs:7, "revision: a global counter, +1 for every successful put, delete
\* and cas; each key records its mod_revision": no two keys share a revision,
\* and the log attributes a key's mod_rev to no other key and no deletion.
\* With one handle that survives failed statements and crashes.
LogNeverLies ==
    \A k \in DOMAIN kv :
        /\ \A j \in DOMAIN kv : kv[j].mod = kv[k].mod => j = k
        /\ kv[k].mod \in DOMAIN events => events[kv[k].mod] = [key |-> k, kind |-> "put"]

\* Once every call has returned, a watcher subscribed since opening has got
\* each revision exactly once (in whatever order the broadcasts raced).
WatchComplete ==
    faults = 0 /\ (\A t \in Threads : At(t, "idle")) =>
        \A h \in Handles :
            /\ Len(seen[h]) = rev - opened
            /\ {seen[h][i] : i \in DOMAIN seen[h]} = (opened + 1)..rev
=============================================================================
