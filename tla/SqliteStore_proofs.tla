------------------------ MODULE SqliteStore_proofs ------------------------
(***************************************************************************)
(* The statements of SqliteStore, for any number of keys, threads,         *)
(* revisions, leases, failed statements and crashes.  The threads share    *)
(* one handle (OneHandle): its Mutex<Connection> is all that keeps the     *)
(* statements of one method together, and with two handles on the file     *)
(* LogNeverLies fails (run sqlite_two_handles).                            *)
(***************************************************************************)
EXTENDS SqliteStore, TLAPS

OneHandle == \A g, h \in Handles : g = h

Writes == {"put", "cas"}
Removes == {"delete", "reap"}

\* bump_rev has run and the event of the change is not in the log yet.
Bumped == {"rev", "upsert", "log"}

Ops == {"none", "read", "grant", "keepalive", "compact"} \cup Writes \cup Removes

Pcs == {"idle", "select", "lease", "compare", "del", "bump", "max", "insert", "ttl", "renew",
        "ids", "attached", "keys", "compact", "broadcast"} \cup Bumped

Calls == [pc : Pcs, op : Ops, key : Keys \cup {None}, lease : Nat, cmp : Nat, create : Nat,
          rev : Nat, ids : SUBSET Nat, keys : SUBSET Keys, out : Seq(Nat)]

Rows == [create : Nat, mod : Nat, lease : Nat]

Events == [key : Keys, kind : {"put", "delete"}]

Shape ==
    /\ rev \in Nat /\ floor \in Nat /\ granted \in Nat /\ faults \in Nat /\ opened \in Nat
    /\ DOMAIN kv \subseteq Keys /\ \A k \in DOMAIN kv : kv[k] \in Rows
    /\ DOMAIN events \subseteq Nat /\ \A r \in DOMAIN events : events[r] \in Events
    /\ DOMAIN leases \subseteq Nat
    /\ lock \in [Handles -> Threads \cup {None}]
    /\ th \in [Threads -> Calls]
    /\ seen \in [Handles -> Seq(Nat)]

\* A thread holds the connection of its handle from the call to the return.
Held(c) == c.pc \notin {"idle", "broadcast"}

Locked == \A t \in Threads : lock[HandleOf[t]] = t <=> Held(th[t])

\* What the locals of a call are at each of its statements.
CallOk(c) ==
    /\ c.pc = "idle" => c = Idle
    /\ c.pc = "lease" => c.op = "put"
    /\ c.pc = "compare" => c.op = "cas"
    /\ c.pc = "upsert" => c.op \in Writes
    /\ c.pc = "del" => c.op \in Removes
    /\ c.pc \in {"bump", "rev", "log"} => c.op \in Writes \cup Removes
    /\ c.pc \in {"ids", "attached", "keys"} => c.op = "reap"
    /\ c.pc \in {"compare", "lease", "del", "bump"} \cup Bumped => c.key \in Keys
    /\ c.pc = "compact" => c.rev \in 1..rev
    /\ c.out # <<>> => \/ c.pc \in {"attached", "keys", "broadcast"}
                       \/ c.pc \in {"del", "bump", "rev", "log"} /\ c.op = "reap"
    /\ c.pc = "broadcast" => c.out # <<>>

CallInv == Shape /\ Locked /\ \A t \in Threads : CallOk(th[t])

\* While a change is under way its revision is the newest and not logged.
ChangeOk(c) ==
    /\ c.pc \in Bumped => rev > 0 /\ rev \notin DOMAIN events
    /\ c.pc \in {"upsert", "log"} => c.rev = rev
    /\ c.pc \in {"rev", "upsert"} => \A k \in DOMAIN kv : kv[k].mod # rev
    /\ c.pc = "log" /\ c.op \in Writes => c.key \in DOMAIN kv /\ kv[c.key].mod = rev
    /\ c.pc \in {"bump", "rev", "log"} /\ c.op \in Removes => c.key \notin DOMAIN kv
    /\ c.pc = "log" /\ c.op \in Removes => \A k \in DOMAIN kv : kv[k].mod # rev

LogInv ==
    /\ DOMAIN events \subseteq 1..rev
    /\ \A k \in DOMAIN kv : kv[k].mod \in 1..rev
    /\ LogNeverLies
    /\ \A t \in Threads : ChangeOk(th[t])

\* The key whose row is ahead of the log.
DirtyCall(c) ==
    \/ c.pc \in {"bump", "rev", "log"} /\ c.op \in Removes
    \/ c.pc = "log" /\ c.op \in Writes

Dirty(f, k) == \E t \in Threads : DirtyCall(f[t]) /\ f[t].key = k

Changing(f) == \E t \in Threads : f[t].pc \in Bumped

LoggedUpTo == IF Changing(th) THEN rev - 1 ELSE rev

Replays ==
    \A r \in DOMAIN events :
        LastOfKey(r) /\ ~Dirty(th, events[r].key)
            => (events[r].kind = "put" <=> ModOf(events[r].key) = r)

ReplayInv ==
    faults = 0 =>
        floor <= LoggedUpTo /\ DOMAIN events = (floor + 1) .. LoggedUpTo /\ Replays

\* The places a revision can be in after append_event: with a thread that
\* has not broadcast it yet, or with the watcher.
WithThread(f, t, i, r) == i \in DOMAIN f[t].out /\ f[t].out[i] = r

WithWatcher(g, h, i, r) == i \in DOMAIN g[h] /\ g[h][i] = r

Received(f, g, h, r) ==
    (\E i \in Nat : WithWatcher(g, h, i, r)) \/ \E t \in Threads, i \in Nat : WithThread(f, t, i, r)

\* Every revision that is logged is in one place, and nothing else is.
AllPlaced == \A h \in Handles, r \in 1..LoggedUpTo : Received(th, seen, h, r)

SeenLogged == \A h \in Handles, i, r \in Nat : WithWatcher(seen, h, i, r) => r \in 1..LoggedUpTo

OutLogged == \A t \in Threads, i, r \in Nat : WithThread(th, t, i, r) => r \in 1..LoggedUpTo

SeenOnce ==
    \A h \in Handles, i, j, r \in Nat : WithWatcher(seen, h, i, r) /\ WithWatcher(seen, h, j, r) => i = j

OutOnce ==
    \A s, t \in Threads, i, j, r \in Nat : WithThread(th, s, i, r) /\ WithThread(th, t, j, r) => s = t /\ i = j

SeenNotOut ==
    \A h \in Handles, t \in Threads, i, j, r \in Nat : ~(WithWatcher(seen, h, i, r) /\ WithThread(th, t, j, r))

Places == AllPlaced /\ SeenLogged /\ OutLogged /\ SeenOnce /\ OutOnce /\ SeenNotOut

WatchInv == faults = 0 => opened = 0 /\ Places

-----------------------------------------------------------------------------
\* How the lock goes with a step of t into the call c.
Handover(t, c) ==
    \/ Held(th[t]) /\ Held(c) /\ UNCHANGED lock
    \/ ~Held(th[t]) /\ ~Held(c) /\ UNCHANGED lock
    \/ ~Held(th[t]) /\ Held(c) /\ lock[HandleOf[t]] = None /\ lock' = [lock EXCEPT ![HandleOf[t]] = t]
    \/ Held(th[t]) /\ ~Held(c) /\ Unlock(t)

Moves(t, c) == c \in Calls /\ Do(t, c) /\ Handover(t, c) /\ CallOk(c)'

log == <<rev, kv, events, floor, seen, opened, faults>>

\* A step that leaves the revision, the rows, the log and the watchers alone.
Silent(t, c) ==
    /\ Moves(t, c) /\ UNCHANGED log /\ c.out = th[t].out
    /\ th[t].pc \notin {"bump"} \cup Bumped /\ c.pc \notin Bumped
    /\ c.pc = "bump" => c.op \in Writes
    /\ c.pc = "bump" /\ c.op = "cas" => ModOf(c.key) = c.cmp

\* A step moves its own thread only.
LEMMA DoStep ==
  ASSUME Shape, NEW t \in Threads, NEW c \in Calls, Do(t, c)
  PROVE  /\ th' \in [Threads -> Calls] /\ th'[t] = c
         /\ \A s \in Threads \ {t} : th'[s] = th[s]
  BY Zenon DEF Shape, Do

\* A thread that is in no method holds no lock and has no events to send.
LEMMA IdleCall ==
  /\ Idle \in Calls /\ Idle.pc = "idle" /\ Idle.out = <<>> /\ Idle.op = "none" /\ ~Held(Idle)
  BY DEF Idle, Calls, Pcs, Ops, NoLease, Held

\* An idle call satisfies whatever is asked of calls.
LEMMA IdleOk == CallOk(Idle)'
  BY IdleCall, Zenon DEF CallOk, Bumped

\* The fields of a call after an assignment to some of them.
LEMMA CallFields ==
  ASSUME NEW c \in Calls
  PROVE  /\ c.pc \in Pcs /\ c.op \in Ops /\ c.key \in Keys \cup {None} /\ c.lease \in Nat
         /\ c.cmp \in Nat /\ c.create \in Nat /\ c.rev \in Nat /\ c.ids \in SUBSET Nat
         /\ c.keys \in SUBSET Keys /\ c.out \in Seq(Nat)
  BY Zenon DEF Calls

\* With one handle, one thread at a time is inside a method.
LEMMA OneHolder ==
  ASSUME OneHandle, CallInv, NEW t \in Threads, Held(th[t]), NEW s \in Threads \ {t}
  PROVE  ~Held(th[s])
  BY HandlesAssumption DEF CallInv, Locked, OneHandle

\* The lock stays with the thread that is inside a method, and calls stay well
\* formed.
LEMMA MovesStep ==
  ASSUME OneHandle, CallInv, NEW t \in Threads, NEW c, Moves(t, c), rev' \in Nat, rev <= rev'
  PROVE  /\ th' \in [Threads -> Calls] /\ th'[t] = c /\ \A s \in Threads \ {t} : th'[s] = th[s]
         /\ lock' \in [Handles -> Threads \cup {None}]
         /\ Locked' /\ \A s \in Threads : CallOk(th[s])'
  <1> USE Zenon
  <1>1. th' \in [Threads -> Calls] /\ th'[t] = c /\ \A s \in Threads \ {t} : th'[s] = th[s]
    BY DoStep DEF Moves, CallInv
  <1>2. \A s \in Threads : CallOk(th[s])'
    <2>1. CallOk(th[t])'
      BY <1>1, SMT DEF Moves, CallOk
    <2>2. ASSUME NEW s \in Threads \ {t} PROVE CallOk(th[s])'
      BY <1>1, SMTT(30) DEF CallInv, CallOk, Shape
    <2> QED  BY <2>1, <2>2
  <1>3. lock' \in [Handles -> Threads \cup {None}]
    <2>1. \/ lock' = lock \/ lock' = [lock EXCEPT ![HandleOf[t]] = t]
          \/ lock' = [lock EXCEPT ![HandleOf[t]] = None]
      BY DEF Moves, Handover, Unlock
    <2> QED  BY <2>1 DEF CallInv, Shape
  <1>4. Locked'
    BY <1>1, HandlesAssumption, SMT DEF Moves, Handover, CallInv, Shape, Locked, Held, Unlock, OneHandle
  <1> QED
    BY <1>1, <1>2, <1>3, <1>4

-----------------------------------------------------------------------------
\* Returning is silent unless events wait to be broadcast.
LEMMA ReturnStep ==
  ASSUME CallInv, NEW t \in Threads, Held(th[t]), Return(t)
  PROVE  Moves(t, Idle)
  BY IdleCall, IdleOk, Zenon DEF Return, Moves, Handover

\* A method that returns with nothing appended leaves rows, log and watchers
\* as they are.
LEMMA ReturnSilent ==
  ASSUME CallInv, NEW t \in Threads, Held(th[t]), Return(t), th[t].out = <<>>,
         th[t].pc \notin {"bump"} \cup Bumped, UNCHANGED log
  PROVE  \E c : Silent(t, c)
  <1> USE Zenon
  <1>1. Moves(t, Idle)
    BY ReturnStep
  <1> QED
    BY <1>1, IdleCall DEF Silent, Bumped

\* Every method starts with the lock and no events.
LEMMA CallStep ==
  ASSUME CallInv, NEW t \in Threads, Call(t)
  PROVE  \E c : Silent(t, c)
  <1> USE Zenon
  <1>1. /\ th[t].pc = "idle" /\ ~Held(th[t]) /\ th[t].out = <<>> /\ Lock(t) /\ UNCHANGED log
        /\ lock[HandleOf[t]] = None /\ lock' = [lock EXCEPT ![HandleOf[t]] = t]
    <2>1. Lock(t)
      BY DEF Call, CallPut, CallDelete, CallCas, CallGrant, CallKeepalive, CallReap,
                   CallCompact, CallRead
    <2>2. th[t] = Idle
      BY <2>1, ZenonT(30) DEF Lock, At, CallInv, CallOk
    <2> QED  BY <2>1, <2>2, IdleCall DEF Lock, tables, log
  <1>2. ASSUME NEW c \in Calls, Do(t, c), c.out = <<>>, CallOk(c)',
               \/ c.pc \in {"lease", "del", "compare", "max", "ttl", "ids", "compact", "select"}
               \/ c.pc = "bump" /\ c.op = "put"
        PROVE  Silent(t, c)
    <2>1. Held(c) /\ c.pc \notin Bumped
      BY <1>2 DEF Held, Bumped
    <2>2. /\ th[t].pc \notin {"bump"} \cup Bumped
          /\ c.pc = "bump" => c.op \in Writes /\ c.op # "cas"
      BY <1>1, <1>2 DEF Bumped, Writes
    <2> QED  BY <1>1, <1>2, <2>1, <2>2 DEF Silent, Moves, Handover
  <1>3. /\ Idle \in Calls /\ Idle.out = <<>>
        /\ \A l \in 0..granted : l \in Nat
        /\ \A r \in 0..rev : r \in Nat
    BY IdleCall, SMT DEF CallInv, Shape
  <1>4. ASSUME CallPut(t) PROVE \E c : Silent(t, c)
    <2>1. PICK k \in Keys, l \in 0..granted :
            Do(t, [Idle EXCEPT !.pc = IF l = NoLease THEN "bump" ELSE "lease",
                               !.op = "put", !.key = k, !.lease = l])
      BY <1>4 DEF CallPut
    <2>2. PICK p \in {"bump", "lease"} : p = IF l = NoLease THEN "bump" ELSE "lease"
      OBVIOUS
    <2> DEFINE c == [Idle EXCEPT !.pc = p, !.op = "put", !.key = k, !.lease = l]
    <2>3. p \in Pcs /\ "put" \in Ops /\ l \in Nat
      BY <1>3 DEF Pcs, Ops, Writes, Bumped
    <2>4. c \in Calls /\ c.pc = p /\ c.op = "put" /\ c.key = k /\ c.out = <<>>
      BY <1>3, <2>3 DEF Calls
    <2>5. Do(t, c)
      BY <2>1, <2>2
    <2> HIDE DEF c
    <2>6. CallOk(c)'
      BY <2>4 DEF CallOk, Writes, Bumped
    <2> QED  BY <1>2, <2>2, <2>4, <2>5, <2>6
  <1>5. ASSUME CallDelete(t) PROVE \E c : Silent(t, c)
    <2>1. PICK k \in Keys : Do(t, [Idle EXCEPT !.pc = "del", !.op = "delete", !.key = k])
      BY <1>5 DEF CallDelete
    <2> DEFINE c == [Idle EXCEPT !.pc = "del", !.op = "delete", !.key = k]
    <2>2. "del" \in Pcs /\ "delete" \in Ops
      BY <1>3 DEF Pcs, Ops, Writes, Removes, Bumped
    <2>3. c \in Calls /\ c.pc = "del" /\ c.op = "delete" /\ c.out = <<>> /\ c.key = k
      BY <1>3, <2>2 DEF Calls
    <2>4. Do(t, c)
      BY <2>1
    <2> HIDE DEF c
    <2>5. CallOk(c)'
      BY <2>3 DEF CallOk, Writes, Removes, Bumped
    <2> QED  BY <1>2, <2>3, <2>4, <2>5
  <1>6. ASSUME CallCas(t) PROVE \E c : Silent(t, c)
    <2>1. PICK k \in Keys, e \in 0..rev, l \in 0..granted : Do(t, [Idle EXCEPT !.pc = "compare", !.op = "cas", !.key = k, !.cmp = e, !.lease = l])
      BY <1>6 DEF CallCas
    <2> DEFINE c == [Idle EXCEPT !.pc = "compare", !.op = "cas", !.key = k, !.cmp = e, !.lease = l]
    <2>2. "compare" \in Pcs /\ "cas" \in Ops /\ e \in Nat /\ l \in Nat
      BY <1>3 DEF Pcs, Ops, Writes, Removes, Bumped
    <2>3. c \in Calls /\ c.pc = "compare" /\ c.op = "cas" /\ c.out = <<>> /\ c.key = k
      BY <1>3, <2>2 DEF Calls
    <2>4. Do(t, c)
      BY <2>1
    <2> HIDE DEF c
    <2>5. CallOk(c)'
      BY <2>3 DEF CallOk, Writes, Removes, Bumped
    <2> QED  BY <1>2, <2>3, <2>4, <2>5
  <1>7. ASSUME CallGrant(t) PROVE \E c : Silent(t, c)
    <2>1. Do(t, [Idle EXCEPT !.pc = "max", !.op = "grant"])
      BY <1>7 DEF CallGrant
    <2> DEFINE c == [Idle EXCEPT !.pc = "max", !.op = "grant"]
    <2>2. "max" \in Pcs /\ "grant" \in Ops
      BY <1>3 DEF Pcs, Ops, Writes, Removes, Bumped
    <2>3. c \in Calls /\ c.pc = "max" /\ c.op = "grant" /\ c.out = <<>>
      BY <1>3, <2>2 DEF Calls
    <2>4. Do(t, c)
      BY <2>1
    <2> HIDE DEF c
    <2>5. CallOk(c)'
      BY <2>3 DEF CallOk, Writes, Removes, Bumped
    <2> QED  BY <1>2, <2>3, <2>4, <2>5
  <1>8. ASSUME CallKeepalive(t) PROVE \E c : Silent(t, c)
    <2>1. PICK l \in 1..granted : Do(t, [Idle EXCEPT !.pc = "ttl", !.op = "keepalive", !.lease = l])
      BY <1>8 DEF CallKeepalive
    <2> DEFINE c == [Idle EXCEPT !.pc = "ttl", !.op = "keepalive", !.lease = l]
    <2>2. "ttl" \in Pcs /\ "keepalive" \in Ops /\ l \in Nat
      BY SMT DEF Pcs, Ops, Writes, Removes, Bumped
    <2>3. c \in Calls /\ c.pc = "ttl" /\ c.op = "keepalive" /\ c.out = <<>>
      BY <1>3, <2>2 DEF Calls
    <2>4. Do(t, c)
      BY <2>1
    <2> HIDE DEF c
    <2>5. CallOk(c)'
      BY <2>3 DEF CallOk, Writes, Removes, Bumped
    <2> QED  BY <1>2, <2>3, <2>4, <2>5
  <1>9. ASSUME CallReap(t) PROVE \E c : Silent(t, c)
    <2>1. PICK l \in 0..granted : Do(t, [Idle EXCEPT !.pc = "ids", !.op = "reap", !.lease = l])
      BY <1>9 DEF CallReap
    <2> DEFINE c == [Idle EXCEPT !.pc = "ids", !.op = "reap", !.lease = l]
    <2>2. "ids" \in Pcs /\ "reap" \in Ops /\ l \in Nat
      BY <1>3 DEF Pcs, Ops, Writes, Removes, Bumped
    <2>3. c \in Calls /\ c.pc = "ids" /\ c.op = "reap" /\ c.out = <<>>
      BY <1>3, <2>2 DEF Calls
    <2>4. Do(t, c)
      BY <2>1
    <2> HIDE DEF c
    <2>5. CallOk(c)'
      BY <2>3 DEF CallOk, Writes, Removes, Bumped
    <2> QED  BY <1>2, <2>3, <2>4, <2>5
  <1>10. ASSUME CallCompact(t) PROVE \E c : Silent(t, c)
    <2>1. PICK r \in 1..rev : Do(t, [Idle EXCEPT !.pc = "compact", !.op = "compact", !.rev = r])
      BY <1>10 DEF CallCompact
    <2> DEFINE c == [Idle EXCEPT !.pc = "compact", !.op = "compact", !.rev = r]
    <2>2. "compact" \in Pcs /\ "compact" \in Ops /\ r \in Nat
      BY <1>3, SMT DEF Pcs, Ops, Writes, Removes, Bumped, CallInv, Shape
    <2>3. c \in Calls /\ c.pc = "compact" /\ c.op = "compact" /\ c.out = <<>> /\ c.rev = r
      BY <1>3, <2>2 DEF Calls
    <2>4. Do(t, c)
      BY <2>1
    <2> HIDE DEF c
    <2>5. CallOk(c)'
      BY <1>1, <2>3 DEF CallOk, Writes, Removes, Bumped, log
    <2> QED  BY <1>2, <2>3, <2>4, <2>5
  <1>11. ASSUME CallRead(t) PROVE \E c : Silent(t, c)
    <2>1. Do(t, [Idle EXCEPT !.pc = "select", !.op = "read"])
      BY <1>11 DEF CallRead
    <2> DEFINE c == [Idle EXCEPT !.pc = "select", !.op = "read"]
    <2>2. "select" \in Pcs /\ "read" \in Ops
      BY <1>3 DEF Pcs, Ops, Writes, Removes, Bumped
    <2>3. c \in Calls /\ c.pc = "select" /\ c.op = "read" /\ c.out = <<>>
      BY <1>3, <2>2 DEF Calls
    <2>4. Do(t, c)
      BY <2>1
    <2> HIDE DEF c
    <2>5. CallOk(c)'
      BY <2>3 DEF CallOk, Writes, Removes, Bumped
    <2> QED  BY <1>2, <2>3, <2>4, <2>5
  <1> QED
    BY <1>4, <1>5, <1>6, <1>7, <1>8, <1>9, <1>10, <1>11 DEF Call

SilentStatement(t) ==
    \/ Read(t) \/ CheckLease(t) \/ Compare(t) \/ MaxId(t) \/ InsertLease(t) \/ ReadTtl(t)
    \/ Renew(t) \/ SelectIds(t) \/ SelectKeys(t) \/ NextKey(t) \/ DeleteLease(t)

\* SELECTs, and statements on the table of leases, touch no row and no event.
LEMMA StatementStep ==
  ASSUME CallInv, NEW t \in Threads, SilentStatement(t)
  PROVE  \E c : Silent(t, c)
  <1> USE Zenon
  <1>1. /\ th[t].pc \in {"select", "lease", "compare", "max", "insert", "ttl", "renew", "ids",
                         "attached", "keys"}
        /\ UNCHANGED log
    BY DEF SilentStatement, Read, CheckLease, Compare, MaxId, InsertLease, ReadTtl, Renew,
                 SelectIds, SelectKeys, NextKey, DeleteLease, At, tables, log
  <1>2. Held(th[t]) /\ th[t].pc \notin {"bump"} \cup Bumped
    BY <1>1 DEF Held, Bumped
  <1>3. th[t] \in Calls /\ CallOk(th[t])
    BY DEF CallInv, Shape
  <1>4. th[t].pc # "broadcast" /\ (th[t].pc \notin {"attached", "keys"} => th[t].out = <<>>)
    BY <1>1, <1>3 DEF CallOk
  <1>5. ASSUME Return(t), th[t].out = <<>> PROVE \E c : Silent(t, c)
    BY <1>1, <1>2, <1>5, ReturnSilent
  <1>6. ASSUME NEW c \in Calls, Do(t, c), UNCHANGED lock, c.out = th[t].out, CallOk(c)',
               \/ c.pc \in {"insert", "renew", "attached", "keys", "del"}
               \/ c.pc = "bump" /\ c.op \in Writes /\ (c.op = "cas" => ModOf(c.key) = c.cmp)
        PROVE  \E d : Silent(t, d)
    <2>1. Held(c) /\ c.pc \notin Bumped
      BY <1>6 DEF Held, Bumped
    <2> QED  BY <1>1, <1>2, <1>6, <2>1 DEF Silent, Moves, Handover
  <1>7. CASE Read(t) \/ InsertLease(t) \/ Renew(t)
    <2>1. Return(t) /\ th[t].pc \in {"select", "insert", "renew"}
      BY <1>7 DEF Read, InsertLease, Renew, At
    <2> QED  BY <1>4, <1>5, <2>1
  <1>8. CASE CheckLease(t)
    <2>1. th[t].pc = "lease"
      BY <1>8 DEF CheckLease, At
    <2>2. CASE Return(t)
      BY <1>4, <1>5, <2>1, <2>2
    <2>3. CASE ~Return(t)
      <3>2. Do(t, [th[t] EXCEPT !.pc = "bump"]) /\ UNCHANGED lock
        BY <1>8, <2>3 DEF CheckLease
      <3>3. "bump" \in Pcs /\ th[t].op = "put" /\ "put" \in Writes /\ th[t].key \in Keys
        BY <1>3, <2>1, CallFields DEF Pcs, CallOk, Writes
      <3>4. PICK c \in Calls : c = [th[t] EXCEPT !.pc = "bump"]
        BY <1>3, <3>3 DEF Calls
      <3>5. c.pc = "bump" /\ c.op = th[t].op /\ c.out = th[t].out /\ c.key = th[t].key
        BY <1>3, <3>3, <3>4 DEF Calls
      <3>6. CallOk(c)'
        BY <1>3, <2>1, <3>3, <3>5 DEF CallOk, Writes, Removes, Bumped
      <3> QED  BY <1>6, <3>2, <3>3, <3>4, <3>5, <3>6
    <2> QED  BY <2>2, <2>3
  <1>9. CASE Compare(t)
    <2>1. th[t].pc = "compare"
      BY <1>9 DEF Compare, At
    <2>2. CASE Return(t)
      BY <1>4, <1>5, <2>1, <2>2
    <2>3. CASE ~Return(t)
      <3>2. Do(t, [th[t] EXCEPT !.pc = "bump", !.create = CreateOf(th[t].key)]) /\ UNCHANGED lock /\ ModOf(th[t].key) = th[t].cmp
        BY <1>9, <2>3 DEF Compare
      <3>3. "bump" \in Pcs /\ th[t].op = "cas" /\ "cas" \in Writes /\ th[t].key \in Keys /\ CreateOf(th[t].key) \in Nat
        BY <1>3, <2>1, CallFields DEF Pcs, CallOk, Writes, CreateOf, CallInv, Shape, Rows
      <3>4. PICK c \in Calls : c = [th[t] EXCEPT !.pc = "bump", !.create = CreateOf(th[t].key)]
        BY <1>3, <3>3 DEF Calls
      <3>5. c.pc = "bump" /\ c.op = th[t].op /\ c.out = th[t].out /\ c.key = th[t].key /\ c.cmp = th[t].cmp
        BY <1>3, <3>3, <3>4 DEF Calls
      <3>6. CallOk(c)'
        BY <1>3, <2>1, <3>3, <3>5 DEF CallOk, Writes, Removes, Bumped
      <3> QED  BY <1>6, <3>2, <3>3, <3>4, <3>5, <3>6
    <2> QED  BY <2>2, <2>3
  <1>10. CASE MaxId(t)
    <2>1. th[t].pc = "max"
      BY <1>10 DEF MaxId, At
    <2>2. PICK m \in DOMAIN leases \cup {0} : Do(t, [th[t] EXCEPT !.pc = "insert", !.lease = m + 1]) /\ UNCHANGED lock
      BY <1>10 DEF MaxId
    <2>3. "insert" \in Pcs /\ m + 1 \in Nat
      BY <1>3, <2>1, CallFields, SMT DEF Pcs, CallInv, Shape
    <2>4. PICK c \in Calls : c = [th[t] EXCEPT !.pc = "insert", !.lease = m + 1]
      BY <1>3, <2>3 DEF Calls
    <2>5. c.pc = "insert" /\ c.op = th[t].op /\ c.out = th[t].out
      BY <1>3, <2>3, <2>4 DEF Calls
    <2>6. CallOk(c)'
      BY <1>3, <2>1, <2>3, <2>5 DEF CallOk, Writes, Removes, Bumped
    <2> QED  BY <1>6, <2>2, <2>3, <2>4, <2>5, <2>6
  <1>11. CASE ReadTtl(t)
    <2>1. th[t].pc = "ttl"
      BY <1>11 DEF ReadTtl, At
    <2>2. CASE Return(t)
      BY <1>4, <1>5, <2>1, <2>2
    <2>3. CASE ~Return(t)
      <3>2. Do(t, [th[t] EXCEPT !.pc = "renew"]) /\ UNCHANGED lock
        BY <1>11, <2>3 DEF ReadTtl
      <3>3. "renew" \in Pcs
        BY <1>3, <2>1, CallFields DEF Pcs
      <3>4. PICK c \in Calls : c = [th[t] EXCEPT !.pc = "renew"]
        BY <1>3, <3>3 DEF Calls
      <3>5. c.pc = "renew" /\ c.op = th[t].op /\ c.out = th[t].out
        BY <1>3, <3>3, <3>4 DEF Calls
      <3>6. CallOk(c)'
        BY <1>3, <2>1, <3>3, <3>5 DEF CallOk, Writes, Removes, Bumped
      <3> QED  BY <1>6, <3>2, <3>3, <3>4, <3>5, <3>6
    <2> QED  BY <2>2, <2>3
  <1>12. CASE SelectIds(t)
    <2>1. th[t].pc = "ids"
      BY <1>12 DEF SelectIds, At
    <2>2. CASE Return(t)
      BY <1>4, <1>5, <2>1, <2>2
    <2>3. CASE ~Return(t)
      <3>2. PICK ids \in SUBSET DOMAIN leases : Do(t, [th[t] EXCEPT !.pc = "attached", !.ids = ids]) /\ UNCHANGED lock
        BY <1>12, <2>3 DEF SelectIds
      <3>3. "attached" \in Pcs /\ ids \in SUBSET Nat /\ th[t].op = "reap"
        BY <1>3, <2>1, CallFields DEF Pcs, CallOk, CallInv, Shape
      <3>4. PICK c \in Calls : c = [th[t] EXCEPT !.pc = "attached", !.ids = ids]
        BY <1>3, <3>3 DEF Calls
      <3>5. c.pc = "attached" /\ c.op = th[t].op /\ c.out = th[t].out
        BY <1>3, <3>3, <3>4 DEF Calls
      <3>6. CallOk(c)'
        BY <1>3, <2>1, <3>3, <3>5 DEF CallOk, Writes, Removes, Bumped
      <3> QED  BY <1>6, <3>2, <3>3, <3>4, <3>5, <3>6
    <2> QED  BY <2>2, <2>3
  <1>13. CASE SelectKeys(t)
    <2>1. th[t].pc = "attached"
      BY <1>13 DEF SelectKeys, At
    <2>2. PICK l \in th[t].ids : Do(t, [th[t] EXCEPT !.pc = "keys", !.ids = @ \ {l}, !.lease = l, !.keys = KeysOn(l)]) /\ UNCHANGED lock
      BY <1>13 DEF SelectKeys
    <2>3. "keys" \in Pcs /\ th[t].op = "reap" /\ l \in Nat /\ th[t].ids \ {l} \in SUBSET Nat /\ KeysOn(l) \in SUBSET Keys
      BY <1>3, <2>1, CallFields DEF Pcs, CallOk, KeysOn, CallInv, Shape
    <2>4. PICK c \in Calls : c = [th[t] EXCEPT !.pc = "keys", !.ids = @ \ {l}, !.lease = l, !.keys = KeysOn(l)]
      BY <1>3, <2>3 DEF Calls
    <2>5. c.pc = "keys" /\ c.op = th[t].op /\ c.out = th[t].out
      BY <1>3, <2>3, <2>4 DEF Calls
    <2>6. CallOk(c)'
      BY <1>3, <2>1, <2>3, <2>5 DEF CallOk, Writes, Removes, Bumped
    <2> QED  BY <1>6, <2>2, <2>3, <2>4, <2>5, <2>6
  <1>14. CASE NextKey(t)
    <2>1. th[t].pc = "keys"
      BY <1>14 DEF NextKey, At
    <2>2. PICK k \in th[t].keys : Do(t, [th[t] EXCEPT !.pc = "del", !.key = k, !.keys = @ \ {k}]) /\ UNCHANGED lock
      BY <1>14 DEF NextKey
    <2>3. "del" \in Pcs /\ th[t].op = "reap" /\ "reap" \in Removes /\ k \in Keys /\ th[t].keys \ {k} \in SUBSET Keys
      BY <1>3, <2>1, CallFields DEF Pcs, CallOk, Removes
    <2>4. PICK c \in Calls : c = [th[t] EXCEPT !.pc = "del", !.key = k, !.keys = @ \ {k}]
      BY <1>3, <2>3 DEF Calls
    <2>5. c.pc = "del" /\ c.op = th[t].op /\ c.out = th[t].out /\ c.key = k
      BY <1>3, <2>3, <2>4 DEF Calls
    <2>6. CallOk(c)'
      BY <1>3, <2>1, <2>3, <2>5 DEF CallOk, Writes, Removes, Bumped
    <2> QED  BY <1>6, <2>2, <2>3, <2>4, <2>5, <2>6
  <1>15. CASE DeleteLease(t)
    <2>1. th[t].pc = "keys" /\ th[t].op = "reap"
      BY <1>3, <1>15 DEF DeleteLease, At, CallOk
    <2>2. CASE Do(t, [th[t] EXCEPT !.pc = "attached"]) /\ UNCHANGED lock
      <3>1. PICK c \in Calls : c = [th[t] EXCEPT !.pc = "attached"]
        BY <1>3 DEF Calls, Pcs
      <3>2. c.pc = "attached" /\ c.op = "reap" /\ c.out = th[t].out
        BY <1>3, <2>1, <3>1 DEF Calls
      <3>3. CallOk(c)'
        BY <3>2 DEF CallOk, Writes, Removes, Bumped
      <3> QED  BY <1>6, <2>2, <3>1, <3>2, <3>3
    <2>3. CASE th[t].out = <<>> /\ Do(t, Idle) /\ Unlock(t)
      BY <1>5, <2>3 DEF Return
    <2>4. CASE th[t].out # <<>> /\ Do(t, [Idle EXCEPT !.pc = "broadcast", !.out = th[t].out]) /\ Unlock(t)
      <3>1. PICK c \in Calls : c = [Idle EXCEPT !.pc = "broadcast", !.out = th[t].out]
        BY <1>3, CallFields, IdleCall DEF Calls, Pcs
      <3>2. c.pc = "broadcast" /\ c.op = "none" /\ c.out = th[t].out
        BY <1>3, <3>1, IdleCall DEF Calls
      <3>3. CallOk(c)'
        BY <2>4, <3>2 DEF CallOk, Writes, Removes, Bumped
      <3>4. ~Held(c) /\ c.pc \notin Bumped
        BY <3>2 DEF Held, Bumped
      <3> QED  BY <1>1, <1>2, <2>4, <3>1, <3>2, <3>3, <3>4 DEF Silent, Moves, Handover
    <2> QED  BY <1>15, <2>2, <2>3, <2>4 DEF DeleteLease
  <1> QED
    BY <1>7, <1>8, <1>9, <1>10, <1>11, <1>12, <1>13, <1>14, <1>15 DEF SilentStatement

-----------------------------------------------------------------------------
\* The statements of a change, one by one.
LEMMA DeleteRowStep ==
  ASSUME CallInv, NEW t \in Threads, DeleteRow(t)
  PROVE  \E c : /\ Moves(t, c) /\ Held(th[t]) /\ th[t].pc = "del" /\ th[t].op \in Removes /\ c.out = th[t].out
                /\ UNCHANGED <<rev, events, floor, seen, opened, faults, leases, granted>>
                /\ DOMAIN kv' = DOMAIN kv \ {th[t].key} /\ \A k \in DOMAIN kv' : kv'[k] = kv[k]
                /\ \/ c.pc = "bump" /\ c.op = th[t].op /\ c.key = th[t].key
                   \/ c.pc = "idle" /\ th[t].key \notin DOMAIN kv
  <1> USE Zenon
  <1>1. th[t] \in Calls /\ CallOk(th[t]) /\ th[t].pc = "del" /\ th[t].pc # "broadcast"
    BY DEF CallInv, Shape, DeleteRow, At
  <1>2. Held(th[t]) /\ th[t].op \in Removes /\ th[t].key \in Keys
    BY <1>1 DEF CallOk, Held
  <1>3. /\ UNCHANGED <<rev, events, floor, seen, opened, faults, leases, granted>>
        /\ DOMAIN kv' = DOMAIN kv \ {th[t].key} /\ \A k \in DOMAIN kv' : kv'[k] = kv[k]
    BY DEF DeleteRow, Drop
  <1>4. CASE Do(t, [th[t] EXCEPT !.pc = "bump"]) /\ UNCHANGED lock
    <2>1. PICK c \in Calls : c = [th[t] EXCEPT !.pc = "bump"]
      BY <1>1 DEF Calls, Pcs
    <2>2. c.pc = "bump" /\ c.op = th[t].op /\ c.key = th[t].key /\ c.out = th[t].out
      BY <1>1, <2>1 DEF Calls
    <2>3. CallOk(c)'
      BY <1>1, <1>2, <2>2 DEF CallOk, Removes, Bumped
    <2>4. Held(c)
      BY <2>2 DEF Held
    <2>5. Moves(t, c)
      BY <1>2, <1>4, <2>1, <2>3, <2>4 DEF Moves, Handover
    <2> QED  BY <1>1, <1>2, <1>3, <2>2, <2>5
  <1>5. CASE th[t].key \notin DOMAIN kv /\ th[t].op = "delete" /\ Return(t)
    <2>1. th[t].out = <<>>
      BY <1>1, <1>5 DEF CallOk
    <2>2. Moves(t, Idle)
      BY <1>2, <1>5, ReturnStep
    <2> QED  BY <1>1, <1>2, <1>3, <1>5, <2>1, <2>2, IdleCall
  <1> QED
    BY <1>4, <1>5 DEF DeleteRow

\* bump_rev: the UPDATE of current_rev, committed before the change it numbers.
LEMMA BumpStep ==
  ASSUME CallInv, NEW t \in Threads, Bump(t)
  PROVE  \E c : /\ Moves(t, c) /\ Held(th[t]) /\ th[t].pc = "bump" /\ c.pc = "rev"
                /\ c.op = th[t].op /\ c.key = th[t].key /\ c.out = th[t].out /\ c.cmp = th[t].cmp
                /\ rev' = rev + 1
                /\ UNCHANGED <<kv, events, floor, seen, opened, faults, leases, granted>>
  <1> USE Zenon
  <1>1. th[t] \in Calls /\ CallOk(th[t]) /\ th[t].pc = "bump"
    BY DEF CallInv, Shape, Bump, At
  <1>2. PICK c \in Calls : c = [th[t] EXCEPT !.pc = "rev"]
    BY <1>1 DEF Calls, Pcs, Bumped
  <1>3. /\ c.pc = "rev" /\ c.op = th[t].op /\ c.key = th[t].key /\ c.out = th[t].out
        /\ c.cmp = th[t].cmp
    BY <1>1, <1>2 DEF Calls
  <1>4. CallOk(c)'
    BY <1>1, <1>3 DEF CallOk, Removes, Writes, Bumped
  <1>5. Held(c) /\ Held(th[t])
    BY <1>1, <1>3 DEF Held
  <1>6. Moves(t, c)
    BY <1>2, <1>4, <1>5 DEF Bump, Moves, Handover
  <1> QED
    BY <1>1, <1>3, <1>5, <1>6 DEF Bump

\* The SELECT of bump_rev; put and cas go on to the upsert, delete and
\* reap_expired_leases to the log.
LEMMA ReadRevStep ==
  ASSUME CallInv, NEW t \in Threads, ReadRev(t)
  PROVE  \E c : /\ Moves(t, c) /\ Held(th[t]) /\ th[t].pc = "rev" /\ c.rev = rev
                /\ c.op = th[t].op /\ c.key = th[t].key /\ c.out = th[t].out /\ c.cmp = th[t].cmp
                /\ \/ c.pc = "upsert" /\ c.op \in Writes
                   \/ c.pc = "log" /\ c.op \in Removes
                /\ UNCHANGED <<log, leases, granted>>
  <1> USE Zenon
  <1>1. th[t] \in Calls /\ CallOk(th[t]) /\ th[t].pc = "rev" /\ rev \in Nat
    BY DEF CallInv, Shape, ReadRev, At
  <1>2. PICK p \in {"upsert", "log"} : p = IF th[t].op \in {"put", "cas"} THEN "upsert" ELSE "log"
    OBVIOUS
  <1>3. PICK c \in Calls : c = [th[t] EXCEPT !.rev = rev, !.pc = p]
    BY <1>1 DEF Calls, Pcs, Bumped
  <1>4. /\ c.pc = p /\ c.op = th[t].op /\ c.key = th[t].key /\ c.out = th[t].out
        /\ c.cmp = th[t].cmp /\ c.rev = rev
    BY <1>1, <1>3 DEF Calls
  <1>5. th[t].op \in Writes \cup Removes
    BY <1>1 DEF CallOk
  <1>6. \/ c.pc = "upsert" /\ c.op \in Writes
        \/ c.pc = "log" /\ c.op \in Removes
    BY <1>2, <1>4, <1>5 DEF Writes
  <1>7. CallOk(c)'
    BY <1>1, <1>4, <1>6 DEF CallOk, Removes, Writes, Bumped
  <1>8. Held(c) /\ Held(th[t])
    BY <1>1, <1>6 DEF Held
  <1>9. Moves(t, c)
    BY <1>2, <1>3, <1>7, <1>8 DEF ReadRev, Moves, Handover
  <1> QED
    BY <1>1, <1>4, <1>6, <1>8, <1>9 DEF ReadRev, tables, log

\* Queues of revisions.
LEMMA Queues ==
  ASSUME NEW q \in Seq(Nat)
  PROVE  /\ q = <<>> <=> Len(q) = 0
         /\ \A r \in Nat : Append(q, r) \in Seq(Nat) /\ Append(q, r) # <<>>
         /\ q # <<>> => /\ Head(q) \in Nat /\ Tail(q) \in Seq(Nat)
                        /\ Tail(q) = <<>> <=> Len(q) = 1
  <1>1. \A p \in Seq(Nat) : p = <<>> <=> Len(p) = 0
    OBVIOUS
  <1>2. \A r \in Nat : Append(q, r) \in Seq(Nat) /\ Append(q, r) # <<>>
    <2>1. \A r \in Nat : Append(q, r) \in Seq(Nat) /\ Len(Append(q, r)) = Len(q) + 1 /\ Len(q) \in Nat
      OBVIOUS
    <2>2. \A r \in Nat : Len(Append(q, r)) # 0
      BY <2>1
    <2> QED  BY <1>1, <2>1, <2>2, Zenon
  <1>3. ASSUME q # <<>>
        PROVE  Head(q) \in Nat /\ Tail(q) \in Seq(Nat) /\ (Tail(q) = <<>> <=> Len(q) = 1)
    <2>1. Head(q) \in Nat /\ Tail(q) \in Seq(Nat) /\ Len(Tail(q)) = Len(q) - 1 /\ Len(q) \in Nat
      BY <1>3
    <2>2. Len(Tail(q)) = 0 <=> Len(q) = 1
      BY <2>1
    <2>3. Tail(q) = <<>> <=> Len(Tail(q)) = 0
      BY <1>1, <2>1, Zenon
    <2> QED  BY <2>1, <2>2, <2>3, Zenon
  <1> QED
    BY <1>1, <1>2, <1>3, Zenon

\* The INSERT .. ON CONFLICT of put and cas gives the key's row the revision.
LEMMA UpsertStep ==
  ASSUME CallInv, NEW t \in Threads, Upsert(t)
  PROVE  \E c : /\ Moves(t, c) /\ Held(th[t]) /\ th[t].pc = "upsert" /\ c.pc = "log" /\ c.op \in Writes
                /\ c.op = th[t].op /\ c.key = th[t].key /\ c.out = th[t].out /\ c.rev = th[t].rev
                /\ c.key \in Keys
                /\ DOMAIN kv' = DOMAIN kv \cup {c.key} /\ kv'[c.key].mod = c.rev /\ kv'[c.key] \in Rows
                /\ \A k \in DOMAIN kv \ {c.key} : kv'[k] = kv[k]
                /\ UNCHANGED <<rev, events, floor, seen, opened, faults, leases, granted>>
  <1> USE Zenon
  <1>1. th[t] \in Calls /\ CallOk(th[t]) /\ th[t].pc = "upsert"
    BY DEF CallInv, Shape, Upsert, At
  <1>2. PICK c \in Calls : c = [th[t] EXCEPT !.pc = "log"]
    BY <1>1 DEF Calls, Pcs, Bumped
  <1>3. /\ c.pc = "log" /\ c.op = th[t].op /\ c.key = th[t].key /\ c.out = th[t].out
        /\ c.rev = th[t].rev
    BY <1>1, <1>2 DEF Calls
  <1>4. c.op \in Writes /\ c.key \in Keys
    BY <1>1, <1>3 DEF CallOk, Bumped
  <1>5. CallOk(c)'
    BY <1>1, <1>3, <1>4 DEF CallOk, Writes, Bumped
  <1>6. Held(c) /\ Held(th[t])
    BY <1>1, <1>3 DEF Held
  <1>7. Moves(t, c)
    BY <1>2, <1>5, <1>6 DEF Upsert, Moves, Handover
  <1>8. PICK n \in Nat : n = IF CreateOf(c.key) # 0 THEN CreateOf(c.key)
                             ELSE IF th[t].create # 0 THEN th[t].create ELSE th[t].rev
    <2>1. CreateOf(c.key) \in Nat
      BY DEF CreateOf, CallInv, Shape, Rows
    <2> QED  BY <1>1, <2>1, CallFields
  <1>9. kv' = Bind(kv, c.key, [create |-> n, mod |-> c.rev, lease |-> th[t].lease])
    BY <1>3, <1>8 DEF Upsert
  <1>10. [create |-> n, mod |-> c.rev, lease |-> th[t].lease] \in Rows
    BY <1>1, CallFields DEF Rows
  <1>11. /\ DOMAIN kv' = DOMAIN kv \cup {c.key} /\ kv'[c.key].mod = c.rev /\ kv'[c.key] \in Rows
         /\ \A k \in DOMAIN kv \ {c.key} : kv'[k] = kv[k]
    BY <1>9, <1>10 DEF Bind
  <1> QED
    BY <1>1, <1>3, <1>4, <1>6, <1>7, <1>11 DEF Upsert

\* append_event adds one event; the reaper keeps it for later and goes on with
\* the lease's next key, the other methods leave the lock to broadcast it.
LEMMA AppendEventStep ==
  ASSUME CallInv, NEW t \in Threads, AppendEvent(t), th[t].rev \notin DOMAIN events
  PROVE  \E c : /\ Moves(t, c) /\ Held(th[t]) /\ th[t].pc = "log"
                /\ c.pc \in {"keys", "broadcast"} /\ c.out = Append(th[t].out, th[t].rev)
                /\ th[t].key \in Keys /\ KindOf(th[t].op) \in {"put", "delete"}
                /\ DOMAIN events' = DOMAIN events \cup {th[t].rev}
                /\ events'[th[t].rev] = [key |-> th[t].key, kind |-> KindOf(th[t].op)]
                /\ \A r \in DOMAIN events : events'[r] = events[r]
                /\ UNCHANGED <<rev, kv, floor, seen, opened, faults, leases, granted>>
  <1> USE Zenon
  <1>1. th[t] \in Calls /\ CallOk(th[t]) /\ th[t].pc = "log"
    BY DEF CallInv, Shape, AppendEvent, At
  <1>2. th[t].out \in Seq(Nat) /\ th[t].rev \in Nat
    BY <1>1, CallFields
  <1>3. PICK sent \in Seq(Nat) : sent = Append(th[t].out, th[t].rev) /\ sent # <<>>
    BY <1>2, Queues
  <1>4. /\ DOMAIN events' = DOMAIN events \cup {th[t].rev}
        /\ events'[th[t].rev] = [key |-> th[t].key, kind |-> KindOf(th[t].op)]
        /\ \A r \in DOMAIN events : events'[r] = events[r]
    BY DEF AppendEvent, Bind
  <1>5. th[t].key \in Keys /\ KindOf(th[t].op) \in {"put", "delete"} /\ Held(th[t])
    BY <1>1 DEF CallOk, KindOf, Held, Bumped
  <1>6. CASE th[t].op = "reap" /\ Do(t, [th[t] EXCEPT !.pc = "keys", !.out = sent]) /\ UNCHANGED lock
    <2>1. PICK c \in Calls : c = [th[t] EXCEPT !.pc = "keys", !.out = sent]
      BY <1>1 DEF Calls, Pcs
    <2>2. c.pc = "keys" /\ c.op = "reap" /\ c.out = sent
      BY <1>1, <1>6, <2>1 DEF Calls
    <2>3. CallOk(c)'
      BY <2>2 DEF CallOk, Bumped
    <2>4. Held(c)
      BY <2>2 DEF Held
    <2>5. Moves(t, c)
      BY <1>5, <1>6, <2>1, <2>3, <2>4 DEF Moves, Handover
    <2> QED  BY <1>1, <1>3, <1>4, <1>5, <2>2, <2>5 DEF AppendEvent
  <1>7. CASE Do(t, [Idle EXCEPT !.pc = "broadcast", !.out = sent]) /\ Unlock(t)
    <2>1. PICK c \in Calls : c = [Idle EXCEPT !.pc = "broadcast", !.out = sent]
      BY IdleCall DEF Calls, Pcs
    <2>2. c.pc = "broadcast" /\ c.op = "none" /\ c.out = sent
      BY <2>1, IdleCall DEF Calls
    <2>3. CallOk(c)'
      BY <1>3, <2>2 DEF CallOk, Bumped
    <2>4. ~Held(c)
      BY <2>2 DEF Held
    <2>5. Moves(t, c)
      BY <1>5, <1>7, <2>1, <2>3, <2>4 DEF Moves, Handover
    <2> QED  BY <1>1, <1>3, <1>4, <1>5, <2>2, <2>5 DEF AppendEvent
  <1> QED
    BY <1>3, <1>6, <1>7 DEF AppendEvent

\* tx.send after the lock is gone: the oldest event first, and the call ends
\* with its last event.
LEMMA BroadcastStep ==
  ASSUME CallInv, NEW t \in Threads, Broadcast(t)
  PROVE  \E c : /\ Moves(t, c) /\ th[t].pc = "broadcast" /\ c.pc \in {"idle", "broadcast"}
                /\ th[t].out # <<>> /\ c.out = Tail(th[t].out) /\ seen' \in [Handles -> Seq(Nat)]
                /\ seen'[HandleOf[t]] = Append(seen[HandleOf[t]], Head(th[t].out))
                /\ UNCHANGED <<rev, kv, events, floor, opened, faults, leases, granted>>
  <1> USE Zenon
  <1>1. th[t] \in Calls /\ CallOk(th[t]) /\ th[t].pc = "broadcast"
    BY DEF CallInv, Shape, Broadcast, At
  <1>2. th[t].out # <<>> /\ th[t].out \in Seq(Nat) /\ ~Held(th[t])
    BY <1>1, CallFields DEF CallOk, Held
  <1>3. Head(th[t].out) \in Nat /\ Tail(th[t].out) \in Seq(Nat)
    BY <1>2, SMT
  <1>4. /\ seen'[HandleOf[t]] = Append(seen[HandleOf[t]], Head(th[t].out))
        /\ seen' \in [Handles -> Seq(Nat)]
    BY <1>3, HandlesAssumption, SMTT(30) DEF Broadcast, CallInv, Shape
  <1>5. CASE Len(th[t].out) = 1 /\ Do(t, Idle)
    <2>1. Tail(th[t].out) = <<>>
      BY <1>2, <1>5, Queues
    <2>2. Moves(t, Idle)
      BY <1>2, <1>5, IdleCall, IdleOk DEF Moves, Handover, Broadcast
    <2> QED  BY <1>1, <1>2, <1>4, <2>1, <2>2, IdleCall DEF Broadcast, tables
  <1>6. CASE Len(th[t].out) # 1 /\ Do(t, [th[t] EXCEPT !.out = Tail(@)])
    <2>1. Tail(th[t].out) # <<>>
      BY <1>2, <1>6, Queues
    <2>2. PICK c \in Calls : c = [th[t] EXCEPT !.out = Tail(th[t].out)]
      BY <1>1, <1>3 DEF Calls
    <2>3. c.pc = "broadcast" /\ c.out = Tail(th[t].out)
      BY <1>1, <2>2 DEF Calls
    <2>4. CallOk(c)'
      BY <2>1, <2>3 DEF CallOk, Bumped
    <2>5. ~Held(c)
      BY <2>3 DEF Held
    <2>6. Moves(t, c)
      BY <1>2, <1>6, <2>2, <2>4, <2>5 DEF Moves, Handover, Broadcast
    <2> QED  BY <1>1, <1>2, <1>4, <2>3, <2>6 DEF Broadcast, tables
  <1> QED
    BY <1>5, <1>6 DEF Broadcast

\* compact deletes the events up to its revision and touches no row.
LEMMA CompactStep ==
  ASSUME CallInv, NEW t \in Threads, Compact(t)
  PROVE  /\ Moves(t, Idle) /\ Held(th[t]) /\ th[t].pc = "compact" /\ th[t].out = <<>>
         /\ th[t].rev \in 1..rev /\ floor' \in Nat
         /\ floor' = IF floor >= th[t].rev THEN floor ELSE th[t].rev
         /\ DOMAIN events' = DOMAIN events \ 1..th[t].rev
         /\ \A r \in DOMAIN events' : events'[r] = events[r]
         /\ UNCHANGED <<rev, kv, seen, opened, faults, leases, granted>>
  <1> USE Zenon
  <1>1. th[t] \in Calls /\ CallOk(th[t]) /\ th[t].pc = "compact"
    BY DEF CallInv, Shape, Compact, At
  <1>2. Held(th[t]) /\ th[t].out = <<>> /\ th[t].rev \in 1..rev
    BY <1>1 DEF CallOk, Held
  <1>3. Moves(t, Idle)
    BY <1>2, ReturnStep DEF Compact
  <1>4. /\ floor' = IF floor >= th[t].rev THEN floor ELSE th[t].rev
        /\ DOMAIN events' = DOMAIN events \ 1..th[t].rev
        /\ \A r \in DOMAIN events' : events'[r] = events[r]
    BY DEF Compact, Larger, Drop
  <1>5. floor' \in Nat
    BY <1>1, <1>4, CallFields DEF CallInv, Shape
  <1> QED
    BY <1>1, <1>2, <1>3, <1>4, <1>5 DEF Compact

-----------------------------------------------------------------------------
\* The table of leases, which only decides who is reaped.
LEMMA LeaseSteps ==
  ASSUME CallInv, NEW t \in Threads, Call(t) \/ Statement(t) \/ StatementFails(t)
  PROVE  DOMAIN leases' \subseteq Nat /\ granted' \in Nat
  <1> USE Zenon
  <1>1. /\ DOMAIN leases \subseteq Nat /\ granted \in Nat /\ th[t].lease \in Nat
    <2>1. th[t] \in Calls
      BY DEF CallInv, Shape
    <2> QED  BY <2>1, CallFields DEF CallInv, Shape
  <1>2. CASE UNCHANGED <<leases, granted>>
    BY <1>1, <1>2
  <1>3. CASE InsertLease(t)
    <2>1. CASE leases' = Bind(leases, th[t].lease, FALSE) /\ granted' = Larger(granted, th[t].lease)
      BY <1>1, <2>1 DEF Bind, Larger
    <2> QED  BY <1>2, <1>3, <2>1 DEF InsertLease
  <1>4. CASE Renew(t) \/ DeleteLease(t)
    <2>1. DOMAIN leases' \subseteq DOMAIN leases /\ granted' = granted
      BY <1>4 DEF Renew, DeleteLease, Drop
    <2> QED  BY <1>1, <2>1
  <1> QED
    BY <1>2, <1>3, <1>4
       DEF Call, CallPut, CallDelete, CallCas, CallGrant, CallKeepalive, CallReap, CallCompact,
           CallRead, Lock, Statement, StatementFails, Read, CheckLease, Compare, DeleteRow, Bump,
           ReadRev, Upsert, AppendEvent, Broadcast, MaxId, ReadTtl, SelectIds, SelectKeys,
           NextKey, Compact, tables

\* The rest of Shape, for a step that moves t.
Tables ==
    /\ rev \in Nat /\ floor \in Nat /\ faults \in Nat /\ opened \in Nat
    /\ DOMAIN kv \subseteq Keys /\ \A k \in DOMAIN kv : kv[k] \in Rows
    /\ DOMAIN events \subseteq Nat /\ \A r \in DOMAIN events : events[r] \in Events
    /\ seen \in [Handles -> Seq(Nat)]

\* A step that leaves rows and log alone leaves them well formed.
LEMMA TablesStay ==
  ASSUME CallInv, UNCHANGED log
  PROVE  Tables' /\ rev <= rev'
  BY DEF CallInv, Shape, Tables, log

\* A call, a statement and a failing statement each move one thread, keep
\* the tables well formed and never take current_rev back.
LEMMA ThreadSteps ==
  ASSUME CallInv, NEW t \in Threads, Call(t) \/ Statement(t) \/ StatementFails(t)
  PROVE  (\E c : Moves(t, c)) /\ Tables' /\ rev <= rev'
  <1> USE Zenon
  <1>0. Tables
    BY DEF CallInv, Shape, Tables
  <1>1. CASE Call(t) \/ SilentStatement(t)
    <2>1. PICK c : Silent(t, c)
      BY <1>1, CallStep, StatementStep
    <2>2. Moves(t, c) /\ UNCHANGED log
      BY <2>1 DEF Silent
    <2> QED  BY <2>2, TablesStay
  <1>2. CASE DeleteRow(t)
    <2>1. PICK c : /\ Moves(t, c) /\ UNCHANGED <<rev, events, floor, seen, opened, faults>>
                   /\ DOMAIN kv' = DOMAIN kv \ {th[t].key} /\ \A k \in DOMAIN kv' : kv'[k] = kv[k]
      BY <1>2, DeleteRowStep
    <2> QED  BY <1>0, <2>1, SMT DEF Tables
  <1>3. CASE Bump(t)
    <2>1. PICK c : Moves(t, c) /\ rev' = rev + 1 /\ UNCHANGED <<kv, events, floor, seen, opened, faults>>
      BY <1>3, BumpStep
    <2> QED  BY <1>0, <2>1, SMT DEF Tables
  <1>4. CASE ReadRev(t)
    <2>1. PICK c : Moves(t, c) /\ UNCHANGED log
      BY <1>4, ReadRevStep
    <2> QED  BY <2>1, TablesStay
  <1>5. CASE Upsert(t)
    <2>1. PICK c : /\ Moves(t, c) /\ UNCHANGED <<rev, events, floor, seen, opened, faults>>
                   /\ c.key \in Keys /\ DOMAIN kv' = DOMAIN kv \cup {c.key} /\ kv'[c.key] \in Rows
                   /\ \A k \in DOMAIN kv \ {c.key} : kv'[k] = kv[k]
      BY <1>5, UpsertStep
    <2> QED  BY <1>0, <2>1, SMT DEF Tables
  <1>6. CASE AppendEvent(t) /\ th[t].rev \notin DOMAIN events
    <2>1. PICK c : /\ Moves(t, c) /\ UNCHANGED <<rev, kv, floor, seen, opened, faults>>
                   /\ th[t].key \in Keys /\ KindOf(th[t].op) \in {"put", "delete"}
                   /\ DOMAIN events' = DOMAIN events \cup {th[t].rev}
                   /\ events'[th[t].rev] = [key |-> th[t].key, kind |-> KindOf(th[t].op)]
                   /\ \A r \in DOMAIN events : events'[r] = events[r]
      BY <1>6, AppendEventStep
    <2>2. th[t].rev \in Nat
      BY CallFields DEF CallInv, Shape
    <2>3. events'[th[t].rev] \in Events
      BY <2>1, SMT DEF Events
    <2> QED  BY <1>0, <2>1, <2>2, <2>3, SMT DEF Tables
  <1>7. CASE AppendEvent(t) /\ th[t].rev \in DOMAIN events
    <2>1. Return(t) /\ th[t].pc = "log" /\ UNCHANGED log
      BY <1>7 DEF AppendEvent, At, log
    <2>2. Held(th[t])
      BY <2>1 DEF Held
    <2> QED  BY <2>1, <2>2, ReturnStep, TablesStay
  <1>8. CASE Broadcast(t)
    <2>1. PICK c : Moves(t, c) /\ UNCHANGED <<rev, kv, events, floor, opened, faults>>
                   /\ seen' \in [Handles -> Seq(Nat)]
      BY <1>8, BroadcastStep
    <2> QED  BY <1>0, <2>1, SMT DEF Tables
  <1>9. CASE Compact(t)
    <2>1. Moves(t, Idle) /\ floor' \in Nat /\ UNCHANGED <<rev, kv, seen, opened, faults>>
      BY <1>9, CompactStep
    <2>2. DOMAIN events' \subseteq DOMAIN events /\ \A r \in DOMAIN events' : events'[r] = events[r]
      BY <1>9, CompactStep
    <2> QED  BY <1>0, <2>1, <2>2, SMT DEF Tables
  <1>10. CASE StatementFails(t)
    <2>1. Return(t) /\ Held(th[t]) /\ faults' = faults + 1 /\ UNCHANGED <<rev, kv, events, floor, seen, opened>>
      BY <1>10 DEF StatementFails, CallInv, Locked, tables
    <2>2. Moves(t, Idle)
      BY <2>1, ReturnStep
    <2> QED  BY <1>0, <2>1, <2>2, SMT DEF Tables
  <1> QED
    BY <1>1, <1>2, <1>3, <1>4, <1>5, <1>6, <1>7, <1>8, <1>9, <1>10 DEF Statement, SilentStatement

\* CallInv is kept by every step.
LEMMA CallSteps ==
  ASSUME OneHandle, CallInv, [Next]_vars
  PROVE  CallInv'
  <1> USE Zenon
  <1>1. ASSUME NEW t \in Threads, Call(t) \/ Statement(t) \/ StatementFails(t) PROVE CallInv'
    <2>1. PICK c : Moves(t, c)
      BY <1>1, ThreadSteps
    <2>2. Tables' /\ rev <= rev' /\ rev' \in Nat
      BY <1>1, ThreadSteps DEF Tables
    <2>3. /\ th' \in [Threads -> Calls] /\ lock' \in [Handles -> Threads \cup {None}]
          /\ Locked' /\ \A s \in Threads : CallOk(th[s])'
      BY <2>1, <2>2, MovesStep
    <2>4. DOMAIN leases' \subseteq Nat /\ granted' \in Nat
      BY <1>1, LeaseSteps
    <2>5. Shape'
      BY <2>2, <2>3, <2>4 DEF Tables, Shape
    <2> QED  BY <2>3, <2>5 DEF CallInv
  <1>2. ASSUME NEW l \in DOMAIN leases, LeaseRunsOut(l) PROVE CallInv'
    <2>1. DOMAIN leases' = DOMAIN leases /\ UNCHANGED <<rev, kv, events, floor, granted, lock, th, seen, opened, faults>>
      BY <1>2 DEF LeaseRunsOut
    <2> QED  BY <2>1, SMT DEF CallInv, Shape, Locked, CallOk
  <1>3. CASE Crash
    <2>1. \A t \in Threads : th'[t] = Idle /\ lock'[HandleOf[t]] = None
      BY <1>3, HandlesAssumption DEF Crash
    <2>2. Locked'
      BY <2>1, IdleCall, HandlesAssumption DEF Locked
    <2>3. \A t \in Threads : CallOk(th[t])'
      BY <2>1, IdleOk DEF CallOk
    <2>4. th' \in [Threads -> Calls] /\ lock' \in [Handles -> Threads \cup {None}] /\ seen' \in [Handles -> Seq(Nat)]
      BY <1>3, IdleCall, SMT DEF Crash
    <2>5. Shape'
      BY <1>3, <2>4, SMT DEF Crash, CallInv, Shape, tables
    <2> QED  BY <2>2, <2>3, <2>5 DEF CallInv
  <1>4. CASE UNCHANGED vars
    BY <1>4, SMT DEF vars, CallInv, Shape, Locked, CallOk
  <1> QED
    BY <1>1, <1>2, <1>3, <1>4 DEF Next

-----------------------------------------------------------------------------
\* Where a step of t leaves the others: unmoved, and outside their methods
\* when t is inside its own.
LEMMA Others ==
  ASSUME OneHandle, CallInv, NEW t \in Threads, NEW c, Moves(t, c)
  PROVE  /\ th \in [Threads -> Calls] /\ th' \in [Threads -> Calls] /\ th'[t] = c
         /\ \A s \in Threads \ {t} : th'[s] = th[s]
         /\ Held(th[t]) => \A s \in Threads \ {t} : ~Held(th[s])
  BY DoStep, OneHolder, Zenon DEF Moves, CallInv, Shape

\* A call compares and writes under one lock.
LEMMA CasSteps ==
  ASSUME OneHandle, CallInv, CasAtomic, [Next]_vars
  PROVE  CasAtomic'
  <1> USE Zenon
  <1>1. ASSUME NEW t \in Threads, NEW c, Moves(t, c), UNCHANGED kv,
               c.op = "cas" /\ c.pc \in {"bump", "rev", "upsert"} => ModOf(c.key) = c.cmp
        PROVE  CasAtomic'
    <2>1. th'[t] = c /\ \A s \in Threads \ {t} : th'[s] = th[s]
      BY <1>1, Others
    <2> QED  BY <1>1, <2>1, SMT DEF CasAtomic, ModOf
  <1>2. ASSUME NEW t \in Threads, NEW c, Moves(t, c), Held(th[t]),
               ~(c.op = "cas" /\ c.pc \in {"bump", "rev", "upsert"})
        PROVE  CasAtomic'
    <2>1. th'[t] = c /\ \A s \in Threads \ {t} : th'[s] = th[s] /\ ~Held(th[s])
      BY <1>2, Others
    <2> QED  BY <1>2, <2>1 DEF CasAtomic, Held
  <1>3. ASSUME NEW t \in Threads, Call(t) \/ Statement(t) \/ StatementFails(t) PROVE CasAtomic'
    <2>1. CASE Call(t) \/ SilentStatement(t)
      <3>1. PICK c : Silent(t, c)
        BY <2>1, CallStep, StatementStep
      <3>2. Moves(t, c) /\ UNCHANGED kv /\ c.pc \notin Bumped
            /\ (c.pc = "bump" /\ c.op = "cas" => ModOf(c.key) = c.cmp)
        BY <3>1 DEF Silent, log
      <3> QED  BY <1>1, <3>2 DEF Bumped
    <2>2. CASE DeleteRow(t)
      <3>1. PICK c : Moves(t, c) /\ Held(th[t]) /\ th[t].op \in Removes
                     /\ (c.op = th[t].op \/ c.pc = "idle")
        BY <2>2, DeleteRowStep
      <3> QED  BY <1>2, <3>1 DEF Removes
    <2>3. CASE Bump(t) \/ ReadRev(t)
      <3>1. PICK c : /\ Moves(t, c) /\ UNCHANGED kv /\ th[t].pc \in {"bump", "rev"}
                     /\ c.op = th[t].op /\ c.key = th[t].key /\ c.cmp = th[t].cmp
        <4>1. CASE Bump(t)
          BY <4>1, BumpStep
        <4>2. CASE ReadRev(t)
          BY <4>2, ReadRevStep DEF log
        <4> QED  BY <2>3, <4>1, <4>2
      <3> QED  BY <1>1, <3>1 DEF CasAtomic
    <2>4. CASE Upsert(t)
      <3>1. PICK c : Moves(t, c) /\ Held(th[t]) /\ c.pc = "log"
        BY <2>4, UpsertStep
      <3> QED  BY <1>2, <3>1
    <2>5. CASE AppendEvent(t) /\ th[t].rev \notin DOMAIN events
      <3>1. PICK c : Moves(t, c) /\ Held(th[t]) /\ c.pc \in {"keys", "broadcast"}
        BY <2>5, AppendEventStep
      <3> QED  BY <1>2, <3>1
    <2>6. CASE Held(th[t]) /\ Return(t)
      <3>1. Moves(t, Idle)
        BY <2>6, ReturnStep
      <3> QED  BY <1>2, <2>6, <3>1, IdleCall
    <2>7. CASE Broadcast(t)
      <3>1. PICK c : Moves(t, c) /\ UNCHANGED kv /\ c.pc \in {"idle", "broadcast"}
        BY <2>7, BroadcastStep
      <3> QED  BY <1>1, <3>1
    <2>8. CASE (AppendEvent(t) /\ th[t].rev \in DOMAIN events) \/ Compact(t) \/ StatementFails(t)
      <3>1. Return(t) /\ (th[t].pc \in {"log", "compact"} \/ lock[HandleOf[t]] = t)
        BY <2>8 DEF AppendEvent, Compact, StatementFails, At
      <3>2. Held(th[t])
        BY <3>1 DEF Held, CallInv, Locked
      <3> QED  BY <2>6, <3>1, <3>2
    <2> QED
      BY <1>3, <2>1, <2>2, <2>3, <2>4, <2>5, <2>7, <2>8 DEF Statement, SilentStatement
  <1>4. CASE Crash
    <2>1. \A t \in Threads : th'[t] = Idle
      BY <1>4 DEF Crash
    <2> QED  BY <2>1, IdleCall DEF CasAtomic
  <1>5. CASE UNCHANGED <<th, kv>>
    BY <1>5 DEF CasAtomic, ModOf
  <1> QED
    BY <1>3, <1>4, <1>5 DEF Next, LeaseRunsOut, vars

-----------------------------------------------------------------------------
LogPast ==
    /\ DOMAIN events \subseteq 1..rev
    /\ \A k \in DOMAIN kv : kv[k].mod \in 1..rev
    /\ LogNeverLies

\* A change of a thread inside a method concerns this thread only.
LEMMA LogOfHolder ==
  ASSUME OneHandle, CallInv, NEW t \in Threads, NEW c, Moves(t, c), Held(th[t]), LogPast', ChangeOk(c)'
  PROVE  LogInv'
  <1> USE Zenon
  <1>1. th'[t] = c /\ \A s \in Threads \ {t} : th'[s] = th[s] /\ ~Held(th[s])
    BY Others
  <1>2. \A s \in Threads \ {t} : ChangeOk(th[s])'
    BY <1>1 DEF Held, ChangeOk, Bumped
  <1>3. ChangeOk(th[t])'
    BY <1>1 DEF ChangeOk
  <1> QED
    BY <1>2, <1>3 DEF LogInv, LogPast

\* ... and one that changes neither rows nor events concerns nobody.
LEMMA LogOfOthers ==
  ASSUME OneHandle, CallInv, LogInv, NEW t \in Threads, NEW c, Moves(t, c), UNCHANGED <<rev, kv, events>>,
         c.pc \notin Bumped, c.pc = "bump" => c.op \in Writes
  PROVE  LogInv'
  <1> USE Zenon
  <1>1. th'[t] = c /\ \A s \in Threads \ {t} : th'[s] = th[s]
    BY Others
  <1>2. \A s \in Threads \ {t} : ChangeOk(th[s])'
    BY <1>1 DEF LogInv, ChangeOk
  <1>3. ChangeOk(th[t])'
    BY <1>1 DEF ChangeOk, Bumped, Writes, Removes
  <1>4. LogPast'
    BY DEF LogInv, LogPast, LogNeverLies
  <1> QED
    BY <1>2, <1>3, <1>4 DEF LogInv, LogPast

\* append_event never meets a row of its revision.
LEMMA EventIsNew ==
  ASSUME LogInv, NEW t \in Threads, AppendEvent(t)
  PROVE  th[t].pc = "log" /\ th[t].rev = rev /\ rev \notin DOMAIN events
  BY Zenon DEF LogInv, ChangeOk, AppendEvent, At, Bumped

\* LogInv is kept by every step.
LEMMA LogSteps ==
  ASSUME OneHandle, CallInv, LogInv, [Next]_vars
  PROVE  LogInv'
  <1> USE Zenon
  <1>0. /\ rev \in Nat /\ DOMAIN events \subseteq 1..rev /\ \A k \in DOMAIN kv : kv[k].mod \in 1..rev
        /\ LogNeverLies /\ \A t \in Threads : ChangeOk(th[t])
    BY DEF LogInv, CallInv, Shape
  <1>1. ASSUME NEW t \in Threads, Call(t) \/ SilentStatement(t) PROVE LogInv'
    <2>1. PICK c : Silent(t, c)
      BY <1>1, CallStep, StatementStep
    <2> QED  BY <2>1, LogOfOthers DEF Silent, log
  <1>2. ASSUME NEW t \in Threads, DeleteRow(t) PROVE LogInv'
    <2>1. PICK c : /\ Moves(t, c) /\ Held(th[t]) /\ UNCHANGED <<rev, events>>
                   /\ DOMAIN kv' = DOMAIN kv \ {th[t].key} /\ \A k \in DOMAIN kv' : kv'[k] = kv[k]
                   /\ \/ c.pc = "bump" /\ c.key = th[t].key
                      \/ c.pc = "idle"
      BY <1>2, DeleteRowStep
    <2>2. LogPast'
      BY <1>0, <2>1 DEF LogPast, LogNeverLies
    <2>3. ChangeOk(c)'
      BY <2>1 DEF ChangeOk, Bumped
    <2> QED  BY <2>1, <2>2, <2>3, LogOfHolder
  <1>3. ASSUME NEW t \in Threads, Bump(t) PROVE LogInv'
    <2>1. PICK c : /\ Moves(t, c) /\ Held(th[t]) /\ rev' = rev + 1 /\ UNCHANGED <<kv, events>>
                   /\ th[t].pc = "bump" /\ c.pc = "rev" /\ c.op = th[t].op /\ c.key = th[t].key
      BY <1>3, BumpStep
    <2>2. LogPast'
      BY <1>0, <2>1, SMT DEF LogPast, LogNeverLies
    <2>3. rev' > 0 /\ rev' \notin DOMAIN events' /\ \A k \in DOMAIN kv' : kv'[k].mod # rev'
      BY <1>0, <2>1, SMT
    <2>4. c.op \in Removes => c.key \notin DOMAIN kv'
      BY <1>0, <2>1 DEF ChangeOk
    <2>5. ChangeOk(c)'
      BY <2>1, <2>3, <2>4 DEF ChangeOk
    <2> QED  BY <2>1, <2>2, <2>5, LogOfHolder
  <1>4. ASSUME NEW t \in Threads, ReadRev(t) PROVE LogInv'
    <2>1. PICK c : /\ Moves(t, c) /\ Held(th[t]) /\ UNCHANGED <<rev, kv, events>>
                   /\ th[t].pc = "rev" /\ c.op = th[t].op /\ c.key = th[t].key /\ c.rev = rev
                   /\ \/ c.pc = "upsert" /\ c.op \in Writes
                      \/ c.pc = "log" /\ c.op \in Removes
      BY <1>4, ReadRevStep DEF log
    <2>2. LogPast'
      BY <1>0, <2>1 DEF LogPast, LogNeverLies
    <2>3. ChangeOk(c)'
      BY <1>0, <2>1 DEF ChangeOk, Bumped, Writes, Removes
    <2> QED  BY <2>1, <2>2, <2>3, LogOfHolder
  <1>5. ASSUME NEW t \in Threads, Upsert(t) PROVE LogInv'
    <2>1. PICK c : /\ Moves(t, c) /\ Held(th[t]) /\ UNCHANGED <<rev, events>>
                   /\ th[t].pc = "upsert" /\ c.pc = "log" /\ c.op \in Writes /\ c.rev = th[t].rev
                   /\ DOMAIN kv' = DOMAIN kv \cup {c.key} /\ kv'[c.key].mod = c.rev
                   /\ \A k \in DOMAIN kv \ {c.key} : kv'[k] = kv[k]
      BY <1>5, UpsertStep
    <2>2. c.rev = rev /\ rev > 0 /\ rev \notin DOMAIN events /\ \A k \in DOMAIN kv : kv[k].mod # rev
      BY <1>0, <2>1 DEF ChangeOk, Bumped
    <2>3. \A k \in DOMAIN kv' : kv'[k].mod \in 1..rev
      BY <1>0, <2>1, <2>2, SMT
    <2>4. LogNeverLies'
      <3>1. ASSUME NEW k \in DOMAIN kv', NEW j \in DOMAIN kv', kv'[j].mod = kv'[k].mod PROVE j = k
        <4>1. j \in DOMAIN kv /\ k \in DOMAIN kv => (kv[j].mod = kv[k].mod => j = k)
          BY <1>0 DEF LogNeverLies
        <4> QED  BY <2>1, <2>2, <3>1, <4>1, SMT
      <3>2. ASSUME NEW k \in DOMAIN kv', kv'[k].mod \in DOMAIN events'
            PROVE  events'[kv'[k].mod] = [key |-> k, kind |-> "put"]
        <4>1. k \in DOMAIN kv /\ kv'[k] = kv[k]
          BY <2>1, <2>2, <3>2
        <4> QED  BY <1>0, <2>1, <3>2, <4>1 DEF LogNeverLies
      <3> QED  BY <3>1, <3>2 DEF LogNeverLies
    <2>5. ChangeOk(c)'
      BY <2>1, <2>2 DEF ChangeOk, Bumped, Writes, Removes
    <2> QED  BY <1>0, <2>1, <2>3, <2>4, <2>5, LogOfHolder DEF LogPast
  <1>6. ASSUME NEW t \in Threads, AppendEvent(t) PROVE LogInv'
    <2>1. th[t].pc = "log" /\ th[t].rev = rev /\ rev \notin DOMAIN events
      BY <1>6, EventIsNew
    <2>2. PICK c : /\ Moves(t, c) /\ Held(th[t]) /\ UNCHANGED <<rev, kv>> /\ c.pc \in {"keys", "broadcast"}
                   /\ DOMAIN events' = DOMAIN events \cup {rev}
                   /\ events'[rev] = [key |-> th[t].key, kind |-> KindOf(th[t].op)]
                   /\ \A r \in DOMAIN events : events'[r] = events[r]
      BY <1>6, <2>1, AppendEventStep
    <2>3. th[t].op \in Writes \cup Removes /\ rev > 0
      BY <1>0, <2>1 DEF CallInv, CallOk, ChangeOk, Bumped
    <2>4. ASSUME NEW k \in DOMAIN kv, kv[k].mod = rev PROVE events'[rev] = [key |-> k, kind |-> "put"]
      <3>1. th[t].op \in Writes
        BY <1>0, <2>1, <2>3, <2>4 DEF ChangeOk
      <3>2. th[t].key \in DOMAIN kv /\ kv[th[t].key].mod = rev
        BY <1>0, <2>1, <3>1 DEF ChangeOk
      <3>3. th[t].key = k
        BY <1>0, <2>4, <3>2 DEF LogNeverLies
      <3> QED  BY <2>2, <3>1, <3>3 DEF KindOf, Writes
    <2>5. LogNeverLies'
      <3>1. ASSUME NEW k \in DOMAIN kv, kv[k].mod \in DOMAIN events'
            PROVE  events'[kv[k].mod] = [key |-> k, kind |-> "put"]
        <4>1. CASE kv[k].mod = rev
          BY <2>4, <4>1
        <4>2. CASE kv[k].mod \in DOMAIN events
          BY <1>0, <2>2, <4>2 DEF LogNeverLies
        <4> QED  BY <2>2, <3>1, <4>1, <4>2
      <3> QED  BY <1>0, <2>2, <3>1 DEF LogNeverLies
    <2>6. LogPast'
      BY <1>0, <2>2, <2>3, <2>5, SMT DEF LogPast
    <2>7. ChangeOk(c)'
      BY <2>2 DEF ChangeOk, Bumped
    <2> QED  BY <2>2, <2>6, <2>7, LogOfHolder
  <1>7. ASSUME NEW t \in Threads, Broadcast(t) PROVE LogInv'
    <2>1. PICK c : Moves(t, c) /\ UNCHANGED <<rev, kv, events>> /\ c.pc \in {"idle", "broadcast"}
      BY <1>7, BroadcastStep
    <2> QED  BY <2>1, LogOfOthers DEF Bumped
  <1>8. ASSUME NEW t \in Threads, Compact(t) PROVE LogInv'
    <2>1. /\ Moves(t, Idle) /\ Held(th[t]) /\ UNCHANGED <<rev, kv>>
          /\ DOMAIN events' \subseteq DOMAIN events /\ \A r \in DOMAIN events' : events'[r] = events[r]
      BY <1>8, CompactStep
    <2>2. LogPast'
      BY <1>0, <2>1 DEF LogPast, LogNeverLies
    <2>3. ChangeOk(Idle)'
      BY IdleCall DEF ChangeOk, Bumped
    <2> QED  BY <2>1, <2>2, <2>3, LogOfHolder
  <1>9. ASSUME NEW t \in Threads, StatementFails(t) PROVE LogInv'
    <2>1. Return(t) /\ Held(th[t]) /\ UNCHANGED <<rev, kv, events>>
      BY <1>9 DEF StatementFails, CallInv, Locked, tables
    <2> QED  BY <2>1, ReturnStep, LogOfOthers, IdleCall DEF Bumped
  <1>10. CASE Crash
    <2>1. (\A t \in Threads : th'[t] = Idle) /\ UNCHANGED <<rev, kv, events>>
      BY <1>10 DEF Crash, tables
    <2> QED  BY <1>0, <2>1, IdleCall DEF LogInv, ChangeOk, Bumped, LogNeverLies
  <1>11. CASE UNCHANGED <<rev, kv, events, th>>
    BY <1>11 DEF LogInv, ChangeOk, LogNeverLies
  <1> QED
    BY <1>1, <1>2, <1>3, <1>4, <1>5, <1>6, <1>7, <1>8, <1>9, <1>10, <1>11
       DEF Next, Statement, SilentStatement, LeaseRunsOut, vars

-----------------------------------------------------------------------------
\* The log and the rows stand still.
LEMMA ReplayStays ==
  ASSUME ReplayInv, UNCHANGED <<rev, kv, events, floor, faults>>,
         Changing(th) <=> Changing(th'), \A k : Dirty(th, k) <=> Dirty(th', k)
  PROVE  ReplayInv'
  <1> USE Zenon
  <1>1. LoggedUpTo' = LoggedUpTo
    BY DEF LoggedUpTo
  <1>2. Replays => Replays'
    BY DEF Replays, LastOfKey, ModOf
  <1> QED
    BY <1>1, <1>2 DEF ReplayInv

\* ... and t is not in a change.
LEMMA ReplayOfOthers ==
  ASSUME OneHandle, CallInv, ReplayInv, NEW t \in Threads, NEW c, Moves(t, c),
         UNCHANGED <<rev, kv, events, floor, faults>>,
         th[t].pc \notin {"bump"} \cup Bumped, c.pc \notin Bumped, c.pc = "bump" => c.op \in Writes
  PROVE  ReplayInv'
  <1> USE Zenon
  <1>1. th'[t] = c /\ \A s \in Threads \ {t} : th'[s] = th[s]
    BY Others
  <1>2. ~DirtyCall(th[t]) /\ ~DirtyCall(th'[t]) /\ th[t].pc \notin Bumped /\ th'[t].pc \notin Bumped
    BY <1>1 DEF DirtyCall, Bumped, Writes, Removes
  <1>3. Changing(th) <=> Changing(th')
    BY <1>1, <1>2 DEF Changing
  <1>4. \A k : Dirty(th, k) <=> Dirty(th', k)
    BY <1>1, <1>2 DEF Dirty
  <1> QED
    BY <1>3, <1>4, ReplayStays

\* A step of the holder, in terms of the calls it leads from and to.
LEMMA HolderStep ==
  ASSUME OneHandle, CallInv, NEW t \in Threads, NEW c, Moves(t, c), Held(th[t])
  PROVE  /\ Changing(th) <=> th[t].pc \in Bumped
         /\ Changing(th') <=> c.pc \in Bumped
         /\ \A k : Dirty(th, k) <=> DirtyCall(th[t]) /\ th[t].key = k
         /\ \A k : Dirty(th', k) <=> DirtyCall(c) /\ c.key = k
  <1> USE Zenon
  <1>1. th'[t] = c /\ \A s \in Threads \ {t} : th'[s] = th[s] /\ ~Held(th[s])
    BY Others
  <1>2. \A s \in Threads \ {t} : ~DirtyCall(th[s]) /\ th[s].pc \notin Bumped
    BY <1>1 DEF DirtyCall, Held, Bumped
  <1>3. \A k : /\ Dirty(th, k) <=> DirtyCall(th[t]) /\ th[t].key = k
               /\ Dirty(th', k) <=> DirtyCall(c) /\ c.key = k
    BY <1>1, <1>2 DEF Dirty
  <1>4. /\ Changing(th) <=> th[t].pc \in Bumped
        /\ Changing(th') <=> c.pc \in Bumped
    BY <1>1, <1>2 DEF Changing
  <1> QED
    BY <1>3, <1>4

\* ReplayInv is kept by every step.
LEMMA ReplaySteps ==
  ASSUME OneHandle, CallInv, LogInv, ReplayInv, [Next]_vars
  PROVE  ReplayInv'
  <1> USE Zenon
  <1>0. rev \in Nat /\ floor \in Nat /\ faults \in Nat
    BY DEF CallInv, Shape
  <1>1. ASSUME NEW t \in Threads, Call(t) \/ SilentStatement(t) PROVE ReplayInv'
    <2>1. PICK c : Silent(t, c)
      BY <1>1, CallStep, StatementStep
    <2> QED  BY <2>1, ReplayOfOthers DEF Silent, log
  <1>2. ASSUME NEW t \in Threads, DeleteRow(t) PROVE ReplayInv'
    <2>1. PICK c : /\ Moves(t, c) /\ Held(th[t]) /\ th[t].pc = "del" /\ th[t].op \in Removes
                   /\ UNCHANGED <<rev, events, floor, faults>>
                   /\ DOMAIN kv' = DOMAIN kv \ {th[t].key} /\ \A k \in DOMAIN kv' : kv'[k] = kv[k]
                   /\ \/ c.pc = "bump" /\ c.op = th[t].op /\ c.key = th[t].key
                      \/ c.pc = "idle" /\ th[t].key \notin DOMAIN kv
      BY <1>2, DeleteRowStep
    <2>2. LoggedUpTo' = LoggedUpTo
      BY <2>1, HolderStep DEF LoggedUpTo, Bumped
    <2>3. ~DirtyCall(th[t]) /\ (c.pc = "bump" => DirtyCall(c))
      BY <2>1 DEF DirtyCall
    <2>4. \A k : ~Dirty(th, k)
      BY <2>1, <2>3, HolderStep
    <2>5. \A k : ~Dirty(th', k) => k # th[t].key \/ th[t].key \notin DOMAIN kv
      BY <2>1, <2>3, HolderStep
    <2>6. \A k : ~Dirty(th', k) => ModOf(k)' = ModOf(k)
      BY <2>1, <2>5 DEF ModOf
    <2>7. Replays => Replays'
      BY <2>1, <2>4, <2>6 DEF Replays, LastOfKey
    <2> QED  BY <2>1, <2>2, <2>7 DEF ReplayInv
  <1>3. ASSUME NEW t \in Threads, Bump(t) PROVE ReplayInv'
    <2>1. PICK c : /\ Moves(t, c) /\ Held(th[t]) /\ th[t].pc = "bump" /\ c.pc = "rev"
                   /\ c.op = th[t].op /\ c.key = th[t].key /\ rev' = rev + 1
                   /\ UNCHANGED <<kv, events, floor, faults>>
      BY <1>3, BumpStep
    <2>2. ~Changing(th) /\ Changing(th')
      BY <2>1, HolderStep DEF Bumped
    <2>3. LoggedUpTo' = LoggedUpTo
      BY <1>0, <2>1, <2>2, SMT DEF LoggedUpTo
    <2>4. DirtyCall(th[t]) <=> DirtyCall(c)
      BY <2>1 DEF DirtyCall
    <2>5. \A k : Dirty(th, k) <=> Dirty(th', k)
      BY <2>1, <2>4, HolderStep
    <2>6. Replays => Replays'
      BY <2>1, <2>5 DEF Replays, LastOfKey, ModOf
    <2> QED  BY <2>1, <2>3, <2>6 DEF ReplayInv
  <1>4. ASSUME NEW t \in Threads, ReadRev(t) PROVE ReplayInv'
    <2>1. PICK c : /\ Moves(t, c) /\ Held(th[t]) /\ UNCHANGED <<rev, kv, events, floor, faults>>
                   /\ th[t].pc = "rev" /\ c.op = th[t].op /\ c.key = th[t].key
                   /\ \/ c.pc = "upsert" /\ c.op \in Writes
                      \/ c.pc = "log" /\ c.op \in Removes
      BY <1>4, ReadRevStep DEF log
    <2>2. Changing(th) <=> Changing(th')
      BY <2>1, HolderStep DEF Bumped
    <2>3. DirtyCall(th[t]) <=> DirtyCall(c)
      BY <2>1 DEF DirtyCall, Writes, Removes
    <2>4. \A k : Dirty(th, k) <=> Dirty(th', k)
      BY <2>1, <2>3, HolderStep
    <2> QED  BY <2>1, <2>2, <2>4, ReplayStays
  <1>5. ASSUME NEW t \in Threads, Upsert(t) PROVE ReplayInv'
    <2>1. PICK c : /\ Moves(t, c) /\ Held(th[t]) /\ UNCHANGED <<rev, events, floor, faults>>
                   /\ th[t].pc = "upsert" /\ c.pc = "log" /\ c.op \in Writes
                   /\ DOMAIN kv' = DOMAIN kv \cup {c.key}
                   /\ \A k \in DOMAIN kv \ {c.key} : kv'[k] = kv[k]
      BY <1>5, UpsertStep
    <2>2. LoggedUpTo' = LoggedUpTo
      BY <2>1, HolderStep DEF LoggedUpTo, Bumped
    <2>3. ~DirtyCall(th[t]) /\ DirtyCall(c)
      BY <2>1 DEF DirtyCall
    <2>4. \A k : ~Dirty(th, k) /\ (~Dirty(th', k) => k # c.key)
      BY <2>1, <2>3, HolderStep
    <2>5. \A k : ~Dirty(th', k) => ModOf(k)' = ModOf(k)
      BY <2>1, <2>4 DEF ModOf
    <2>6. Replays => Replays'
      BY <2>1, <2>4, <2>5 DEF Replays, LastOfKey
    <2> QED  BY <2>1, <2>2, <2>6 DEF ReplayInv
  <1>6. ASSUME NEW t \in Threads, AppendEvent(t) PROVE ReplayInv'
    <2>1. th[t].pc = "log" /\ th[t].rev = rev /\ rev \notin DOMAIN events
      BY <1>6, EventIsNew
    <2>2. PICK c : /\ Moves(t, c) /\ Held(th[t]) /\ UNCHANGED <<rev, kv, floor, faults>>
                   /\ c.pc \in {"keys", "broadcast"}
                   /\ DOMAIN events' = DOMAIN events \cup {rev}
                   /\ events'[rev] = [key |-> th[t].key, kind |-> KindOf(th[t].op)]
                   /\ \A r \in DOMAIN events : events'[r] = events[r]
      BY <1>6, <2>1, AppendEventStep
    <2>3. rev > 0 /\ ChangeOk(th[t]) /\ th[t].op \in Writes \cup Removes /\ DOMAIN events \subseteq 1..rev
      BY <2>1 DEF LogInv, ChangeOk, CallInv, CallOk, Bumped
    <2>4. LoggedUpTo = rev - 1 /\ LoggedUpTo' = rev
      <3>1. Changing(th) /\ ~Changing(th')
        BY <2>1, <2>2, HolderStep DEF Bumped
      <3> QED  BY <2>2, <3>1 DEF LoggedUpTo
    <2>5. \A k : ~Dirty(th', k) /\ (Dirty(th, k) => k = th[t].key)
      <3>1. ~DirtyCall(c)
        BY <2>2 DEF DirtyCall
      <3> QED  BY <2>2, <3>1, HolderStep
    <2>6. events'[rev].kind = "put" <=> ModOf(events'[rev].key) = rev
      <3>1. CASE th[t].op \in Writes
        BY <2>1, <2>2, <2>3, <3>1, SMT DEF ChangeOk, ModOf, KindOf, Writes
      <3>2. CASE th[t].op \in Removes
        BY <2>1, <2>2, <2>3, <3>2, SMT DEF ChangeOk, ModOf, KindOf, Removes
      <3> QED  BY <2>3, <3>1, <3>2
    <2>7. ASSUME Replays PROVE Replays'
      <3>1. ASSUME NEW r \in DOMAIN events, LastOfKey(r)'
            PROVE  LastOfKey(r) /\ events[r].key # th[t].key /\ events'[r] = events[r]
        <4>1. rev > r
          BY <1>0, <2>1, <2>3, SMT
        <4>2. events'[rev].key = th[t].key
          BY <2>2, SMT
        <4> QED  BY <2>2, <3>1, <4>1, <4>2 DEF LastOfKey
      <3>2. ASSUME NEW r \in DOMAIN events, LastOfKey(r)'
            PROVE  events'[r].kind = "put" <=> ModOf(events'[r].key) = r
        BY <2>5, <2>7, <3>1, <3>2 DEF Replays
      <3>3. ASSUME NEW r \in DOMAIN events', LastOfKey(r)', NEW e, e = events'[r]
            PROVE  e.kind = "put" <=> ModOf(e.key)' = r
        <4>1. ModOf(e.key)' = ModOf(e.key)
          BY <2>2 DEF ModOf
        <4> QED  BY <2>2, <2>6, <3>2, <3>3, <4>1
      <3> QED  BY <3>3 DEF Replays, ModOf
    <2> QED  BY <1>0, <2>2, <2>3, <2>4, <2>7, SMT DEF ReplayInv
  <1>7. ASSUME NEW t \in Threads, Broadcast(t) PROVE ReplayInv'
    <2>1. PICK c : /\ Moves(t, c) /\ UNCHANGED <<rev, kv, events, floor, faults>>
                   /\ th[t].pc = "broadcast" /\ c.pc \in {"idle", "broadcast"}
      BY <1>7, BroadcastStep
    <2> QED  BY <2>1, ReplayOfOthers DEF Bumped
  <1>8. ASSUME NEW t \in Threads, Compact(t) PROVE ReplayInv'
    <2>1. /\ Moves(t, Idle) /\ Held(th[t]) /\ th[t].pc = "compact" /\ UNCHANGED <<rev, kv, faults>>
          /\ th[t].rev \in 1..rev
          /\ floor' = IF floor >= th[t].rev THEN floor ELSE th[t].rev
          /\ DOMAIN events' = DOMAIN events \ 1..th[t].rev
          /\ \A r \in DOMAIN events' : events'[r] = events[r]
      BY <1>8, CompactStep
    <2>2. LoggedUpTo = rev /\ LoggedUpTo' = rev
      BY <2>1, IdleCall, HolderStep DEF LoggedUpTo, Bumped
    <2>3. \A k : ~Dirty(th, k)
      <3>1. ~DirtyCall(th[t])
        BY <2>1 DEF DirtyCall
      <3> QED  BY <2>1, <3>1, HolderStep
    <2>4. ASSUME faults = 0, DOMAIN events = (floor + 1) .. rev, floor <= rev
          PROVE  DOMAIN events' = (floor' + 1) .. rev /\ floor' <= rev
      BY <1>0, <2>1, <2>4, SMT
    <2>5. ASSUME Replays, DOMAIN events = (floor + 1) .. rev PROVE Replays'
      <3>1. ASSUME NEW r \in DOMAIN events', LastOfKey(r)' PROVE LastOfKey(r)
        <4>1. \A q \in DOMAIN events : q > r => q \in DOMAIN events'
          BY <1>0, <2>1, <2>5, SMT
        <4> QED  BY <2>1, <3>1, <4>1 DEF LastOfKey
      <3>2. \A k : ModOf(k)' = ModOf(k)
        BY <2>1 DEF ModOf
      <3> QED  BY <2>1, <2>3, <2>5, <3>1, <3>2 DEF Replays
    <2> QED  BY <2>1, <2>2, <2>4, <2>5 DEF ReplayInv
  <1>9. CASE Crash \/ \E t \in Threads : StatementFails(t)
    BY <1>0, <1>9, SMT DEF Crash, StatementFails, ReplayInv
  <1>10. CASE UNCHANGED <<rev, kv, events, floor, th, faults>>
    BY <1>10, ReplayStays
  <1> QED
    BY <1>1, <1>2, <1>3, <1>4, <1>5, <1>6, <1>7, <1>8, <1>9, <1>10
       DEF Next, Statement, SilentStatement, LeaseRunsOut, vars

-----------------------------------------------------------------------------
\* Only append_event and the broadcast move revisions, and only append_event
\* makes one that is logged.
LEMMA OutStays ==
  ASSUME OneHandle, CallInv, NEW t \in Threads,
         Call(t) \/ SilentStatement(t) \/ DeleteRow(t) \/ Bump(t) \/ ReadRev(t) \/ Upsert(t) \/ Compact(t)
  PROVE  /\ \A s \in Threads : th'[s].out = th[s].out
         /\ UNCHANGED <<seen, opened, faults>> /\ LoggedUpTo' = LoggedUpTo
  <1> USE Zenon
  <1>1. ASSUME NEW c, Moves(t, c), c.out = th[t].out PROVE \A s \in Threads : th'[s].out = th[s].out
    <2>1. th'[t] = c /\ \A s \in Threads \ {t} : th'[s] = th[s]
      BY <1>1, Others
    <2> QED  BY <1>1, <2>1
  <1>2. CASE Call(t) \/ SilentStatement(t)
    <2>1. PICK c : Silent(t, c)
      BY <1>2, CallStep, StatementStep
    <2>2. /\ Moves(t, c) /\ c.out = th[t].out /\ UNCHANGED <<rev, seen, opened, faults>>
          /\ th[t].pc \notin Bumped /\ c.pc \notin Bumped
      BY <2>1 DEF Silent, log
    <2>3. th'[t] = c /\ \A s \in Threads \ {t} : th'[s] = th[s]
      BY <2>2, Others
    <2>4. Changing(th) <=> Changing(th')
      BY <2>2, <2>3 DEF Changing
    <2>5. LoggedUpTo' = LoggedUpTo
      BY <2>2, <2>4 DEF LoggedUpTo
    <2> QED  BY <1>1, <2>2, <2>5
  <1>3. CASE DeleteRow(t) \/ ReadRev(t) \/ Upsert(t)
    <2>1. PICK c : /\ Moves(t, c) /\ Held(th[t]) /\ c.out = th[t].out /\ UNCHANGED <<rev, seen, opened, faults>>
                   /\ \/ th[t].pc = "del" /\ c.pc \in {"bump", "idle"}
                      \/ th[t].pc = "rev" /\ c.pc \in {"upsert", "log"}
                      \/ th[t].pc = "upsert" /\ c.pc = "log"
      <3>1. CASE DeleteRow(t)
        BY <3>1, DeleteRowStep
      <3>2. CASE ReadRev(t)
        BY <3>2, ReadRevStep DEF log
      <3>3. CASE Upsert(t)
        BY <3>3, UpsertStep
      <3> QED  BY <1>3, <3>1, <3>2, <3>3
    <2>2. th[t].pc \in Bumped <=> c.pc \in Bumped
      BY <2>1 DEF Bumped
    <2>3. Changing(th) <=> Changing(th')
      BY <2>1, <2>2, HolderStep
    <2>4. LoggedUpTo' = LoggedUpTo
      BY <2>1, <2>3 DEF LoggedUpTo
    <2> QED  BY <1>1, <2>1, <2>4
  <1>4. CASE Bump(t)
    <2>1. PICK c : /\ Moves(t, c) /\ Held(th[t]) /\ c.out = th[t].out /\ UNCHANGED <<seen, opened, faults>>
                   /\ th[t].pc = "bump" /\ c.pc = "rev" /\ rev' = rev + 1
      BY <1>4, BumpStep
    <2>2. ~Changing(th) /\ Changing(th')
      <3>1. th[t].pc \notin Bumped /\ c.pc \in Bumped
        BY <2>1 DEF Bumped
      <3> QED  BY <2>1, <3>1, HolderStep
    <2>3. LoggedUpTo' = LoggedUpTo
      <3>1. rev' - 1 = rev
        BY <2>1, SMT DEF CallInv, Shape
      <3> QED  BY <2>2, <3>1 DEF LoggedUpTo
    <2> QED  BY <1>1, <2>1, <2>3
  <1>5. CASE Compact(t)
    <2>1. /\ Moves(t, Idle) /\ Held(th[t]) /\ Idle.out = th[t].out /\ UNCHANGED <<rev, seen, opened, faults>>
          /\ th[t].pc = "compact" /\ Idle.pc = "idle"
      BY <1>5, CompactStep, IdleCall
    <2>2. ~Changing(th) /\ ~Changing(th')
      BY <2>1, HolderStep DEF Bumped
    <2>3. LoggedUpTo' = LoggedUpTo
      BY <2>1, <2>2 DEF LoggedUpTo
    <2> QED  BY <1>1, <2>1, <2>3
  <1> QED
    BY <1>2, <1>3, <1>4, <1>5

\* When no event is appended or sent, every revision stays where it is.
LEMMA PlacesStay ==
  ASSUME WatchInv, \A s \in Threads : th'[s].out = th[s].out,
         UNCHANGED <<seen, opened, faults>>, LoggedUpTo' = LoggedUpTo
  PROVE  WatchInv'
  <1> USE Zenon
  <1>1. \A s \in Threads : \A i, r : WithThread(th', s, i, r) <=> WithThread(th, s, i, r)
    BY DEF WithThread
  <1>2. \A h : \A i, r : WithWatcher(seen', h, i, r) <=> WithWatcher(seen, h, i, r)
    BY DEF WithWatcher
  <1>3. \A h : \A r : Received(th', seen', h, r) <=> Received(th, seen, h, r)
    BY <1>1, <1>2 DEF Received
  <1>4. ASSUME Places PROVE Places'
    <2>1. AllPlaced'
      BY <1>3, <1>4 DEF Places, AllPlaced
    <2>2. SeenLogged' /\ OutLogged'
      BY <1>1, <1>2, <1>4 DEF Places, SeenLogged, OutLogged
    <2>3. SeenOnce'
      BY <1>2, <1>4 DEF Places, SeenOnce
    <2>4. OutOnce'
      <3>1. ASSUME NEW s \in Threads, NEW t \in Threads, NEW i \in Nat, NEW j \in Nat, NEW r \in Nat,
                   WithThread(th', s, i, r), WithThread(th', t, j, r)
            PROVE  s = t /\ i = j
        <4>1. WithThread(th, s, i, r) /\ WithThread(th, t, j, r)
          BY <1>1, <3>1
        <4> QED  BY <1>4, <4>1 DEF Places, OutOnce
      <3> QED  BY <3>1 DEF OutOnce
    <2>5. SeenNotOut'
      BY <1>1, <1>2, <1>4 DEF Places, SeenNotOut
    <2> QED  BY <2>1, <2>2, <2>3, <2>4, <2>5 DEF Places
  <1> QED
    BY <1>4 DEF WatchInv

\* Where append_event and the channel put a new revision: behind the others.
LEMMA QueueEnd ==
  ASSUME NEW q \in Seq(Nat), NEW r \in Nat
  PROVE  /\ DOMAIN Append(q, r) = DOMAIN q \cup {Len(q) + 1}
         /\ Append(q, r)[Len(q) + 1] = r
         /\ \A i \in DOMAIN q : Append(q, r)[i] = q[i]
         /\ Len(q) + 1 \notin DOMAIN q /\ Len(q) + 1 \in Nat \ {0}
  <1>1. Len(Append(q, r)) = Len(q) + 1 /\ Len(q) \in Nat /\ DOMAIN q = 1..Len(q)
    OBVIOUS
  <1>2. DOMAIN Append(q, r) = 1..(Len(q) + 1)
    OBVIOUS
  <1>3. Append(q, r)[Len(q) + 1] = r /\ \A i \in DOMAIN q : Append(q, r)[i] = q[i]
    OBVIOUS
  <1> QED
    BY <1>1, <1>2, <1>3

\* append_event puts the newest revision at the end of the thread's queue.
LEMMA PlacesAppend ==
  ASSUME OneHandle, CallInv, LogInv, Places, NEW t \in Threads, AppendEvent(t)
  PROVE  Places' /\ UNCHANGED <<seen, opened, faults>>
  <1> USE Zenon
  <1>1. th[t].pc = "log" /\ th[t].rev = rev /\ rev \notin DOMAIN events /\ rev > 0 /\ rev \in Nat
    BY EventIsNew DEF LogInv, ChangeOk, Bumped, CallInv, Shape
  <1>2. PICK c : /\ Moves(t, c) /\ Held(th[t]) /\ UNCHANGED <<rev, seen, opened, faults>>
                 /\ c.pc \in {"keys", "broadcast"} /\ c.out = Append(th[t].out, rev)
    BY <1>1, AppendEventStep
  <1>3. LoggedUpTo = rev - 1 /\ LoggedUpTo' = rev
    <2>1. Changing(th) /\ ~Changing(th')
      BY <1>1, <1>2, HolderStep DEF Bumped
    <2> QED  BY <1>2, <2>1 DEF LoggedUpTo
  <1>4. th'[t] = c /\ \A s \in Threads \ {t} : th'[s] = th[s]
    BY <1>2, Others
  <1>5. PICK n \in Nat \ {0} :
          /\ \A i, r : WithThread(th', t, i, r) <=> WithThread(th, t, i, r) \/ (i = n /\ r = rev)
          /\ \A r : ~WithThread(th, t, n, r)
    <2>1. th[t].out \in Seq(Nat)
      BY CallFields DEF CallInv, Shape
    <2>2. /\ DOMAIN c.out = DOMAIN th[t].out \cup {Len(th[t].out) + 1}
          /\ c.out[Len(th[t].out) + 1] = rev
          /\ \A i \in DOMAIN th[t].out : c.out[i] = th[t].out[i]
          /\ Len(th[t].out) + 1 \notin DOMAIN th[t].out /\ Len(th[t].out) + 1 \in Nat \ {0}
      BY <1>1, <1>2, <2>1, QueueEnd, SMT
    <2> QED  BY <1>4, <2>2 DEF WithThread
  <1>6. \A s \in Threads \ {t} : \A i, r : WithThread(th', s, i, r) <=> WithThread(th, s, i, r)
    BY <1>4 DEF WithThread
  <1>7. \A h : \A i, r : WithWatcher(seen', h, i, r) <=> WithWatcher(seen, h, i, r)
    BY <1>2 DEF WithWatcher
  <1>8. \A s \in Threads : \A i, r : WithThread(th', s, i, r) <=> WithThread(th, s, i, r) \/ (s = t /\ i = n /\ r = rev)
    BY <1>5, <1>6, SMT
  <1>9. \A s \in Threads, i \in Nat : ~WithThread(th, s, i, rev)
    BY <1>1, <1>3, SMT DEF Places, OutLogged
  <1>10. \A h \in Handles, i \in Nat : ~WithWatcher(seen, h, i, rev)
    BY <1>1, <1>3, SMT DEF Places, SeenLogged
  <1>11. AllPlaced'
    <2>1. ASSUME NEW h \in Handles, NEW r \in 1..rev PROVE Received(th', seen', h, r)
      <3>1. CASE r = rev
        BY <1>8, <3>1 DEF Received
      <3>2. CASE r # rev
        <4>1. Received(th, seen, h, r)
          BY <1>1, <1>3, <3>2, SMT DEF Places, AllPlaced
        <4> QED  BY <1>7, <1>8, <4>1 DEF Received
      <3> QED  BY <3>1, <3>2
    <2> QED  BY <1>3, <2>1 DEF AllPlaced
  <1>12. \A r : r \in 1..LoggedUpTo => r \in 1..rev
    BY <1>1, <1>3, SMT
  <1>13. rev \in 1..rev
    BY <1>1, SMT
  <1>14. SeenLogged'
    BY <1>3, <1>7, <1>12 DEF Places, SeenLogged
  <1>15. OutLogged'
    BY <1>3, <1>8, <1>12, <1>13 DEF Places, OutLogged
  <1>16. SeenOnce'
    BY <1>7, ZenonT(30) DEF Places, SeenOnce
  <1>17. OutOnce'
    <2>1. ASSUME NEW s \in Threads, NEW u \in Threads, NEW i \in Nat, NEW j \in Nat, NEW r \in Nat,
                 WithThread(th', s, i, r), WithThread(th', u, j, r)
          PROVE  s = u /\ i = j
      <3>1. CASE r = rev
        <4>1. s = t /\ i = n /\ u = t /\ j = n
          BY <1>8, <1>9, <2>1, <3>1, SMT
        <4> QED  BY <4>1
      <3>2. CASE r # rev
        <4>1. WithThread(th, s, i, r) /\ WithThread(th, u, j, r)
          BY <1>8, <2>1, <3>2, SMT
        <4> QED  BY <4>1 DEF Places, OutOnce
      <3> QED  BY <3>1, <3>2
    <2> QED  BY <2>1 DEF OutOnce
  <1>18. SeenNotOut'
    BY <1>7, <1>8, <1>10, SMT DEF Places, SeenNotOut
  <1> QED
    BY <1>2, <1>11, <1>14, <1>15, <1>16, <1>17, <1>18 DEF Places

\* Which revision tx.send takes: the first; the others move up by one.
LEMMA QueueHead ==
  ASSUME NEW q \in Seq(Nat), q # <<>>
  PROVE  /\ Head(q) \in Nat /\ 1 \in DOMAIN q /\ q[1] = Head(q)
         /\ \A i \in Nat : i \in DOMAIN Tail(q) <=> i # 0 /\ i + 1 \in DOMAIN q
         /\ \A i \in DOMAIN Tail(q) : Tail(q)[i] = q[i + 1]
  <1>1. Len(q) \in Nat /\ Len(q) # 0 /\ DOMAIN q = 1..Len(q)
    OBVIOUS
  <1>2. DOMAIN Tail(q) = 1..(Len(q) - 1) /\ \A i \in DOMAIN Tail(q) : Tail(q)[i] = q[i + 1]
    OBVIOUS
  <1>3. Head(q) \in Nat /\ q[1] = Head(q)
    OBVIOUS
  <1>4. 1 \in DOMAIN q /\ \A i \in Nat : i \in 1..(Len(q) - 1) <=> i # 0 /\ i + 1 \in DOMAIN q
    BY <1>1
  <1> QED
    BY <1>2, <1>3, <1>4, Zenon

\* The broadcast takes the head of the queue to the watcher.
LEMMA PlacesBroadcast ==
  ASSUME OneHandle, CallInv, Places, NEW t \in Threads, Broadcast(t)
  PROVE  Places' /\ UNCHANGED <<opened, faults>>
  <1> USE Zenon
  <1>1. PICK c : /\ Moves(t, c) /\ UNCHANGED <<rev, opened, faults>>
                 /\ th[t].pc = "broadcast" /\ c.pc \in {"idle", "broadcast"}
                 /\ th[t].out # <<>> /\ c.out = Tail(th[t].out)
                 /\ seen'[HandleOf[t]] = Append(seen[HandleOf[t]], Head(th[t].out))
    BY BroadcastStep
  <1>2. th'[t] = c /\ \A s \in Threads \ {t} : th'[s] = th[s]
    BY <1>1, Others
  <1>3. LoggedUpTo' = LoggedUpTo
    <2>1. th[t].pc \notin Bumped /\ c.pc \notin Bumped
      BY <1>1 DEF Bumped
    <2>2. Changing(th) <=> Changing(th')
      BY <1>2, <2>1 DEF Changing
    <2> QED  BY <1>1, <2>2 DEF LoggedUpTo
  <1>4. th[t].out \in Seq(Nat) /\ HandleOf[t] \in Handles /\ seen[HandleOf[t]] \in Seq(Nat)
    BY CallFields, HandlesAssumption DEF CallInv, Shape
  <1>5. PICK m \in Nat : m = Head(th[t].out)
    BY <1>1, <1>4, QueueHead
  <1>6. WithThread(th, t, 1, m)
    BY <1>1, <1>4, <1>5, QueueHead DEF WithThread
  <1>7. \A i \in Nat : \A r : WithThread(th', t, i, r) <=> i # 0 /\ WithThread(th, t, i + 1, r)
    <2>1. PICK q \in Seq(Nat) : q = th[t].out /\ q # <<>>
      BY <1>1, <1>4
    <2>2. (th')[t].out = Tail(q)
      BY <1>1, <1>2, <2>1
    <2>3. /\ \A i \in Nat : i \in DOMAIN Tail(q) <=> i # 0 /\ i + 1 \in DOMAIN q
          /\ \A i \in DOMAIN Tail(q) : Tail(q)[i] = q[i + 1]
      BY <2>1, QueueHead
    <2> QED  BY <2>1, <2>2, <2>3 DEF WithThread
  <1>8. \A s \in Threads \ {t} : \A i, r : WithThread(th', s, i, r) <=> WithThread(th, s, i, r)
    BY <1>2 DEF WithThread
  <1>9. PICK n \in Nat \ {0} : \A h \in Handles : \A i, r :
          WithWatcher(seen', h, i, r) <=> WithWatcher(seen, h, i, r) \/ (i = n /\ r = m)
    <2>1. PICK q \in Seq(Nat) : q = seen[HandleOf[t]]
      BY <1>4
    <2>2. /\ DOMAIN Append(q, m) = DOMAIN q \cup {Len(q) + 1}
          /\ Append(q, m)[Len(q) + 1] = m
          /\ \A i \in DOMAIN q : Append(q, m)[i] = q[i]
          /\ Len(q) + 1 \notin DOMAIN q /\ Len(q) + 1 \in Nat \ {0}
      BY QueueEnd
    <2>3. PICK n \in Nat \ {0} : n = Len(q) + 1
      BY <2>2
    <2>4. \A h \in Handles : seen[h] = q /\ seen'[h] = Append(q, m)
      BY <1>1, <1>4, <1>5, <2>1 DEF OneHandle
    <2>5. \A h \in Handles : \A i, r : WithWatcher(seen', h, i, r) <=> WithWatcher(seen, h, i, r) \/ (i = n /\ r = m)
      BY <2>2, <2>3, <2>4 DEF WithWatcher
    <2> QED  BY <2>5
  <1>10. \A h \in Handles, i \in Nat : ~WithWatcher(seen, h, i, m)
    BY <1>6 DEF Places, SeenNotOut
  <1>11. \A s \in Threads, i \in Nat : WithThread(th, s, i, m) => s = t /\ i = 1
    BY <1>6 DEF Places, OutOnce
  <1>12. \A s \in Threads, i \in Nat : ~WithThread(th', s, i, m)
    <2>1. ASSUME NEW i \in Nat PROVE ~WithThread(th', t, i, m)
      BY <1>7, <1>11, SMT
    <2> QED  BY <1>8, <1>11, <2>1, SMT
  <1>13. \A s \in Threads, i, r \in Nat :
           WithThread(th', s, i, r) => \E j \in Nat : WithThread(th, s, j, r) /\ j = IF s = t THEN i + 1 ELSE i
    BY <1>7, <1>8, SMT
  <1>14. AllPlaced'
    <2>1. ASSUME NEW h \in Handles, NEW r \in 1..LoggedUpTo PROVE Received(th', seen', h, r)
      <3>1. Received(th, seen, h, r)
        BY DEF Places, AllPlaced
      <3>2. CASE \E i \in Nat : WithWatcher(seen, h, i, r)
        BY <1>9, <3>2 DEF Received
      <3>3. ASSUME NEW s \in Threads, NEW i \in Nat, WithThread(th, s, i, r) PROVE Received(th', seen', h, r)
        <4>1. CASE s # t
          BY <1>8, <3>3, <4>1 DEF Received
        <4>2. CASE s = t /\ i = 1
          <5>1. r = m
            BY <1>1, <1>4, <1>5, <3>3, <4>2, QueueHead DEF WithThread
          <5> QED  BY <1>9, <5>1 DEF Received
        <4>3. CASE s = t /\ i # 1
          <5>1. i # 0
            BY <1>4, <3>3, <4>3, SMT DEF WithThread
          <5>2. i - 1 \in Nat /\ i - 1 # 0 /\ (i - 1) + 1 = i
            BY <4>3, <5>1, SMT
          <5>3. WithThread(th', t, i - 1, r)
            BY <1>7, <3>3, <4>3, <5>2
          <5> QED  BY <5>2, <5>3 DEF Received
        <4> QED  BY <4>1, <4>2, <4>3
      <3> QED  BY <3>1, <3>2, <3>3 DEF Received
    <2> QED  BY <1>3, <2>1 DEF AllPlaced
  <1>15. SeenLogged'
    <2>1. m \in 1..LoggedUpTo
      BY <1>6 DEF Places, OutLogged
    <2> QED  BY <1>3, <1>9, <2>1 DEF Places, SeenLogged
  <1>16. OutLogged'
    BY <1>3, <1>13 DEF Places, OutLogged
  <1>17. SeenOnce'
    BY <1>9, <1>10, SMT DEF Places, SeenOnce
  <1>18. OutOnce'
    <2>1. ASSUME NEW s \in Threads, NEW u \in Threads, NEW i \in Nat, NEW j \in Nat, NEW r \in Nat,
                 WithThread(th', s, i, r), WithThread(th', u, j, r)
          PROVE  s = u /\ i = j
      <3>1. PICK k \in Nat : WithThread(th, s, k, r) /\ k = IF s = t THEN i + 1 ELSE i
        BY <1>13, <2>1
      <3>2. PICK l \in Nat : WithThread(th, u, l, r) /\ l = IF u = t THEN j + 1 ELSE j
        BY <1>13, <2>1
      <3>3. s = u /\ k = l
        BY <3>1, <3>2 DEF Places, OutOnce
      <3> QED  BY <3>1, <3>2, <3>3, SMT
    <2> QED  BY <2>1 DEF OutOnce
  <1>19. SeenNotOut'
    <2>1. ASSUME NEW h \in Handles, NEW s \in Threads, NEW i \in Nat, NEW j \in Nat, NEW r \in Nat,
                 WithWatcher(seen', h, i, r), WithThread(th', s, j, r)
          PROVE  FALSE
      <3>1. r # m
        BY <1>12, <2>1
      <3>2. WithWatcher(seen, h, i, r)
        BY <1>9, <2>1, <3>1
      <3>3. PICK k \in Nat : WithThread(th, s, k, r)
        BY <1>13, <2>1
      <3> QED  BY <3>2, <3>3 DEF Places, SeenNotOut
    <2> QED  BY <2>1 DEF SeenNotOut
  <1> QED
    BY <1>1, <1>14, <1>15, <1>16, <1>17, <1>18, <1>19 DEF Places

\* Each revision stays in its one place until the watcher has it.
LEMMA WatchSteps ==
  ASSUME OneHandle, CallInv, LogInv, WatchInv, [Next]_vars
  PROVE  WatchInv'
  <1> USE Zenon
  <1>1. ASSUME NEW t \in Threads,
               \/ Call(t) \/ SilentStatement(t) \/ DeleteRow(t) \/ Bump(t)
               \/ ReadRev(t) \/ Upsert(t) \/ Compact(t)
        PROVE  WatchInv'
    <2>1. /\ \A s \in Threads : th'[s].out = th[s].out
          /\ UNCHANGED <<seen, opened, faults>> /\ LoggedUpTo' = LoggedUpTo
      BY <1>1, OutStays
    <2> QED  BY <2>1, PlacesStay
  <1>2. ASSUME NEW t \in Threads, AppendEvent(t) PROVE WatchInv'
    <2>1. UNCHANGED <<opened, faults>>
      BY <1>2 DEF AppendEvent
    <2>2. Places => Places'
      BY <1>2, PlacesAppend
    <2> QED  BY <2>1, <2>2 DEF WatchInv
  <1>3. ASSUME NEW t \in Threads, Broadcast(t) PROVE WatchInv'
    <2>1. UNCHANGED <<opened, faults>>
      BY <1>3 DEF Broadcast
    <2>2. Places => Places'
      BY <1>3, PlacesBroadcast
    <2> QED  BY <2>1, <2>2 DEF WatchInv
  <1>4. CASE Crash \/ \E t \in Threads : StatementFails(t)
    BY <1>4, SMT DEF Crash, StatementFails, WatchInv, CallInv, Shape
  <1>5. CASE UNCHANGED <<rev, th, seen, opened, faults>>
    <2>1. LoggedUpTo' = LoggedUpTo
      BY <1>5 DEF LoggedUpTo
    <2> QED  BY <1>5, <2>1, PlacesStay
  <1> QED
    BY <1>1, <1>2, <1>3, <1>4, <1>5 DEF Next, Statement, SilentStatement, LeaseRunsOut, vars

-----------------------------------------------------------------------------
StoreInv == CallInv /\ CasAtomic /\ LogInv /\ ReplayInv /\ WatchInv

\* A store that was just opened on a new file.
LEMMA StoreInit == Init => StoreInv
  <1> USE Zenon
  <1> SUFFICES ASSUME Init PROVE StoreInv
    OBVIOUS
  <1>1. /\ DOMAIN kv = {} /\ DOMAIN events = {} /\ DOMAIN leases = {}
        /\ rev = 0 /\ floor = 0 /\ granted = 0 /\ faults = 0 /\ opened = 0
    BY DEF Init, EmptyMap
  <1>2. /\ lock \in [Handles -> Threads \cup {None}] /\ \A h \in Handles : lock[h] = None
        /\ seen \in [Handles -> Seq(Nat)] /\ \A h \in Handles : seen[h] = <<>>
    BY SMT DEF Init
  <1>3. th \in [Threads -> Calls] /\ \A t \in Threads : th[t] = Idle
    BY IdleCall DEF Init
  <1>4. \A t \in Threads : th[t].pc = "idle" /\ th[t].out = <<>> /\ ~Held(th[t])
    BY <1>3, IdleCall
  <1>5. CallInv
    <2>1. Shape
      BY <1>1, <1>2, <1>3 DEF Shape
    <2>2. Locked
      BY <1>2, <1>4, HandlesAssumption DEF Locked
    <2>3. \A t \in Threads : CallOk(th[t])
      BY <1>3, <1>4 DEF CallOk, Bumped
    <2> QED  BY <2>1, <2>2, <2>3 DEF CallInv
  <1>6. CasAtomic
    BY <1>4 DEF CasAtomic
  <1>7. LogInv
    BY <1>1, <1>4 DEF LogInv, LogNeverLies, ChangeOk, Bumped
  <1>8. LoggedUpTo = 0
    BY <1>1, <1>4 DEF LoggedUpTo, Changing, Bumped
  <1>9. ReplayInv
    BY <1>1, <1>8, SMT DEF ReplayInv, Replays
  <1>10. WatchInv
    <2>1. \A t \in Threads : \A i, r : ~WithThread(th, t, i, r)
      BY <1>4, SMT DEF WithThread
    <2>2. \A h \in Handles : \A i, r : ~WithWatcher(seen, h, i, r)
      BY <1>2, SMT DEF WithWatcher
    <2>3. AllPlaced
      BY <1>8, SMT DEF AllPlaced
    <2> QED  BY <1>1, <2>1, <2>2, <2>3
                DEF WatchInv, Places, SeenLogged, OutLogged, SeenOnce, OutOnce, SeenNotOut
  <1> QED
    BY <1>5, <1>6, <1>7, <1>9, <1>10 DEF StoreInv

\* StoreInv is inductive as long as the threads share one handle.
LEMMA StoreSteps == OneHandle /\ StoreInv /\ [Next]_vars => StoreInv'
  BY CallSteps, CasSteps, LogSteps, ReplaySteps, WatchSteps, Zenon DEF StoreInv

\* StoreInv in every reachable state of a store with one handle.
LEMMA StoreHolds ==
  ASSUME OneHandle
  PROVE  Spec => []StoreInv
  <1>1. StoreInv /\ [Next]_vars => StoreInv'
    BY StoreSteps, Zenon
  <1> QED
    BY <1>1, StoreInit, PTL DEF Spec

\* compare_and_swap is atomic: between its SELECT and its write no other
\* thread changes the row, since both run under one lock() of the Mutex, and
\* neither a failed statement nor a crash leaves a comparison behind.
THEOREM CasIsAtomic ==
  ASSUME OneHandle
  PROVE  Spec => []CasAtomic
  BY StoreHolds, PTL DEF StoreInv

\* A row's mod_revision is nobody else's, and the log never says of it
\* anything but the put of that key, across failed statements and crashes:
\* bump_rev is committed before the write that uses it.
THEOREM LogIsHonest ==
  ASSUME OneHandle
  PROVE  Spec => []LogNeverLies
  <1>1. StoreInv => LogNeverLies
    BY Zenon DEF StoreInv, LogInv
  <1> QED
    BY <1>1, StoreHolds, PTL

\* Without failed statements and crashes the log is gap free between calls
\* and replays into the table: put, delete, cas and the reaper bump, write
\* and append under one lock, and compact only cuts the log's beginning.
THEOREM OneRevision ==
  ASSUME OneHandle
  PROVE  Spec => []OneRevisionPerChange
  <1> USE Zenon
  <1>1. StoreInv => OneRevisionPerChange
    <2> SUFFICES ASSUME StoreInv, faults = 0, Quiet
                 PROVE  DOMAIN events = (floor + 1)..rev /\ ReplayMatches
      BY DEF OneRevisionPerChange
    <2>1. \A t \in Threads : th[t].pc \in {"idle", "broadcast"}
      BY HandlesAssumption, SMT DEF StoreInv, CallInv, Locked, Held, Quiet
    <2>2. ~Changing(th) /\ \A k : ~Dirty(th, k)
      BY <2>1 DEF Changing, Dirty, DirtyCall, Bumped
    <2>3. DOMAIN events = (floor + 1)..rev /\ Replays /\ floor \in Nat /\ rev \in Nat
      BY <2>2 DEF StoreInv, ReplayInv, LoggedUpTo, CallInv, Shape
    <2>4. \A k \in DOMAIN kv : kv[k].mod > floor => kv[k].mod \in DOMAIN events
      BY <2>3, SMT DEF StoreInv, LogInv
    <2>5. \A r \in DOMAIN events : LastOfKey(r) => (events[r].kind = "put" <=> ModOf(events[r].key) = r)
      BY <2>2, <2>3 DEF Replays
    <2> QED
      BY <2>3, <2>4, <2>5 DEF ReplayMatches
  <1> QED
    BY <1>1, StoreHolds, PTL

-----------------------------------------------------------------------------
(***************************************************************************)
(* Counting what a watcher received.                                       *)
(***************************************************************************)
LOCAL INSTANCE FiniteSetTheorems

\* A sequence that holds every number up to n once, and nothing else, has n
\* elements.
LEMMA CountOnce ==
  ASSUME NEW q \in Seq(Nat), NEW n \in Nat,
         \A r \in 1..n : \E i \in DOMAIN q : q[i] = r,
         \A i \in DOMAIN q : q[i] \in 1..n,
         \A i, j \in DOMAIN q : q[i] = q[j] => i = j
  PROVE  Len(q) = n /\ {q[i] : i \in DOMAIN q} = 1..n
  <1>1. DOMAIN q = 1..Len(q) /\ Len(q) \in Nat /\ q = [i \in 1..Len(q) |-> q[i]]
    OBVIOUS
  <1>2. q \in [1..Len(q) -> 1..n]
    BY <1>1, Zenon
  <1>3. q \in Bijection(1..Len(q), 1..n)
    BY <1>1, <1>2, Zenon DEF Bijection, Injection, IsInjective, Surjection
  <1>4. IsFiniteSet(1..Len(q)) /\ Cardinality(1..Len(q)) = Len(q) /\ Cardinality(1..n) = n
    <2>1. ASSUME NEW m \in Nat PROVE IsFiniteSet(1..m) /\ Cardinality(1..m) = m
      <3>1. 1 \in Int /\ m \in Int
        OBVIOUS
      <3>2. IsFiniteSet(1..m) /\ Cardinality(1..m) = IF 1 > m THEN 0 ELSE m - 1 + 1
        BY <3>1, FS_Interval, Zenon
      <3> QED  BY <3>2
    <2> QED  BY <1>1, <2>1, Zenon
  <1>5. Cardinality(1..n) = Cardinality(1..Len(q))
    BY <1>3, <1>4, FS_Bijection, Zenon DEF ExistsBijection
  <1> QED
    BY <1>4, <1>5

\* Once every call has returned, a watcher subscribed since the store was
\* opened has received each revision exactly once: a call that appended events
\* broadcasts all of them after releasing the lock, however the broadcasts of
\* the threads race.
THEOREM WatchersGetAll ==
  ASSUME OneHandle
  PROVE  Spec => []WatchComplete
  <1> USE Zenon
  <1>1. StoreInv => WatchComplete
    <2> SUFFICES ASSUME StoreInv, faults = 0, \A t \in Threads : At(t, "idle"), NEW h \in Handles
                 PROVE  /\ Len(seen[h]) = rev - opened
                        /\ {seen[h][i] : i \in DOMAIN seen[h]} = (opened + 1)..rev
      BY DEF WatchComplete
    <2>1. rev \in Nat /\ seen[h] \in Seq(Nat) /\ opened = 0 /\ Places
      BY DEF StoreInv, CallInv, Shape, WatchInv
    <2>2. \A t \in Threads : th[t].pc = "idle" /\ th[t].out = <<>>
      BY IdleCall DEF StoreInv, CallInv, CallOk, At
    <2>3. LoggedUpTo = rev
      BY <2>2 DEF LoggedUpTo, Changing, Bumped
    <2>4. \A t \in Threads : \A i, r : ~WithThread(th, t, i, r)
      BY <2>2, SMT DEF WithThread
    <2>5. DOMAIN seen[h] \subseteq Nat /\ \A i \in DOMAIN seen[h] : seen[h][i] \in Nat
      BY <2>1, SMT
    <2>6. \A r \in 1..rev : \E i \in DOMAIN seen[h] : seen[h][i] = r
      BY <2>1, <2>3, <2>4 DEF Places, AllPlaced, Received, WithWatcher
    <2>7. \A i \in DOMAIN seen[h] : seen[h][i] \in 1..rev
      BY <2>1, <2>3, <2>5 DEF Places, SeenLogged, WithWatcher
    <2>8. \A i, j \in DOMAIN seen[h] : seen[h][i] = seen[h][j] => i = j
      BY <2>1, <2>5 DEF Places, SeenOnce, WithWatcher
    <2>9. Len(seen[h]) = rev /\ {seen[h][i] : i \in DOMAIN seen[h]} = 1..rev
      BY <2>1, <2>6, <2>7, <2>8, CountOnce
    <2> QED
      BY <2>1, <2>9, SMT
  <1> QED
    BY <1>1, StoreHolds, PTL
=============================================================================
