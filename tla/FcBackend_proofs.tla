-------------------------- MODULE FcBackend_proofs --------------------------
(***************************************************************************)
(* The Firecracker backend of a node, for any set of sandboxes and any     *)
(* pool sizes: every VM has an owner, no two clones share an identity, the *)
(* snapshot of a paused sandbox survives every step, and without           *)
(* encryption nothing is written through a hard link.                      *)
(*                                                                         *)
(* The file system is a set of inodes; the proofs speak of names: which    *)
(* are there, what each holds, and whether its inode has another name.     *)
(***************************************************************************)
EXTENDS FcBackend, TLAPS

\* What is queued in a pool or in the making.
Elems(s) == {s[k] : k \in 1 .. Len(s)}

Distinct(s) == \A j, k \in 1 .. Len(s) : s[j] = s[k] => j = k

Held(q) == Elems(q.ready) \cup ({q.prep} \ {NoId})

Pool == [state : {"on", "off", "stopping"}, ready : Seq(Ids), prep : Ids \cup {NoId}]

PoolOk(q) ==
    /\ q \in Pool /\ Distinct(q.ready) /\ q.prep \notin Elems(q.ready)
    /\ q.state = "off" => Elems(q.ready) = {} /\ q.prep = NoId

Instance == [paused : BOOLEAN, net : BOOLEAN]

\* A directory has one owner: an instance or a pool.
PoolInv ==
    /\ pool \in [Pools -> Pool] /\ \A p \in Pools : PoolOk(pool[p])
    /\ Held(pool["warm"]) \cap Held(pool["hot"]) = {}
    /\ DOMAIN live \subseteq Ids /\ \A id \in DOMAIN live : live[id] \in Instance
    /\ \A p \in Pools : DOMAIN live \cap Held(pool[p]) = {}

VmInv ==
    /\ vm \in [Ids -> {"none", "parked", "running", "frozen"}]
    /\ \A id \in Ids :
        /\ vm[id] = "parked" => id \in Held(pool["hot"])
        /\ vm[id] \in {"running", "frozen"} => id \in DOMAIN live /\ ~live[id].paused

\* The pause in progress holds the lock on an instance that is not paused.
Pausing == op.step # "idle"

Sealing == op.step \in {"plain", "open", "done"}

OpInv ==
    /\ op \in [id : Ids \cup {NoId}, step : {"idle", "frozen", "plain", "open", "done"}, name : Names]
    /\ ~Pausing => op.id = NoId
    /\ op.step = "frozen" => op.name = "vmstate"
    /\ Pausing => op.id \in DOMAIN live /\ ~live[op.id].paused /\ snapKey = kms
    /\ Sealing => kms
    /\ kms \in BOOLEAN /\ (snapKey => kms)

MemInv == DOMAIN mem = Ids /\ \A id \in Ids : mem[id].of = id

-----------------------------------------------------------------------------
Named(f, x) == \E i \in f : x \in i.names

Holds(f, x, c) == \E i \in f : x \in i.names /\ i.data = c

Private(f, x) == \A i \in f : x \in i.names => i.names = {x}

InodeOf(c) == [names : SUBSET (Dirs \X Files), data : {c}]

\* A name has one inode, and the names of an inode are links to one file.
Sound(f) ==
    /\ \A i \in f : i \in InodeOf(i.data)
    /\ \A i, j \in f : i.names \cap j.names # {} => i = j
    /\ \A i \in f : \A x, y \in i.names : x[2] = y[2]

Owners == {Tmpl} \cup DOMAIN live \cup Held(pool["warm"]) \cup Held(pool["hot"])

FilesInv ==
    /\ Sound(fs)
    /\ \A x : Named(fs, x) => x[1] \in Owners

\* With encryption: who is paused, or about to be, shares no plaintext, and
\* the sealed files are shared within kin only.
PrivateInv ==
    kms => /\ \A id \in DOMAIN live : live[id].paused \/ op.id = id => \A n \in Names : Private(fs, <<id, n>>)
           /\ \A id \in Ids \ kin, n \in Names : Private(fs, <<id, Sealed(n)>>)

\* What the files of a pause in progress hold.
OpFiles ==
    /\ op.step = "frozen" => \A n \in Names : ~Named(fs, <<op.id, n>>)
    /\ Sealing =>
        /\ Holds(fs, <<op.id, op.name>>, mem[op.id]) /\ Holds(fs, <<op.id, "mem">>, mem[op.id])
        /\ op.name = "mem" => Holds(fs, <<op.id, "vmstate.enc">>, Seal(mem[op.id]))
        /\ op.step = "done" => Holds(fs, <<op.id, Sealed(op.name)>>, Seal(mem[op.id]))

PausedFiles ==
    \A id \in DOMAIN live : live[id].paused =>
        \A n \in Names : IF kms THEN id \notin kin => Holds(fs, <<id, Sealed(n)>>, Seal(mem[id]))
                         ELSE Holds(fs, <<id, n>>, mem[id])

-----------------------------------------------------------------------------
\* What an instance's and a pool's fields are.
LEMMA PoolFields ==
  ASSUME NEW q \in Pool
  PROVE  q.state \in {"on", "off", "stopping"} /\ q.ready \in Seq(Ids) /\ q.prep \in Ids \cup {NoId}
  BY Zenon DEF Pool

\* A pool whose head is taken.
LEMMA PoppedPool ==
  ASSUME PoolInv, NEW p \in Pools, pool[p].ready # <<>>, pool' = Popped(p)
  PROVE  /\ pool' \in [Pools -> Pool] /\ PoolOk(pool'[p])
         /\ pool'[p].state = pool[p].state /\ pool'[p].prep = pool[p].prep
         /\ Head(pool[p].ready) \in Held(pool[p]) /\ Held(pool[p]) \subseteq Ids
         /\ Held(pool'[p]) = Held(pool[p]) \ {Head(pool[p].ready)}
         /\ \A q \in Pools \ {p} : pool'[q] = pool[q]
  \* The head of a queue without duplicates is taken.
  <1> USE Zenon
  <1>tail. ASSUME NEW s \in Seq(Ids), s # <<>>, Distinct(s)
           PROVE  /\ Tail(s) \in Seq(Ids) /\ Distinct(Tail(s)) /\ Elems(Tail(s)) = Elems(s) \ {Head(s)}
                  /\ Head(s) \in Elems(s) /\ Elems(s) \subseteq Ids
    <2>1. Len(s) \in Nat \ {0} /\ Len(Tail(s)) = Len(s) - 1 /\ Tail(s) \in Seq(Ids) /\ Head(s) = s[1]
      BY <1>tail, SMT
    <2>2. \A k \in 1 .. Len(Tail(s)) : Tail(s)[k] = s[k + 1] /\ k + 1 \in 1 .. Len(s)
      BY <1>tail, <2>1, SMT
    <2>3. Distinct(Tail(s))
      BY <1>tail, <2>1, <2>2, SMT DEF Distinct
    <2>4. Elems(Tail(s)) \subseteq Elems(s) \ {s[1]}
      BY <1>tail, <2>1, <2>2, SMT DEF Elems, Distinct
    <2>5. Elems(s) \ {s[1]} \subseteq Elems(Tail(s))
      <3>1. ASSUME NEW k \in 1 .. Len(s), s[k] # s[1] PROVE s[k] \in Elems(Tail(s))
        <4>1. k - 1 \in 1 .. Len(Tail(s)) /\ (k - 1) + 1 = k
          BY <1>tail, <2>1, <3>1, SMT
        <4>2. Tail(s)[k - 1] = s[k]
          BY <1>tail, <2>2, <4>1
        <4> QED  BY <1>tail, <4>1, <4>2 DEF Elems
      <3> QED  BY <1>tail, <3>1 DEF Elems
    <2>6. s[1] \in Elems(s) /\ Elems(s) \subseteq Ids
      BY <1>tail, <2>1, SMT DEF Elems
    <2> QED
      BY <1>tail, <2>1, <2>3, <2>4, <2>5, <2>6
  <1>1. PICK x : x = [pool[p] EXCEPT !.ready = Tail(pool[p].ready)]
    OBVIOUS
  <1>2. pool' = [pool EXCEPT ![p] = x] /\ pool \in [Pools -> Pool] /\ PoolOk(pool[p])
    BY <1>1 DEF Popped, PoolInv
  <1>3. pool[p] \in Pool /\ pool[p].ready \in Seq(Ids) /\ pool[p].prep \in Ids \cup {NoId}
    BY <1>2, PoolFields DEF PoolOk
  <1>4. PICK s \in Seq(Ids) : s = pool[p].ready
    BY <1>3
  <1>5. /\ Tail(s) \in Seq(Ids) /\ Distinct(Tail(s)) /\ Elems(Tail(s)) = Elems(s) \ {Head(s)}
        /\ Head(s) \in Elems(s) /\ Elems(s) \subseteq Ids
    BY <1>2, <1>4, <1>tail DEF PoolOk
  <1>6. x \in Pool /\ x.ready = Tail(s) /\ x.state = pool[p].state /\ x.prep = pool[p].prep
    BY <1>1, <1>3, <1>4, <1>5 DEF Pool
  <1>7. PoolOk(x)
    BY <1>2, <1>4, <1>5, <1>6 DEF PoolOk
  <1>8. /\ Head(s) \in Held(pool[p]) /\ Held(pool[p]) \subseteq Ids /\ Held(x) = Held(pool[p]) \ {Head(s)}
    BY <1>2, <1>3, <1>4, <1>5, <1>6 DEF Held, PoolOk
  <1>9. pool' \in [Pools -> Pool] /\ pool'[p] = x /\ \A q \in Pools \ {p} : pool'[q] = pool[q]
    BY <1>2, <1>6
  <1> QED
    BY <1>4, <1>6, <1>7, <1>8, <1>9

\* A slot in the making is noted.
LEMMA PrepPool ==
  ASSUME PoolInv, NEW p \in Pools, NEW id \in Ids, id \notin Held(pool[p]),
         pool[p].prep = NoId, pool[p].state # "off", pool' = [pool EXCEPT ![p].prep = id]
  PROVE  /\ pool' \in [Pools -> Pool] /\ PoolOk(pool'[p]) /\ pool'[p].state = pool[p].state
         /\ Held(pool'[p]) = Held(pool[p]) \cup {id}
         /\ \A q \in Pools \ {p} : pool'[q] = pool[q]
  <1> USE Zenon
  <1>1. PICK x : x = [pool[p] EXCEPT !.prep = id]
    OBVIOUS
  <1>2. pool' = [pool EXCEPT ![p] = x] /\ pool \in [Pools -> Pool] /\ PoolOk(pool[p])
    BY <1>1 DEF PoolInv
  <1>3. pool[p] \in Pool /\ id \in Ids \cup {NoId} /\ id # NoId
    BY <1>2, FcAssumption DEF PoolOk
  <1>4. x \in Pool /\ x.ready = pool[p].ready /\ x.state = pool[p].state /\ x.prep = id
    BY <1>1, <1>3 DEF Pool
  <1>5. PoolOk(x) /\ Held(x) = Held(pool[p]) \cup {id}
    BY <1>2, <1>3, <1>4, SMT DEF PoolOk, Held
  <1>6. pool' \in [Pools -> Pool] /\ pool'[p] = x /\ \A q \in Pools \ {p} : pool'[q] = pool[q]
    BY <1>2, <1>4
  <1> QED
    BY <1>4, <1>5, <1>6

\* The slot in the making is queued.
LEMMA PushPool ==
  ASSUME PoolInv, NEW p \in Pools, pool[p].prep # NoId,
         pool' = [pool EXCEPT ![p] = [@ EXCEPT !.ready = Append(pool[p].ready, pool[p].prep), !.prep = NoId]]
  PROVE  /\ pool' \in [Pools -> Pool] /\ PoolOk(pool'[p]) /\ pool'[p].state = pool[p].state
         /\ Held(pool'[p]) = Held(pool[p])
         /\ \A q \in Pools \ {p} : pool'[q] = pool[q]
  \* A slot is queued.
  <1> USE Zenon
  <1>append. ASSUME NEW s \in Seq(Ids), Distinct(s), NEW x \in Ids, x \notin Elems(s)
             PROVE  /\ Append(s, x) \in Seq(Ids) /\ Distinct(Append(s, x))
                    /\ Elems(Append(s, x)) = Elems(s) \cup {x}
    <2>1. /\ Append(s, x) \in Seq(Ids) /\ Len(s) \in Nat /\ Len(Append(s, x)) = Len(s) + 1
          /\ \A k \in 1 .. Len(s) : Append(s, x)[k] = s[k]
          /\ Append(s, x)[Len(s) + 1] = x
      BY <1>append, SMT
    <2>2. \A k \in 1 .. Len(Append(s, x)) : k \in 1 .. Len(s) \/ k = Len(s) + 1
      BY <1>append, <2>1, SMT
    <2>3. \A k \in 1 .. Len(s) : s[k] # x
      BY <1>append DEF Elems
    <2>4. Distinct(Append(s, x))
      BY <1>append, <2>1, <2>2, <2>3 DEF Distinct
    <2>5. Elems(Append(s, x)) \subseteq Elems(s) \cup {x}
      BY <1>append, <2>1, <2>2 DEF Elems
    <2>6. Elems(s) \cup {x} \subseteq Elems(Append(s, x))
      <3>1. \A k \in 1 .. Len(s) : k \in 1 .. Len(Append(s, x))
        BY <1>append, <2>1, SMT
      <3>2. Len(s) + 1 \in 1 .. Len(Append(s, x))
        BY <1>append, <2>1, SMT
      <3> QED  BY <1>append, <2>1, <3>1, <3>2, SMT DEF Elems
    <2> QED
      BY <1>append, <2>1, <2>4, <2>5, <2>6
  <1>1. PICK x : x = [pool[p] EXCEPT !.ready = Append(pool[p].ready, pool[p].prep), !.prep = NoId]
    OBVIOUS
  <1>2. pool' = [pool EXCEPT ![p] = x] /\ pool \in [Pools -> Pool] /\ PoolOk(pool[p])
    BY <1>1 DEF PoolInv
  <1>3. pool[p] \in Pool /\ pool[p].ready \in Seq(Ids) /\ pool[p].prep \in Ids /\ pool[p].state # "off"
    BY <1>2, PoolFields DEF PoolOk
  <1>4. PICK s \in Seq(Ids), y \in Ids : s = pool[p].ready /\ y = pool[p].prep
    BY <1>3
  <1>5. Append(s, y) \in Seq(Ids) /\ Distinct(Append(s, y)) /\ Elems(Append(s, y)) = Elems(s) \cup {y}
    BY <1>2, <1>4, <1>append DEF PoolOk
  <1>6. x \in Pool /\ x.ready = Append(s, y) /\ x.state = pool[p].state /\ x.prep = NoId
    <2>1. x = [pool[p] EXCEPT !.ready = Append(s, y), !.prep = NoId] /\ NoId \in Ids \cup {NoId}
      BY <1>1, <1>4
    <2> QED  BY <1>3, <1>5, <2>1 DEF Pool
  <1>7. Elems(s) \subseteq Ids
    BY SMT DEF Elems
  <1>8. PoolOk(x)
    BY <1>3, <1>4, <1>5, <1>6, <1>7, FcAssumption DEF PoolOk
  <1>9. Held(x) = Held(pool[p])
    BY <1>3, <1>4, <1>5, <1>6, FcAssumption DEF Held
  <1>10. pool' \in [Pools -> Pool] /\ pool'[p] = x /\ \A q \in Pools \ {p} : pool'[q] = pool[q]
    BY <1>2, <1>6
  <1> QED
    BY <1>6, <1>8, <1>9, <1>10

\* A pool is asked to stop, or starts.
LEMMA StatePool ==
  ASSUME PoolInv, NEW p \in Pools, NEW l \in {"on", "stopping"}, pool' = [pool EXCEPT ![p].state = l]
  PROVE  /\ pool' \in [Pools -> Pool] /\ PoolOk(pool'[p]) /\ Held(pool'[p]) = Held(pool[p])
         /\ \A q \in Pools \ {p} : pool'[q] = pool[q]
  <1> USE Zenon
  <1>1. PICK x : x = [pool[p] EXCEPT !.state = l]
    OBVIOUS
  <1>2. pool' = [pool EXCEPT ![p] = x] /\ pool \in [Pools -> Pool] /\ PoolOk(pool[p])
    BY <1>1 DEF PoolInv
  <1>3. pool[p] \in Pool /\ l \in {"on", "off", "stopping"}
    BY <1>2 DEF PoolOk
  <1>4. x \in Pool /\ x.ready = pool[p].ready /\ x.state = l /\ x.prep = pool[p].prep
    BY <1>1, <1>3 DEF Pool
  <1>5. PoolOk(x) /\ Held(x) = Held(pool[p])
    BY <1>2, <1>4 DEF PoolOk, Held
  <1>6. pool' \in [Pools -> Pool] /\ pool'[p] = x /\ \A q \in Pools \ {p} : pool'[q] = pool[q]
    BY <1>2, <1>4
  <1> QED
    BY <1>5, <1>6

\* A pool that has joined its thread is drained.
LEMMA DrainedPool ==
  ASSUME PoolInv, NEW p \in Pools, pool[p].prep = NoId,
         pool' = [pool EXCEPT ![p] = [@ EXCEPT !.state = "off", !.ready = <<>>]]
  PROVE  /\ pool' \in [Pools -> Pool] /\ PoolOk(pool'[p]) /\ Held(pool'[p]) = {}
         /\ \A q \in Pools \ {p} : pool'[q] = pool[q]
  <1> USE Zenon
  <1>1. PICK x : x = [pool[p] EXCEPT !.state = "off", !.ready = <<>>]
    OBVIOUS
  <1>2. pool' = [pool EXCEPT ![p] = x] /\ pool \in [Pools -> Pool] /\ PoolOk(pool[p])
    BY <1>1 DEF PoolInv
  <1>3. pool[p] \in Pool /\ "off" \in {"on", "off", "stopping"} /\ <<>> \in Seq(Ids)
    BY <1>2, SMT DEF PoolOk
  <1>4. x \in Pool /\ x.ready = <<>> /\ x.state = "off" /\ x.prep = NoId
    BY <1>1, <1>3 DEF Pool
  <1>5. Elems(<<>>) = {} /\ Distinct(<<>>)
    BY SMT DEF Elems, Distinct
  <1>6. PoolOk(x) /\ Held(x) = {}
    BY <1>4, <1>5, FcAssumption DEF PoolOk, Held
  <1>7. pool' \in [Pools -> Pool] /\ pool'[p] = x /\ \A q \in Pools \ {p} : pool'[q] = pool[q]
    BY <1>2, <1>4
  <1> QED
    BY <1>6, <1>7

\* register_inst
LEMMA Registered ==
  ASSUME NEW id, NEW net \in BOOLEAN, live' = Register(id, net)
  PROVE  /\ DOMAIN live' = DOMAIN live \cup {id} /\ live'[id] \in Instance
         /\ ~live'[id].paused /\ live'[id].net = net
         /\ \A j \in DOMAIN live \ {id} : live'[j] = live[j]
  <1> USE Zenon
  <1>1. PICK x : x = [paused |-> FALSE, net |-> net]
    OBVIOUS
  <1>2. live' = Bind(live, id, x)
    BY <1>1 DEF Register
  <1>3. x \in Instance /\ ~x.paused /\ x.net = net
    BY <1>1 DEF Instance
  <1>4. DOMAIN live' = DOMAIN live \cup {id} /\ live'[id] = x /\ \A j \in DOMAIN live \ {id} : live'[j] = live[j]
    BY <1>2 DEF Bind
  <1> QED
    BY <1>3, <1>4

\* An instance is paused or resumed.
LEMMA PausedSet ==
  ASSUME NEW id \in DOMAIN live, live[id] \in Instance, NEW b \in BOOLEAN,
         live' = [live EXCEPT ![id].paused = b]
  PROVE  /\ DOMAIN live' = DOMAIN live /\ live'[id] \in Instance /\ live'[id].paused = b
         /\ live'[id].net = live[id].net
         /\ \A j \in DOMAIN live \ {id} : live'[j] = live[j]
  <1> USE Zenon
  <1>1. PICK x : x = [live[id] EXCEPT !.paused = b]
    OBVIOUS
  <1>2. live' = [live EXCEPT ![id] = x]
    BY <1>1
  <1>3. x \in Instance /\ x.paused = b /\ x.net = live[id].net
    BY <1>1 DEF Instance
  <1>4. DOMAIN live' = DOMAIN live /\ live'[id] = x /\ \A j \in DOMAIN live \ {id} : live'[j] = live[j]
    BY <1>2
  <1> QED
    BY <1>3, <1>4

-----------------------------------------------------------------------------
\* A new sandbox is registered and runs, or did not come to be.
Comes(id) ==
    /\ \E net \in BOOLEAN : live' = Register(id, net)
    /\ vm' = [vm EXCEPT ![id] = "running"]
    /\ \E g : mem' = [mem EXCEPT ![id] = Guest(id, g)]

ComesNot(id) ==
    UNCHANGED <<live, mem>> /\ (UNCHANGED vm \/ vm' = [vm EXCEPT ![id] = "none"])

\* No pool holds it any longer; the hot pool loses nothing else.
Yields(id) ==
    /\ pool' \in [Pools -> Pool] /\ \A p \in Pools : PoolOk(pool'[p])
    /\ \A p \in Pools : Held(pool'[p]) \subseteq Held(pool[p]) \ {id}
    /\ Held(pool["hot"]) \ {id} \subseteq Held(pool'["hot"])

\* restore_core registers the instance, or leaves no trace in the tables.
LEMMA RestoreTables ==
  ASSUME NEW id, NEW f, RestoreInto(id, f)
  PROVE  (Comes(id) \/ ComesNot(id)) /\ (UNCHANGED vm \/ vm' = [vm EXCEPT ![id] = "running"])
  <1> USE Zenon
  <1>1. FALSE \in BOOLEAN
    OBVIOUS
  <1> QED
    BY <1>1 DEF RestoreInto, Comes, ComesNot, Reinit

\* A directory that is fresh belongs to nobody.
LEMMA FreshIsNew ==
  ASSUME NEW id \in Ids, Fresh(id)
  PROVE  id \notin DOMAIN live /\ \A p \in Pools : id \notin Held(pool[p])
  BY FcAssumption, Zenon DEF Fresh, Held, Elems, Slots

\* Nothing is taken from a pool.
LEMMA YieldsNone ==
  ASSUME PoolInv, UNCHANGED pool, NEW id, \A p \in Pools : id \notin Held(pool[p])
  PROVE  Yields(id)
  BY Zenon DEF Yields, PoolInv

\* The head of a pool is taken.
LEMMA YieldsHead ==
  ASSUME PoolInv, NEW p \in Pools, NEW id, PoolHit(p, id), pool' = Popped(p)
  PROVE  /\ Yields(id) /\ id \in Held(pool[p]) /\ id \in Ids /\ id \notin DOMAIN live
         /\ \A q \in Pools \ {p} : pool'[q] = pool[q] /\ id \notin Held(pool[q])
         /\ Held(pool'[p]) = Held(pool[p]) \ {id}
  <1> USE Zenon
  <1>1. pool[p].ready # <<>> /\ id = Head(pool[p].ready)
    BY DEF PoolHit
  <1>2. /\ pool' \in [Pools -> Pool] /\ PoolOk(pool'[p])
        /\ id \in Held(pool[p]) /\ Held(pool[p]) \subseteq Ids
        /\ Held(pool'[p]) = Held(pool[p]) \ {id}
        /\ \A q \in Pools \ {p} : pool'[q] = pool[q]
    BY <1>1, PoppedPool
  <1>3. id \notin DOMAIN live /\ \A q \in Pools \ {p} : id \notin Held(pool[q])
    BY <1>2 DEF PoolInv, Pools
  <1>4. \A q \in Pools : PoolOk(pool'[q])
    BY <1>2 DEF PoolInv
  <1>5. \A q \in Pools : Held(pool'[q]) = Held(pool[q]) \ {id}
    BY <1>2, <1>3
  <1>6. Yields(id)
    BY <1>2, <1>4, <1>5 DEF Yields, Pools
  <1> QED
    BY <1>2, <1>3, <1>6

-----------------------------------------------------------------------------
OwnInv == PoolInv /\ VmInv /\ MemInv /\ OpInv

\* The backend starts with no instance, no VM and empty pools.
LEMMA OwnInit == Init => OwnInv
  <1> USE Zenon
  <1> SUFFICES ASSUME Init PROVE OwnInv
    OBVIOUS
  <1>1. pool \in [Pools -> Pool] /\ \A p \in Pools : pool[p].ready = <<>> /\ pool[p].prep = NoId
    <2>1. ASSUME NEW p \in Pools PROVE pool[p] \in Pool /\ pool[p].ready = <<>> /\ pool[p].prep = NoId
      <3>1. PICK l : l = IF Target[p] = 0 THEN "off" ELSE "on"
        OBVIOUS
      <3>2. l \in {"on", "off", "stopping"} /\ <<>> \in Seq(Ids) /\ NoId \in Ids \cup {NoId}
        BY <3>1, SMT
      <3>3. pool[p] = [state |-> l, ready |-> <<>>, prep |-> NoId]
        BY <3>1 DEF Init
      <3> QED  BY <3>2, <3>3, SMT DEF Pool
    <2>2. DOMAIN pool = Pools /\ pool = [p \in Pools |-> pool[p]]
      BY DEF Init
    <2> QED  BY <2>1, <2>2
  <1>2. Elems(<<>>) = {} /\ Distinct(<<>>)
    BY SMT DEF Elems, Distinct
  <1>3. DOMAIN live = {}
    BY DEF Init, EmptyMap
  <1>4. \A p \in Pools : PoolOk(pool[p]) /\ Held(pool[p]) = {}
    BY <1>1, <1>2 DEF PoolOk, Held
  <1>5. PoolInv
    BY <1>1, <1>3, <1>4 DEF PoolInv, Pools
  <1>6. VmInv /\ MemInv
    BY DEF Init, VmInv, MemInv, Guest
  <1>7. op \in [id : Ids \cup {NoId}, step : {"idle", "frozen", "plain", "open", "done"}, name : Names]
        /\ op.id = NoId /\ op.step = "idle"
    BY DEF Init, NoOp, Names
  <1>8. OpInv
    BY <1>7 DEF Init, OpInv, Pausing, Sealing
  <1> QED
    BY <1>5, <1>6, <1>8 DEF OwnInv

\* Every step keeps each directory, VM and lock with its one owner.
LEMMA OwnStep == OwnInv /\ [Next]_vars => OwnInv'
  <1> USE Zenon
  <1> SUFFICES ASSUME PoolInv, VmInv, MemInv, OpInv, [Next]_vars PROVE OwnInv'
    BY DEF OwnInv
  \* create and fork: the tables after them.
  <1>comes. ASSUME NEW id \in Ids, id \notin DOMAIN live, Yields(id),
                   Comes(id) \/ ComesNot(id), vm'[id] # "parked"
            PROVE  PoolInv' /\ VmInv' /\ MemInv'
    <2>1. CASE Comes(id)
      <3>1. PICK net \in BOOLEAN : live' = Register(id, net)
        BY <1>comes, <2>1 DEF Comes
      <3>2. /\ DOMAIN live' = DOMAIN live \cup {id} /\ live'[id] \in Instance /\ ~live'[id].paused
            /\ \A j \in DOMAIN live \ {id} : live'[j] = live[j]
        BY <1>comes, <3>1, Registered
      <3>3. PoolInv'
        BY <1>comes, <3>2 DEF PoolInv, Yields, Pools
      <3>4. vm' \in [Ids -> {"none", "parked", "running", "frozen"}] /\ vm'[id] = "running"
            /\ \A j \in Ids \ {id} : vm'[j] = vm[j]
        BY <1>comes, <2>1 DEF Comes, VmInv
      <3>5. VmInv'
        BY <1>comes, <3>2, <3>4 DEF VmInv, Yields, Pools
      <3>6. PICK h : mem' = [mem EXCEPT ![id] = Guest(id, h)]
        BY <1>comes, <2>1 DEF Comes
      <3>7. MemInv'
        BY <1>comes, <3>6 DEF MemInv, Guest
      <3> QED  BY <1>comes, <3>3, <3>5, <3>7
    <2>2. CASE ComesNot(id)
      <3>1. PoolInv' /\ MemInv'
        BY <1>comes, <2>2 DEF ComesNot, PoolInv, MemInv, Yields, Pools
      <3>2. VmInv'
        BY <1>comes, <2>2 DEF ComesNot, VmInv, Yields, Pools
      <3> QED  BY <1>comes, <3>1, <3>2
    <2> QED
      BY <1>comes, <2>1, <2>2
  \* create from the hot pool.
  <1>hot. ASSUME NEW id \in Ids, CreateHot(id)
          PROVE  PoolInv' /\ VmInv' /\ MemInv'
    <2>1. "hot" \in Pools /\ FALSE \in BOOLEAN
      BY <1>hot DEF Pools
    <2>2. Yields(id) /\ id \notin DOMAIN live
      BY <1>hot, <2>1, YieldsHead DEF CreateHot
    <2>3. Comes(id) \/ (ComesNot(id) /\ vm' = [vm EXCEPT ![id] = "none"])
      BY <1>hot, <2>1 DEF CreateHot, Comes, ComesNot, Reinit
    <2>4. vm'[id] # "parked"
      BY <1>hot, <2>3 DEF Comes, VmInv
    <2> QED
      BY <1>hot, <2>2, <2>3, <2>4, <1>comes
  \* create from the warm pool.
  <1>warm. ASSUME NEW id \in Ids, CreateWarm(id)
           PROVE  PoolInv' /\ VmInv' /\ MemInv'
    <2>1. "warm" \in Pools /\ "hot" \in Pools \ {"warm"}
      BY <1>warm DEF Pools
    <2>2. Yields(id) /\ id \notin DOMAIN live /\ id \notin Held(pool["hot"])
      BY <1>warm, <2>1, YieldsHead DEF CreateWarm
    <2>3. (Comes(id) \/ ComesNot(id)) /\ (UNCHANGED vm \/ vm' = [vm EXCEPT ![id] = "running"])
      BY <1>warm, RestoreTables DEF CreateWarm
    <2>4. vm'[id] # "parked"
      BY <1>warm, <2>2, <2>3 DEF VmInv
    <2> QED
      BY <1>warm, <2>2, <2>3, <2>4, <1>comes
  \* create_egress.
  <1>egress. ASSUME NEW id \in Ids, CreateEgress(id)
             PROVE  PoolInv' /\ VmInv' /\ MemInv'
    <2>1. TRUE \in BOOLEAN
      BY <1>egress
    <2>2. id \notin DOMAIN live /\ Yields(id)
      BY <1>egress, FreshIsNew, YieldsNone DEF CreateEgress
    <2>3. Comes(id)
      BY <1>egress, <2>1 DEF CreateEgress, Comes, Reinit
    <2>4. vm'[id] # "parked"
      BY <1>egress, <2>3 DEF Comes, VmInv
    <2> QED
      BY <1>egress, <2>2, <2>3, <2>4, <1>comes
  \* create by the cold path, past a warm slot that could not be used.
  <1>cold. ASSUME NEW id \in Ids, CreateCold(id)
           PROVE  PoolInv' /\ VmInv' /\ MemInv'
    <2>0. "warm" \in Pools /\ "hot" \in Pools \ {"warm"} /\ "hot" \in Pools
      BY <1>cold DEF Pools
    <2>1. id \notin DOMAIN live /\ \A p \in Pools : id \notin Held(pool[p])
      BY <1>cold, FreshIsNew DEF CreateCold
    <2>2. PICK bad, f :
            /\ bad \in {NoId} \cup Ids
            /\ IF bad = NoId THEN UNCHANGED pool ELSE PoolHit("warm", bad) /\ pool' = Popped("warm")
            /\ RestoreInto(id, LinkBoth(f, Tmpl, id)) \/ UNCHANGED <<vm, mem, live>>
      BY <1>cold DEF CreateCold
    <2>3. (Comes(id) \/ ComesNot(id)) /\ (UNCHANGED vm \/ vm' = [vm EXCEPT ![id] = "running"])
      BY <1>cold, <2>2, RestoreTables DEF ComesNot
    <2>4. vm'[id] # "parked"
      BY <1>cold, <2>0, <2>1, <2>3 DEF VmInv
    <2>5. CASE bad = NoId
      BY <1>cold, <2>1, <2>2, <2>3, <2>4, <2>5, YieldsNone, <1>comes
    <2>6. CASE bad # NoId
      <3>1. Yields(bad) /\ pool'["hot"] = pool["hot"]
        BY <1>cold, <2>0, <2>2, <2>6, YieldsHead
      <3>2. Yields(id)
        BY <1>cold, <2>0, <2>1, <3>1 DEF Yields
      <3> QED  BY <1>cold, <2>1, <2>3, <2>4, <3>2, <1>comes
    <2> QED
      BY <1>cold, <2>5, <2>6
  \* fork
  <1>fork. ASSUME NEW id \in Ids, NEW new \in Ids, Fork(id, new)
           PROVE  PoolInv' /\ VmInv' /\ MemInv'
    <2>1. "hot" \in Pools
      BY <1>fork DEF Pools
    <2>2. new \notin DOMAIN live /\ Yields(new) /\ \A p \in Pools : new \notin Held(pool[p])
      BY <1>fork, FreshIsNew, YieldsNone DEF Fork
    <2>3. (\E f : RestoreInto(new, f)) \/ UNCHANGED <<vm, mem, live>>
      BY <1>fork DEF Fork
    <2>4. (Comes(new) \/ ComesNot(new)) /\ (UNCHANGED vm \/ vm' = [vm EXCEPT ![new] = "running"])
      BY <1>fork, <2>3, RestoreTables DEF ComesNot
    <2>5. vm'[new] # "parked"
      BY <1>fork, <2>1, <2>2, <2>4 DEF VmInv
    <2> QED
      BY <1>fork, <2>2, <2>4, <2>5, <1>comes
  \* destroy
  <1>destroy. ASSUME NEW id \in Ids, Destroy(id)
              PROVE  PoolInv' /\ VmInv' /\ MemInv'
    <2>1. /\ DOMAIN live' = DOMAIN live \ {id}
          /\ \A j \in DOMAIN live \ {id} : live'[j] = live[j]
      BY <1>destroy DEF Destroy, Drop
    <2>2. vm' \in [Ids -> {"none", "parked", "running", "frozen"}] /\ vm'[id] = "none"
          /\ \A j \in Ids \ {id} : vm'[j] = vm[j]
      BY <1>destroy DEF Destroy, VmInv
    <2>3. UNCHANGED pool /\ mem' = [mem EXCEPT ![id] = Guest(id, 0)]
      BY <1>destroy DEF Destroy
    <2>4. PoolInv'
      BY <1>destroy, <2>1, <2>3 DEF PoolInv
    <2>5. VmInv'
      BY <1>destroy, <2>1, <2>2, <2>3 DEF VmInv
    <2>6. MemInv'
      BY <1>destroy, <2>3 DEF MemInv, Guest
    <2> QED
      BY <1>destroy, <2>4, <2>5, <2>6
  \* resume
  <1>resume. ASSUME NEW id \in Ids, Resume(id)
             PROVE  PoolInv' /\ VmInv' /\ MemInv'
    <2>1. UNCHANGED pool /\ id \in DOMAIN live /\ live[id] \in Instance
      BY <1>resume DEF Resume, PoolInv
    <2>2. \/ UNCHANGED <<vm, mem, live>>
          \/ /\ vm' = [vm EXCEPT ![id] = "running"]
             /\ \E g : mem' = [mem EXCEPT ![id] = Guest(id, g)]
             /\ live' = [live EXCEPT ![id].paused = FALSE]
      BY <1>resume DEF Resume, Reinit
    <2>3. CASE UNCHANGED <<vm, mem, live>>
      BY <1>resume, <2>1, <2>3 DEF PoolInv, VmInv, MemInv
    <2>4. CASE /\ vm' = [vm EXCEPT ![id] = "running"]
               /\ \E g : mem' = [mem EXCEPT ![id] = Guest(id, g)]
               /\ live' = [live EXCEPT ![id].paused = FALSE]
      <3>1. /\ DOMAIN live' = DOMAIN live /\ live'[id] \in Instance /\ live'[id].paused = FALSE
            /\ \A j \in DOMAIN live \ {id} : live'[j] = live[j]
        BY <1>resume, <2>1, <2>4, PausedSet
      <3>2. PoolInv'
        BY <1>resume, <2>1, <3>1 DEF PoolInv
      <3>3. vm' \in [Ids -> {"none", "parked", "running", "frozen"}] /\ vm'[id] = "running"
            /\ \A j \in Ids \ {id} : vm'[j] = vm[j]
        BY <1>resume, <2>4 DEF VmInv
      <3>4. VmInv'
        BY <1>resume, <2>1, <3>1, <3>3 DEF VmInv
      <3>5. MemInv'
        BY <1>resume, <2>4, SMT DEF MemInv, Guest
      <3> QED  BY <1>resume, <3>2, <3>4, <3>5
    <2> QED
      BY <1>resume, <2>2, <2>3, <2>4
  \* The tables when only the VM of an instance that is not paused changes.
  <1>vm. ASSUME UNCHANGED <<live, pool, mem>>,
                NEW id \in DOMAIN live, ~live[id].paused, NEW s \in {"none", "running", "frozen"},
                vm' = [vm EXCEPT ![id] = s]
         PROVE  PoolInv' /\ VmInv' /\ MemInv'
    <2>1. PoolInv' /\ MemInv' /\ id \in Ids
      BY <1>vm DEF PoolInv, MemInv
    <2>2. vm' \in [Ids -> {"none", "parked", "running", "frozen"}] /\ vm'[id] = s
          /\ \A j \in Ids \ {id} : vm'[j] = vm[j]
      BY <1>vm, <2>1 DEF VmInv
    <2> QED
      BY <1>vm, <2>1, <2>2 DEF VmInv
  \* The tables when nothing of them changes.
  <1>kept. ASSUME UNCHANGED <<live, pool, vm, mem>>
           PROVE  PoolInv' /\ VmInv' /\ MemInv'
    BY <1>kept DEF PoolInv, VmInv, MemInv
  \* pause, when the VM is killed at its end.
  <1>paused. ASSUME UNCHANGED <<pool, mem>>, NEW id \in DOMAIN live, Paused(id)
             PROVE  PoolInv' /\ VmInv' /\ MemInv'
    <2>1. id \in Ids /\ live[id] \in Instance /\ TRUE \in BOOLEAN
      BY <1>paused DEF PoolInv
    <2>2. /\ DOMAIN live' = DOMAIN live /\ live'[id] \in Instance
          /\ \A j \in DOMAIN live \ {id} : live'[j] = live[j]
      BY <1>paused, <2>1, PausedSet DEF Paused
    <2>3. vm' \in [Ids -> {"none", "parked", "running", "frozen"}] /\ vm'[id] = "none"
          /\ \A j \in Ids \ {id} : vm'[j] = vm[j]
      BY <1>paused, <2>1 DEF VmInv, Paused
    <2>4. PoolInv'
      BY <1>paused, <2>2 DEF PoolInv
    <2>5. VmInv'
      BY <1>paused, <2>2, <2>3 DEF VmInv
    <2> QED
      BY <1>paused, <2>4, <2>5 DEF MemInv
  \* The steps of a pause.
  <1>pause. ASSUME OpInv,
                   (\E id \in Ids : PauseStart(id)) \/ PauseSnapshot \/ SealOpen \/ SealWrite \/ SealShred \/ SealFail
            PROVE  PoolInv' /\ VmInv' /\ MemInv'
    <2>1. ASSUME NEW id \in Ids, PauseStart(id) PROVE PoolInv' /\ VmInv' /\ MemInv'
      <3>1. id \in DOMAIN live /\ ~live[id].paused /\ UNCHANGED <<live, pool, mem>>
            /\ (vm' = [vm EXCEPT ![id] = "frozen"] \/ UNCHANGED vm)
        BY <1>pause, <2>1 DEF PauseStart
      <3>2. "frozen" \in {"none", "running", "frozen"}
        BY <1>pause
      <3> QED  BY <1>pause, <3>1, <3>2, <1>vm, <1>kept
    <2>2. Pausing => op.id \in DOMAIN live /\ ~live[op.id].paused
      BY <1>pause DEF OpInv
    <2>3. CASE PauseSnapshot
      <3>1. Pausing /\ UNCHANGED <<pool, mem>> /\ (Paused(op.id) \/ UNCHANGED <<vm, live>>)
        BY <1>pause, <2>3 DEF PauseSnapshot, Pausing
      <3> QED  BY <1>pause, <2>2, <3>1, <1>paused, <1>kept
    <2>4. CASE SealOpen \/ SealWrite
      BY <1>pause, <2>4, <1>kept DEF SealOpen, SealWrite
    <2>5. CASE SealShred
      <3>1. Pausing /\ UNCHANGED <<pool, mem>> /\ (Paused(op.id) \/ UNCHANGED <<vm, live>>)
        BY <1>pause, <2>5 DEF SealShred, Pausing
      <3> QED  BY <1>pause, <2>2, <3>1, <1>paused, <1>kept
    <2>6. CASE SealFail
      <3>1. PICK s \in {"running", "none"} : vm' = [vm EXCEPT ![op.id] = s]
        BY <1>pause, <2>6 DEF SealFail
      <3>2. Pausing /\ UNCHANGED <<live, pool, mem>> /\ s \in {"none", "running", "frozen"}
        BY <1>pause, <2>6 DEF SealFail, Pausing
      <3> QED  BY <1>pause, <2>2, <3>1, <3>2, <1>vm
    <2> QED
      BY <1>pause, <2>1, <2>3, <2>4, <2>5, <2>6
  \* The refill threads, and starting and stopping a pool.
  <1>pools. ASSUME NEW p \in Pools,
                   (\E id \in Ids : RefillPrep(p, id)) \/ RefillPush(p) \/ PoolStop(p) \/ PoolDrain(p) \/ PoolStart(p)
            PROVE  PoolInv' /\ VmInv' /\ MemInv'
    <2>1. UNCHANGED <<live, mem>> /\ MemInv'
      BY <1>pools DEF RefillPrep, RefillPush, PoolStop, PoolDrain, PoolStart, MemInv
    <2>2. ASSUME NEW id \in Ids, RefillPrep(p, id) PROVE PoolInv' /\ VmInv'
      <3>1. id \notin DOMAIN live /\ \A q \in Pools : id \notin Held(pool[q])
        BY <1>pools, <2>2, FreshIsNew DEF RefillPrep
      <3>2. /\ pool' \in [Pools -> Pool] /\ PoolOk(pool'[p])
            /\ Held(pool'[p]) = Held(pool[p]) \cup {id}
            /\ \A q \in Pools \ {p} : pool'[q] = pool[q]
        <4>1. pool[p].prep = NoId /\ pool[p].state # "off" /\ pool' = [pool EXCEPT ![p].prep = id]
          BY <1>pools, <2>2 DEF RefillPrep
        <4> QED  BY <1>pools, <3>1, <4>1, PrepPool
      <3>3. PoolInv'
        BY <1>pools, <2>1, <3>1, <3>2, SMT DEF PoolInv, Pools
      <3>4. vm' = IF p = "hot" THEN [vm EXCEPT ![id] = "parked"] ELSE vm
        BY <1>pools, <2>2 DEF RefillPrep
      <3>5. VmInv'
        BY <1>pools, <2>1, <3>1, <3>2, <3>4 DEF VmInv, Pools
      <3> QED  BY <1>pools, <3>3, <3>5
    <2>3. ASSUME UNCHANGED vm, pool' \in [Pools -> Pool], PoolOk(pool'[p]), Held(pool'[p]) = Held(pool[p]),
                 \A q \in Pools \ {p} : pool'[q] = pool[q]
          PROVE  PoolInv' /\ VmInv'
      BY <1>pools, <2>1, <2>3 DEF PoolInv, VmInv, Pools
    <2>4. CASE RefillPush(p)
      BY <1>pools, <2>1, <2>3, <2>4, PushPool DEF RefillPush
    <2>5. CASE PoolStop(p) \/ PoolStart(p)
      <3>1. "on" \in {"on", "stopping"} /\ "stopping" \in {"on", "stopping"}
        BY <1>pools
      <3> QED  BY <1>pools, <2>1, <2>3, <2>5, <3>1, StatePool DEF PoolStop, PoolStart
    <2>6. CASE PoolDrain(p)
      <3>1. /\ pool' \in [Pools -> Pool] /\ PoolOk(pool'[p]) /\ Held(pool'[p]) = {}
            /\ \A q \in Pools \ {p} : pool'[q] = pool[q]
        BY <1>pools, <2>6, DrainedPool DEF PoolDrain
      <3>2. PoolInv'
        BY <1>pools, <2>1, <3>1 DEF PoolInv, Pools
      <3>3. Slots(p) = Held(pool[p]) /\ vm' = [i \in Ids |-> IF i \in Slots(p) THEN "none" ELSE vm[i]]
        BY <1>pools, <2>6 DEF PoolDrain, Slots, Held, Elems
      <3>4. VmInv'
        BY <1>pools, <2>1, <3>1, <3>3 DEF VmInv, Pools
      <3> QED  BY <1>pools, <2>1, <3>2, <3>4
    <2> QED
      BY <1>pools, <2>1, <2>2, <2>4, <2>5, <2>6
  \* An operation that holds the lock from its start to its end, and a thread
  \* that does not touch what the lock covers, leave the pause in progress alone.
  <1>lock. ASSUME UNCHANGED <<op, kms>>,
                  \/ Unlocked /\ snapKey' \in {snapKey, kms}
                  \/ UNCHANGED <<snapKey, live>>
           PROVE  OpInv'
    <2>1. CASE Unlocked /\ snapKey' \in {snapKey, kms}
      BY <1>lock, <2>1, SMT DEF OpInv, Pausing, Sealing, Unlocked
    <2>2. CASE UNCHANGED <<snapKey, live>>
      BY <1>lock, <2>2 DEF OpInv, Pausing, Sealing
    <2> QED
      BY <1>lock, <2>1, <2>2
  \* The end of a pause.
  <1>over. ASSUME op' = NoOp, UNCHANGED <<kms, snapKey>>
           PROVE  OpInv'
    <2>1. op' \in [id : Ids \cup {NoId}, step : {"idle", "frozen", "plain", "open", "done"}, name : Names]
          /\ op'.id = NoId /\ op'.step = "idle"
      BY <1>over DEF NoOp, Names
    <2> QED
      BY <1>over, <2>1 DEF OpInv, Pausing, Sealing
  \* The steps of a pause, and the lock they hold.
  <1>pausing. ASSUME OpInv,
                     (\E id \in Ids : PauseStart(id)) \/ PauseSnapshot \/ SealOpen \/ SealWrite \/ SealShred \/ SealFail
              PROVE  OpInv'
    <2>a. op \in [id : Ids \cup {NoId}, step : {"idle", "frozen", "plain", "open", "done"}, name : Names]
      BY <1>pausing DEF OpInv
    <2>1. ASSUME NEW id \in Ids, PauseStart(id) PROVE OpInv'
      <3>1. CASE UNCHANGED op
        BY <1>pausing, <2>1, <3>1, <1>lock DEF PauseStart, ArmKey
      <3>2. CASE op' = [id |-> id, step |-> "frozen", name |-> "vmstate"]
        <4>1. op' \in [id : Ids \cup {NoId}, step : {"idle", "frozen", "plain", "open", "done"}, name : Names]
              /\ op'.id = id /\ op'.step = "frozen" /\ op'.name = "vmstate"
          BY <1>pausing, <3>2 DEF Names
        <4>2. UNCHANGED <<kms, live>> /\ id \in DOMAIN live /\ ~live[id].paused /\ snapKey' = kms
          BY <1>pausing, <2>1 DEF PauseStart, ArmKey
        <4> QED  BY <1>pausing, <4>1, <4>2 DEF OpInv, Pausing, Sealing
      <3> QED  BY <1>pausing, <2>1, <3>1, <3>2 DEF PauseStart
    <2>2. ASSUME NEW s \in {"plain", "open", "done"}, op' = [op EXCEPT !.step = s], Pausing, kms,
                 UNCHANGED <<kms, snapKey, live>>
          PROVE  OpInv'
      <3>1. s \in {"idle", "frozen", "plain", "open", "done"}
        BY <1>pausing
      <3>2. op' \in [id : Ids \cup {NoId}, step : {"idle", "frozen", "plain", "open", "done"}, name : Names]
            /\ op'.id = op.id /\ op'.step = s
        BY <1>pausing, <2>a, <2>2, <3>1
      <3> QED  BY <1>pausing, <2>2, <3>2 DEF OpInv, Pausing, Sealing
    <2>3. CASE PauseSnapshot
      <3>1. op' = NoOp \/ (snapKey /\ op' = [op EXCEPT !.step = "plain"] /\ UNCHANGED live)
        BY <1>pausing, <2>3 DEF PauseSnapshot, Paused
      <3>2. Pausing /\ UNCHANGED <<kms, snapKey>> /\ (snapKey => kms) /\ "plain" \in {"plain", "open", "done"}
        BY <1>pausing, <2>3 DEF PauseSnapshot, Pausing, OpInv
      <3> QED  BY <1>pausing, <2>2, <3>1, <3>2, <1>over
    <2>4. CASE SealOpen \/ SealWrite
      <3>1. Pausing /\ kms /\ UNCHANGED <<kms, snapKey, live>> /\ {"open", "done"} \subseteq {"plain", "open", "done"}
        BY <1>pausing, <2>4 DEF SealOpen, SealWrite, Pausing, Sealing, OpInv
      <3>2. op' = [op EXCEPT !.step = "open"] \/ op' = [op EXCEPT !.step = "done"]
        BY <1>pausing, <2>4 DEF SealOpen, SealWrite
      <3> QED  BY <1>pausing, <2>2, <3>1, <3>2
    <2>5. CASE SealShred
      <3>1. UNCHANGED <<kms, snapKey>> /\ op.step = "done"
        BY <1>pausing, <2>5 DEF SealShred
      <3>2. CASE op' = [op EXCEPT !.step = "plain", !.name = "mem"] /\ UNCHANGED live
        <4>1. op' \in [id : Ids \cup {NoId}, step : {"idle", "frozen", "plain", "open", "done"}, name : Names]
              /\ op'.id = op.id /\ op'.step = "plain"
          <5>1. "plain" \in {"idle", "frozen", "plain", "open", "done"} /\ "mem" \in Names
            BY <1>pausing DEF Names
          <5> QED  BY <1>pausing, <2>a, <3>2, <5>1
        <4> QED  BY <1>pausing, <3>1, <3>2, <4>1 DEF OpInv, Pausing, Sealing
      <3>3. CASE op' = NoOp
        BY <1>pausing, <3>1, <3>3, <1>over
      <3> QED  BY <1>pausing, <2>5, <3>2, <3>3 DEF SealShred, Paused
    <2>6. CASE SealFail
      BY <1>pausing, <2>6, <1>over DEF SealFail
    <2> QED
      BY <1>pausing, <2>1, <2>3, <2>4, <2>5, <2>6
  <1>1. ASSUME NEW id \in Ids, CreateHot(id) \/ CreateWarm(id) \/ CreateCold(id) \/ CreateEgress(id)
        PROVE  OwnInv'
    <2>1. PoolInv' /\ VmInv' /\ MemInv'
      BY <1>1, <1>hot, <1>warm, <1>cold, <1>egress
    <2>2. Unlocked /\ UNCHANGED <<op, kms, snapKey>>
      BY <1>1 DEF CreateHot, CreateWarm, CreateCold, CreateEgress
    <2>3. OpInv'
      BY <2>2, <1>lock
    <2> QED  BY <2>1, <2>3 DEF OwnInv
  <1>2. ASSUME NEW id \in Ids, Destroy(id) \/ Resume(id) PROVE OwnInv'
    <2>1. PoolInv' /\ VmInv' /\ MemInv'
      BY <1>2, <1>destroy, <1>resume
    <2>2. OpInv'
      BY <1>2, <1>lock DEF Destroy, Resume, ArmKey
    <2> QED  BY <2>1, <2>2 DEF OwnInv
  <1>3. ASSUME NEW id \in Ids, NEW new \in Ids, Fork(id, new) PROVE OwnInv'
    <2>1. PoolInv' /\ VmInv' /\ MemInv'
      BY <1>3, <1>fork
    <2>2. OpInv'
      BY <1>3, <1>lock DEF Fork, ArmKey
    <2> QED  BY <2>1, <2>2 DEF OwnInv
  <1>4. CASE (\E id \in Ids : PauseStart(id)) \/ PauseSnapshot \/ SealOpen \/ SealWrite \/ SealShred \/ SealFail
    <2>1. PoolInv' /\ VmInv' /\ MemInv'
      BY <1>4, <1>pause
    <2>2. OpInv'
      BY <1>4, <1>pausing
    <2> QED  BY <2>1, <2>2 DEF OwnInv
  <1>5. ASSUME NEW p \in Pools, (\E id \in Ids : RefillPrep(p, id)) \/ RefillPush(p) \/ PoolStop(p)
                                 \/ PoolDrain(p) \/ PoolStart(p)
        PROVE  OwnInv'
    <2>1. PoolInv' /\ VmInv' /\ MemInv'
      BY <1>5, <1>pools
    <2>2. OpInv'
      BY <1>5, <1>lock DEF RefillPrep, RefillPush, PoolStop, PoolDrain, PoolStart
    <2> QED  BY <2>1, <2>2 DEF OwnInv
  <1>6. CASE UNCHANGED vars
    <2>1. PoolInv' /\ VmInv' /\ MemInv'
      BY <1>6, <1>kept DEF vars
    <2>2. OpInv'
      BY <1>6, <1>lock DEF vars
    <2> QED  BY <2>1, <2>2 DEF OwnInv
  <1> QED
    BY <1>1, <1>2, <1>3, <1>4, <1>5, <1>6 DEF Next

\* Every directory, VM and lock has one owner, always.
LEMMA OwnHolds == Spec => []OwnInv
  BY OwnInit, OwnStep, PTL DEF Spec

\* Every Firecracker process has an owner that will kill it: an instance that
\* is not paused, or the hot pool while it exists, for any pool sizes and any
\* interleaving of the refill threads with create, pause and shutdown.
THEOREM VmsHaveOwners == Spec => []VmsOwned
  <1> USE Zenon
  <1>1. OwnInv => VmsOwned
    <2> SUFFICES ASSUME OwnInv, NEW id \in Ids, vm[id] # "none"
                 PROVE  \/ id \in DOMAIN live /\ ~live[id].paused
                        \/ /\ vm[id] = "parked" /\ pool["hot"].state # "off"
                           /\ id \in Slots("hot") \cup {pool["hot"].prep}
      BY DEF VmsOwned
    <2>1. vm[id] \in {"parked", "running", "frozen"}
      BY DEF OwnInv, VmInv
    <2>2. CASE vm[id] = "parked"
      <3>1. id \in Held(pool["hot"]) /\ PoolOk(pool["hot"])
        BY <2>2 DEF OwnInv, VmInv, PoolInv, Pools
      <3>2. id \in Slots("hot") \cup {pool["hot"].prep}
        BY <3>1 DEF Held, Slots, Elems
      <3>3. pool["hot"].state # "off"
        BY <3>1 DEF Held, PoolOk
      <3> QED  BY <2>2, <3>2, <3>3
    <2>3. CASE vm[id] \in {"running", "frozen"}
      BY <2>3 DEF OwnInv, VmInv
    <2> QED  BY <2>1, <2>2, <2>3
  <1> QED
    BY <1>1, OwnHolds, PTL

\* No two VMs that run share an identity, whatever snapshot they come from:
\* Reinit comes before the instance is registered.
THEOREM ClonesAreDistinct == Spec => []ClonesDistinct
  <1>1. OwnInv => ClonesDistinct
    BY Zenon DEF OwnInv, MemInv, ClonesDistinct
  <1> QED
    BY <1>1, OwnHolds, PTL

-----------------------------------------------------------------------------
\* An inode under other names, or with another content.
Renamed(i, S) == [i EXCEPT !.names = S]

Rewritten(i, c) == [i EXCEPT !.data = c]

\* Renaming changes the names only.
LEMMA RenamedInode ==
  ASSUME NEW i, i \in InodeOf(i.data), NEW S \in SUBSET (Dirs \X Files)
  PROVE  Renamed(i, S).names = S /\ Renamed(i, S).data = i.data /\ Renamed(i, S) \in InodeOf(i.data)
  BY Zenon DEF Renamed, InodeOf

\* What remove_file does to the names it is given, and to no other.
Removes(f, g, S) ==
    /\ Sound(g)
    /\ \A x, c : Holds(g, x, c) <=> Holds(f, x, c) /\ x \notin S
    /\ \A x : Private(f, x) => Private(g, x)

\* What hardlink_or_copy does: t becomes a name of the inode of s.
Links(f, g, s, t) ==
    /\ Sound(g)
    /\ \A x, c : x # t => (Holds(g, x, c) <=> Holds(f, x, c))
    /\ \A c : Holds(g, t, c) <=> Holds(f, s, c)
    /\ \A x : x # s /\ x # t /\ Private(f, x) => Private(g, x)

\* What a write does: it shows through the other names of the inode, which
\* are names of the same file in other directories.
Writes(f, g, t, c) ==
    /\ Sound(g) /\ \A e : Holds(g, t, e) <=> e = c
    /\ \A x, e : x # t /\ (Private(f, x) \/ Private(f, t) \/ x[2] # t[2])
                 => (Holds(g, x, e) <=> Holds(f, x, e))
    /\ \A x : Private(f, x) => Private(g, x)
    /\ \A x : Named(g, x) <=> Named(f, x) \/ x = t

\* A name has one inode.
LEMMA SameInode ==
  ASSUME NEW f, Sound(f), NEW i \in f, NEW j \in f, NEW x, x \in i.names, x \in j.names
  PROVE  i = j
  <1> USE Zenon
  <1>1. i.names \cap j.names # {}
    OBVIOUS
  <1> QED
    BY <1>1 DEF Sound

\* The names of an inode are links to one file.
LEMMA SameFile ==
  ASSUME NEW f, Sound(f), NEW i \in f, NEW x, NEW y, x \in i.names, y \in i.names
  PROVE  x[2] = y[2]
  BY Zenon DEF Sound

\* An inode is what it looks like.
LEMMA IsInode ==
  ASSUME NEW f, Sound(f), NEW i \in f
  PROVE  i \in InodeOf(i.data) /\ i.names \in SUBSET (Dirs \X Files)
  <1> USE Zenon
  <1>1. i \in InodeOf(i.data)
    BY DEF Sound
  <1> QED
    BY <1>1 DEF InodeOf

\* remove_file
LEMMA UnlinkRemoves ==
  ASSUME NEW f, Sound(f), NEW S
  PROVE  Removes(f, UnlinkAll(f, S), S)
  <1> USE Zenon
  <1> DEFINE g == UnlinkAll(f, S)
  <1>1. \A i \in f : i \in InodeOf(i.data) /\ i.names \in SUBSET (Dirs \X Files)
    BY IsInode
  <1>2. g = {Renamed(i, i.names \ S) : i \in {j \in f : ~(j.names \subseteq S)}}
    BY DEF UnlinkAll, Renamed
  <1>3. \A i \in f : /\ Renamed(i, i.names \ S).names = i.names \ S /\ Renamed(i, i.names \ S).data = i.data
                     /\ Renamed(i, i.names \ S) \in InodeOf(i.data)
    <2>1. ASSUME NEW i \in f PROVE i.names \ S \in SUBSET (Dirs \X Files) /\ i \in InodeOf(i.data)
      BY <1>1
    <2> QED  BY <2>1, RenamedInode
  <1>4. ASSUME NEW j \in g
        PROVE  \E i \in f : j = Renamed(i, i.names \ S) /\ j.names = i.names \ S /\ j.data = i.data /\ j \in InodeOf(j.data)
    <2>1. PICK i \in f : j = Renamed(i, i.names \ S)
      BY <1>2, <1>4
    <2> QED  BY <1>3, <2>1
  <1>5. ASSUME NEW i \in f, NEW x \in i.names, x \notin S
        PROVE  \E j \in g : j.names = i.names \ S /\ j.data = i.data
    <2>1. Renamed(i, i.names \ S) \in g
      BY <1>2, <1>5
    <2> QED  BY <1>3, <2>1
  <1> HIDE DEF g
  <1>6. \A i, j \in g : i.names \cap j.names # {} => i = j
    <2> SUFFICES ASSUME NEW i \in g, NEW j \in g, NEW x \in i.names, x \in j.names PROVE i = j
      OBVIOUS
    <2>1. PICK a \in f : i = Renamed(a, a.names \ S) /\ i.names = a.names \ S
      BY <1>4
    <2>2. PICK b \in f : j = Renamed(b, b.names \ S) /\ j.names = b.names \ S
      BY <1>4
    <2>3. x \in a.names /\ x \in b.names
      BY <2>1, <2>2
    <2>4. a = b
      BY <2>3, SameInode
    <2> QED  BY <2>1, <2>2, <2>4
  <1>7. ASSUME NEW j \in g, NEW x \in j.names, NEW y \in j.names PROVE x[2] = y[2]
    <2>1. PICK i \in f : j.names = i.names \ S
      BY <1>4
    <2>2. x \in i.names /\ y \in i.names
      BY <2>1
    <2> QED  BY <2>2, SameFile
  <1>8. Sound(g)
    BY <1>4, <1>6, <1>7 DEF Sound
  <1>9. \A x, c : Holds(g, x, c) <=> Holds(f, x, c) /\ x \notin S
    <2>1. ASSUME NEW x, NEW c, Holds(g, x, c) PROVE Holds(f, x, c) /\ x \notin S
      BY <1>4, <2>1 DEF Holds
    <2>2. ASSUME NEW x, NEW c, Holds(f, x, c), x \notin S PROVE Holds(g, x, c)
      <3>1. PICK i \in f : x \in i.names /\ i.data = c
        BY <2>2 DEF Holds
      <3>2. PICK j \in g : j.names = i.names \ S /\ j.data = i.data
        BY <1>5, <2>2, <3>1
      <3> QED  BY <2>2, <3>1, <3>2 DEF Holds
    <2> QED  BY <2>1, <2>2
  <1>10. ASSUME NEW x, Private(f, x) PROVE Private(g, x)
    <2> SUFFICES ASSUME NEW j \in g, x \in j.names PROVE j.names = {x}
      BY DEF Private
    <2>1. PICK i \in f : j.names = i.names \ S
      BY <1>4
    <2>2. x \in i.names /\ x \notin S
      BY <2>1
    <2>3. i.names = {x}
      BY <1>10, <2>2 DEF Private
    <2> QED  BY <2>1, <2>2, <2>3
  <1> QED
    BY <1>8, <1>9, <1>10 DEF Removes, g

\* hardlink_or_copy, of a file under the same name in another directory.
LEMMA HardLinkLinks ==
  ASSUME NEW f, Sound(f), NEW sd, NEW d \in Dirs, NEW n \in Files, sd # d
  PROVE  Links(f, HardLink(f, sd, n, d, n), <<sd, n>>, <<d, n>>)
  \* An inode with one more name.
  <1> USE Zenon
  <1>link. ASSUME NEW h, Sound(h), NEW s, NEW t \in Dirs \X Files, ~Named(h, t), s[2] = t[2],
                  NEW g, g = {IF s \in i.names THEN Renamed(i, i.names \cup {t}) ELSE i : i \in h}
           PROVE  Links(h, g, s, t)
    <2> DEFINE New(i) == IF s \in i.names THEN Renamed(i, i.names \cup {t}) ELSE i
    <2>1. ASSUME NEW i \in h
          PROVE  /\ New(i) \in g /\ New(i).data = i.data /\ New(i) \in InodeOf(i.data)
                 /\ New(i).names = IF s \in i.names THEN i.names \cup {t} ELSE i.names
      <3>1. i \in InodeOf(i.data) /\ i.names \cup {t} \in SUBSET (Dirs \X Files)
        BY <1>link, IsInode
      <3>2. New(i) \in g
        BY <1>link
      <3>3. CASE s \in i.names
        BY <1>link, <3>1, <3>2, <3>3, RenamedInode
      <3>4. CASE s \notin i.names
        BY <1>link, <3>1, <3>2, <3>4
      <3> QED  BY <1>link, <3>3, <3>4
    <2>2. ASSUME NEW j \in g PROVE \E i \in h : j = New(i)
      BY <1>link, <2>2
    <2> HIDE DEF New
    <2>3. \A i \in h : t \notin i.names
      BY <1>link DEF Named
    <2>4. ASSUME NEW j \in g, NEW x \in j.names, x # t
          PROVE  \E i \in h : j = New(i) /\ x \in i.names /\ j.data = i.data
      <3>1. PICK i \in h : j = New(i)
        BY <1>link, <2>2
      <3>2. j.names = (IF s \in i.names THEN i.names \cup {t} ELSE i.names) /\ j.data = i.data
        BY <1>link, <2>1, <3>1
      <3> QED  BY <1>link, <2>4, <3>1, <3>2
    <2>5. ASSUME NEW j \in g, t \in j.names
          PROVE  \E i \in h : j = New(i) /\ s \in i.names /\ j.data = i.data
      <3>1. PICK i \in h : j = New(i)
        BY <1>link, <2>2
      <3>2. j.names = (IF s \in i.names THEN i.names \cup {t} ELSE i.names) /\ j.data = i.data
        BY <1>link, <2>1, <3>1
      <3> QED  BY <1>link, <2>3, <2>5, <3>1, <3>2
    <2>6. ASSUME NEW i \in g, NEW j \in g, NEW x \in i.names, x \in j.names PROVE i = j
      <3>1. CASE x = t
        <4>1. PICK a \in h : i = New(a) /\ s \in a.names
          BY <2>5, <3>1
        <4>2. PICK b \in h : j = New(b) /\ s \in b.names
          BY <2>5, <2>6, <3>1
        <4>3. a = b
          BY <1>link, <4>1, <4>2, SameInode
        <4> QED  BY <4>1, <4>2, <4>3
      <3>2. CASE x # t
        <4>1. PICK a \in h : i = New(a) /\ x \in a.names
          BY <1>link, <2>4, <3>2
        <4>2. PICK b \in h : j = New(b) /\ x \in b.names
          BY <1>link, <2>4, <2>6, <3>2
        <4>3. a = b
          BY <1>link, <4>1, <4>2, SameInode
        <4> QED  BY <1>link, <4>1, <4>2, <4>3
      <3> QED  BY <1>link, <3>1, <3>2
    <2>7. ASSUME NEW j \in g, NEW x \in j.names, NEW y \in j.names PROVE x[2] = y[2]
      <3>1. PICK i \in h : j = New(i)
        BY <1>link, <2>2
      <3>2. j.names = IF s \in i.names THEN i.names \cup {t} ELSE i.names
        BY <1>link, <2>1, <3>1
      <3>3. CASE s \notin i.names
        <4>1. x \in i.names /\ y \in i.names
          BY <1>link, <2>7, <3>2, <3>3
        <4> QED  BY <1>link, <4>1, SameFile, SMT
      <3>4. CASE s \in i.names
        <4>1. \A z \in j.names : z[2] = s[2]
          BY <1>link, <3>2, <3>4, SameFile, ZenonT(30)
        <4> QED  BY <1>link, <2>7, <4>1
      <3> QED  BY <1>link, <3>3, <3>4
    <2>8. ASSUME NEW j \in g PROVE j \in InodeOf(j.data)
      BY <1>link, <2>1, <2>2, <2>8
    <2>9. Sound(g)
      BY <1>link, <2>6, <2>7, <2>8 DEF Sound
    <2>10. ASSUME NEW x, NEW c, x # t PROVE Holds(g, x, c) <=> Holds(h, x, c)
      <3>1. ASSUME Holds(g, x, c) PROVE Holds(h, x, c)
        <4>1. PICK j \in g : x \in j.names /\ j.data = c
          BY <1>link, <3>1 DEF Holds
        <4>2. PICK i \in h : x \in i.names /\ j.data = i.data
          BY <1>link, <2>4, <2>10, <4>1
        <4> QED  BY <1>link, <4>1, <4>2 DEF Holds
      <3>2. ASSUME Holds(h, x, c) PROVE Holds(g, x, c)
        <4>1. PICK i \in h : x \in i.names /\ i.data = c
          BY <1>link, <3>2 DEF Holds
        <4>2. x \in New(i).names /\ New(i).data = c /\ New(i) \in g
          BY <1>link, <2>1, <4>1
        <4> QED  BY <1>link, <4>2 DEF Holds
      <3> QED  BY <1>link, <3>1, <3>2
    <2>11. ASSUME NEW c PROVE Holds(g, t, c) <=> Holds(h, s, c)
      <3>1. ASSUME Holds(g, t, c) PROVE Holds(h, s, c)
        BY <1>link, <2>5, <3>1 DEF Holds
      <3>2. ASSUME Holds(h, s, c) PROVE Holds(g, t, c)
        <4>1. PICK i \in h : s \in i.names /\ i.data = c
          BY <1>link, <3>2 DEF Holds
        <4>2. t \in New(i).names /\ New(i).data = c /\ New(i) \in g
          BY <1>link, <2>1, <4>1
        <4> QED  BY <1>link, <4>2 DEF Holds
      <3> QED  BY <1>link, <3>1, <3>2
    <2>12. ASSUME NEW x, x # s, x # t, Private(h, x) PROVE Private(g, x)
      <3> SUFFICES ASSUME NEW j \in g, x \in j.names PROVE j.names = {x}
        BY <1>link DEF Private
      <3>1. PICK i \in h : j = New(i) /\ x \in i.names
        BY <1>link, <2>4, <2>12
      <3>2. i.names = {x} /\ s \notin i.names
        BY <1>link, <2>12, <3>1 DEF Private
      <3> QED  BY <1>link, <2>1, <3>1, <3>2
    <2> QED
      BY <1>link, <2>9, <2>10, <2>11, <2>12 DEF Links
  <1>1. PICK s, t : s = <<sd, n>> /\ t = <<d, n>>
    OBVIOUS
  <1>2. t \in Dirs \X Files /\ s[2] = t[2] /\ s # t
    BY <1>1
  <1>3. PICK h : h = UnlinkAll(f, {t})
    OBVIOUS
  <1>4. Removes(f, h, {t})
    BY <1>3, UnlinkRemoves
  <1>5. ~Named(h, t)
    <2>1. \A c : ~Holds(h, t, c)
      BY <1>4 DEF Removes
    <2> QED  BY <2>1 DEF Holds, Named
  <1>6. PICK g : g = HardLink(f, sd, n, d, n)
    OBVIOUS
  <1>7. g = {IF s \in i.names THEN Renamed(i, i.names \cup {t}) ELSE i : i \in h}
    BY <1>1, <1>3, <1>6 DEF HardLink, Unlink, Renamed
  <1>8. Links(h, g, s, t)
    BY <1>2, <1>4, <1>5, <1>7, <1>link DEF Removes
  <1>9. Links(f, g, s, t)
    BY <1>2, <1>4, <1>8 DEF Links, Removes
  <1> QED
    BY <1>1, <1>6, <1>9

\* create_private and the writes after it.
LEMMA StoreWrites ==
  ASSUME NEW f, Sound(f), NEW d \in Dirs, NEW n \in Files, NEW c
  PROVE  Writes(f, Store(f, d, n, c), <<d, n>>, c)
  \* Writing changes the content only.
  <1> USE Zenon
  <1>inode. ASSUME NEW i, i \in InodeOf(i.data)
            PROVE  Rewritten(i, c).names = i.names /\ Rewritten(i, c).data = c /\ Rewritten(i, c) \in InodeOf(c)
    <2>1. c \in {c}
      BY <1>inode
    <2> QED
      BY <1>inode, <2>1 DEF Rewritten, InodeOf
  \* The content of one inode changes.
  <1>into. ASSUME NEW t, Named(f, t),
                  NEW g, g = {IF t \in i.names THEN Rewritten(i, c) ELSE i : i \in f}
           PROVE  Writes(f, g, t, c)
    <2> DEFINE New(i) == IF t \in i.names THEN Rewritten(i, c) ELSE i
    <2>1. ASSUME NEW i \in f
          PROVE  /\ New(i) \in g /\ New(i).names = i.names /\ New(i) \in InodeOf(New(i).data)
                 /\ New(i).data = IF t \in i.names THEN c ELSE i.data
      <3>1. i \in InodeOf(i.data)
        BY <1>into, IsInode
      <3>2. New(i) \in g
        BY <1>into
      <3>3. CASE t \in i.names
        BY <1>into, <3>1, <3>2, <3>3, <1>inode
      <3>4. CASE t \notin i.names
        BY <1>into, <3>1, <3>2, <3>4
      <3> QED  BY <1>into, <3>3, <3>4
    <2>2. ASSUME NEW j \in g PROVE \E i \in f : j = New(i)
      BY <1>into, <2>2
    <2> HIDE DEF New
    <2>3. ASSUME NEW j \in g PROVE j \in InodeOf(j.data)
      BY <1>into, <2>1, <2>2, <2>3
    <2>4. ASSUME NEW j \in g, NEW x \in j.names
          PROVE  \E i \in f : /\ j = New(i) /\ x \in i.names /\ j.names = i.names
                              /\ j.data = IF t \in i.names THEN c ELSE i.data
      <3>1. PICK i \in f : j = New(i)
        BY <1>into, <2>2
      <3>2. j.names = i.names /\ j.data = IF t \in i.names THEN c ELSE i.data
        BY <1>into, <2>1, <3>1
      <3> QED  BY <1>into, <3>1, <3>2
    <2>5. ASSUME NEW i \in g, NEW j \in g, NEW x \in i.names, x \in j.names PROVE i = j
      <3>1. PICK a \in f : i = New(a) /\ x \in a.names
        BY <1>into, <2>4
      <3>2. PICK b \in f : j = New(b) /\ x \in b.names
        BY <1>into, <2>4, <2>5
      <3>3. a = b
        BY <1>into, <3>1, <3>2, SameInode
      <3> QED  BY <1>into, <3>1, <3>2, <3>3
    <2>6. ASSUME NEW j \in g, NEW x \in j.names, NEW y \in j.names PROVE x[2] = y[2]
      <3>1. PICK i \in f : x \in i.names /\ j.names = i.names
        BY <1>into, <2>4
      <3>2. y \in i.names
        BY <1>into, <3>1
      <3> QED  BY <1>into, <3>1, <3>2, SameFile, SMT
    <2>7. Sound(g)
      BY <1>into, <2>3, <2>5, <2>6 DEF Sound
    <2>8. ASSUME NEW x PROVE Named(g, x) <=> Named(f, x)
      <3>1. ASSUME Named(g, x) PROVE Named(f, x)
        BY <1>into, <2>4, <3>1 DEF Named
      <3>2. ASSUME Named(f, x) PROVE Named(g, x)
        <4>1. PICK i \in f : x \in i.names
          BY <1>into, <3>2 DEF Named
        <4>2. New(i) \in g /\ x \in New(i).names
          BY <1>into, <2>1, <4>1
        <4> QED  BY <1>into, <4>2 DEF Named
      <3> QED  BY <1>into, <3>1, <3>2
    <2>9. ASSUME NEW e PROVE Holds(g, t, e) <=> e = c
      <3>1. ASSUME NEW j \in g, t \in j.names PROVE j.data = c
        <4>1. PICK i \in f : t \in i.names /\ j.data = IF t \in i.names THEN c ELSE i.data
          BY <1>into, <2>4, <3>1
        <4> QED  BY <1>into, <4>1
      <3>2. PICK j \in g : t \in j.names
        BY <1>into, <2>8 DEF Named
      <3> QED  BY <1>into, <3>1, <3>2 DEF Holds
    <2>10. ASSUME NEW x, Private(f, x) PROVE Private(g, x)
      <3> SUFFICES ASSUME NEW j \in g, x \in j.names PROVE j.names = {x}
        BY <1>into DEF Private
      <3>1. PICK i \in f : x \in i.names /\ j.names = i.names
        BY <1>into, <2>4
      <3> QED  BY <1>into, <2>10, <3>1 DEF Private
    <2>11. ASSUME NEW x, NEW i \in f, x \in i.names, x # t,
                  Private(f, x) \/ Private(f, t) \/ x[2] # t[2]
           PROVE  t \notin i.names
      <3> SUFFICES ASSUME t \in i.names PROVE FALSE
        BY <1>into
      <3>1. x[2] = t[2]
        BY <1>into, <2>11, SameFile
      <3>2. i.names = {x} \/ i.names = {t}
        BY <1>into, <2>11, <3>1 DEF Private
      <3> QED  BY <1>into, <2>11, <3>2
    <2>12. ASSUME NEW x, NEW e, x # t, Private(f, x) \/ Private(f, t) \/ x[2] # t[2]
           PROVE  Holds(g, x, e) <=> Holds(f, x, e)
      <3>1. ASSUME Holds(g, x, e) PROVE Holds(f, x, e)
        <4>1. PICK j \in g : x \in j.names /\ j.data = e
          BY <1>into, <3>1 DEF Holds
        <4>2. PICK i \in f : x \in i.names /\ j.data = IF t \in i.names THEN c ELSE i.data
          BY <1>into, <2>4, <4>1, ZenonT(30)
        <4>3. t \notin i.names
          BY <1>into, <2>11, <2>12, <4>2
        <4> QED  BY <1>into, <4>1, <4>2, <4>3 DEF Holds
      <3>2. ASSUME Holds(f, x, e) PROVE Holds(g, x, e)
        <4>1. PICK i \in f : x \in i.names /\ i.data = e
          BY <1>into, <3>2 DEF Holds
        <4>2. t \notin i.names
          BY <1>into, <2>11, <2>12, <4>1
        <4>3. New(i) \in g /\ x \in New(i).names /\ New(i).data = e
          BY <1>into, <2>1, <4>1, <4>2
        <4> QED  BY <1>into, <4>3 DEF Holds
      <3> QED  BY <1>into, <3>1, <3>2
    <2> QED
      BY <1>into, <2>7, <2>8, <2>9, <2>10, <2>12 DEF Writes
  \* A write to a name that is not there makes a file of its own.
  <1>new. ASSUME NEW t \in Dirs \X Files, ~Named(f, t),
                 NEW g, g = f \cup {[names |-> {t}, data |-> c]}
          PROVE  Writes(f, g, t, c)
    <2>1. PICK k : k = [names |-> {t}, data |-> c]
      BY <1>new
    <2>2. k.names = {t} /\ k.data = c /\ k \in InodeOf(c)
      <3>1. {t} \in SUBSET (Dirs \X Files) /\ c \in {c}
        BY <1>new
      <3> QED  BY <1>new, <2>1, <3>1 DEF InodeOf
    <2>3. \A i : i \in g <=> i \in f \/ i = k
      BY <1>new, <2>1
    <2>4. \A i \in f : t \notin i.names
      BY <1>new DEF Named
    <2>5. ASSUME NEW i \in g, NEW j \in g, NEW x \in i.names, x \in j.names PROVE i = j
      <3>1. CASE i \in f /\ j \in f
        BY <1>new, <2>5, <3>1, SameInode
      <3>2. CASE x = t
        BY <1>new, <2>3, <2>4, <2>5, <3>2
      <3>3. (i \in f \/ i = k) /\ (j \in f \/ j = k)
        BY <1>new, <2>3
      <3>4. i = k \/ j = k => x = t
        <4>1. \A z \in k.names : z = t
          BY <1>new, <2>2
        <4>2. i = k => x \in k.names
          BY <1>new
        <4>3. j = k => x \in k.names
          BY <1>new, <2>5
        <4> QED  BY <1>new, <4>1, <4>2, <4>3
      <3> QED  BY <1>new, <3>1, <3>2, <3>3, <3>4
    <2>6. ASSUME NEW j \in g, NEW x \in j.names, NEW y \in j.names PROVE x[2] = y[2]
      <3>1. CASE j = k
        BY <1>new, <2>2, <2>6, <3>1
      <3>2. CASE j \in f
        BY <1>new, <2>6, <3>2, SameFile
      <3> QED  BY <1>new, <2>3, <3>1, <3>2
    <2>7. ASSUME NEW j \in g PROVE j \in InodeOf(j.data)
      BY <1>new, <2>2, <2>3, <2>7, IsInode
    <2>8. Sound(g)
      BY <1>new, <2>5, <2>6, <2>7 DEF Sound
    <2>9. \A e : Holds(g, t, e) <=> e = c
      BY <1>new, <2>2, <2>3, <2>4 DEF Holds
    <2>10. ASSUME NEW x, NEW e, x # t PROVE Holds(g, x, e) <=> Holds(f, x, e)
      BY <1>new, <2>2, <2>3, <2>10 DEF Holds
    <2>11. ASSUME NEW x, Private(f, x) PROVE Private(g, x)
      BY <1>new, <2>2, <2>3, <2>11 DEF Private
    <2>12. \A x : Named(g, x) <=> Named(f, x) \/ x = t
      BY <1>new, <2>2, <2>3 DEF Named
    <2> QED
      BY <1>new, <2>8, <2>9, <2>10, <2>11, <2>12 DEF Writes
  <1>1. PICK t : t = <<d, n>>
    OBVIOUS
  <1>2. t \in Dirs \X Files /\ (Exists(f, d, n) <=> Named(f, t))
    BY <1>1 DEF Exists, Named
  <1>3. PICK g : g = Store(f, d, n, c)
    OBVIOUS
  <1>4. CASE Named(f, t)
    <2>1. g = {IF t \in i.names THEN Rewritten(i, c) ELSE i : i \in f}
      BY <1>1, <1>2, <1>3, <1>4 DEF Store, Rewritten
    <2>2. Writes(f, g, t, c)
      BY <1>4, <2>1, <1>into
    <2> QED  BY <1>1, <1>3, <2>2
  <1>5. CASE ~Named(f, t)
    <2>1. g = f \cup {[names |-> {t}, data |-> c]}
      BY <1>1, <1>2, <1>3, <1>5 DEF Store
    <2>2. Writes(f, g, t, c)
      BY <1>2, <1>5, <2>1, <1>new
    <2> QED  BY <1>1, <1>3, <2>2
  <1> QED
    BY <1>4, <1>5

\* A name holds something just when it is there, and one thing only.
LEMMA NamedHolds ==
  ASSUME NEW f, NEW x
  PROVE  Named(f, x) <=> \E c : Holds(f, x, c)
  BY Zenon DEF Named, Holds

\* Reading a file.
LEMMA ContentHeld ==
  ASSUME NEW f, Sound(f), NEW d, NEW n, NEW c, Holds(f, <<d, n>>, c)
  PROVE  Exists(f, d, n) /\ Content(f, d, n) = c
  <1> USE Zenon
  <1>1. PICK i \in f : <<d, n>> \in i.names /\ i.data = c
    BY DEF Holds
  <1>2. Inode(f, d, n) \in f /\ <<d, n>> \in Inode(f, d, n).names
    BY <1>1 DEF Inode
  <1>3. Inode(f, d, n) = i
    BY <1>1, <1>2, SameInode
  <1> QED
    BY <1>1, <1>3 DEF Exists, Content

-----------------------------------------------------------------------------
\* What a sequence of file operations may do: expose names of E to other
\* links, change what names of T hold, make names of N.  A write through a
\* link may reach a name that is not private.
Steps(f, g, E, T, N) ==
    /\ Sound(g)
    /\ \A x : Named(g, x) => Named(f, x) \/ x \in N
    /\ \A x : x \notin E /\ Private(f, x) => Private(g, x)
    /\ \A x, c : x \notin E /\ x \notin T /\ Private(f, x) /\ Holds(f, x, c) => Holds(g, x, c)

\* The same with no write in place: no other name changes at all.
Pass(f, g, T, N) ==
    /\ \A x, c : x \notin T /\ Holds(f, x, c) => Holds(g, x, c)
    /\ \A x, c : x \notin N /\ Holds(g, x, c) => Holds(f, x, c)

\* Nothing happens to the files.
LEMMA NoSteps ==
  ASSUME NEW f, Sound(f), NEW E, NEW T, NEW N
  PROVE  Steps(f, f, E, T, N) /\ Pass(f, f, T, N)
  BY Zenon DEF Steps, Pass

\* One operation after another.
LEMMA StepsTrans ==
  ASSUME NEW f, NEW g, NEW h, NEW E, NEW T, NEW N, Steps(f, g, E, T, N), Steps(g, h, E, T, N)
  PROVE  Steps(f, h, E, T, N)
  BY Zenon DEF Steps

\* The same without a write in place.
LEMMA PassTrans ==
  ASSUME NEW f, NEW g, NEW h, NEW T, NEW N, Pass(f, g, T, N), Pass(g, h, T, N)
  PROVE  Pass(f, h, T, N)
  BY Zenon DEF Pass

\* remove_file, of names that may change.
LEMMA UnlinkSteps ==
  ASSUME NEW f, Sound(f), NEW S, NEW E, NEW T, NEW N, \A x \in S : x \in T
  PROVE  /\ Steps(f, UnlinkAll(f, S), E, T, N) /\ Pass(f, UnlinkAll(f, S), T, N)
         /\ \A x \in S : ~Named(UnlinkAll(f, S), x)
  <1> USE Zenon
  <1>1. PICK g : g = UnlinkAll(f, S)
    OBVIOUS
  <1>2. Removes(f, g, S)
    BY <1>1, UnlinkRemoves
  <1>3. Pass(f, g, T, N) /\ \A x, c : Holds(g, x, c) => Holds(f, x, c) /\ x \notin S
    BY <1>2 DEF Removes, Pass
  <1>4. \A x : Named(g, x) => Named(f, x) /\ x \notin S
    BY <1>3, NamedHolds
  <1>5. Steps(f, g, E, T, N)
    BY <1>2, <1>4 DEF Removes, Steps
  <1> QED
    BY <1>1, <1>3, <1>4, <1>5

\* hardlink_or_copy
LEMMA HardLinkSteps ==
  ASSUME NEW f, Sound(f), NEW sd, NEW d \in Dirs, NEW n \in Files, sd # d, NEW E, NEW T, NEW N,
         <<sd, n>> \in E, <<d, n>> \in E, <<d, n>> \in T, <<d, n>> \in N
  PROVE  Steps(f, HardLink(f, sd, n, d, n), E, T, N) /\ Pass(f, HardLink(f, sd, n, d, n), T, N)
  <1> USE Zenon
  <1>1. PICK s, t, g : s = <<sd, n>> /\ t = <<d, n>> /\ g = HardLink(f, sd, n, d, n)
    OBVIOUS
  <1>2. Links(f, g, s, t) /\ s \in E /\ t \in E /\ t \in T /\ t \in N
    BY <1>1, HardLinkLinks
  <1>3. Pass(f, g, T, N) /\ \A x, c : x \notin N /\ Holds(g, x, c) => Holds(f, x, c)
    BY <1>2 DEF Links, Pass
  <1>4. \A x : Named(g, x) => Named(f, x) \/ x \in N
    BY <1>3, NamedHolds
  <1>5. Steps(f, g, E, T, N)
    BY <1>2, <1>4 DEF Links, Steps
  <1> QED
    BY <1>1, <1>3, <1>5

\* A write; it is not a write in place when the name is new.
LEMMA StoreSteps ==
  ASSUME NEW f, Sound(f), NEW d \in Dirs, NEW n \in Files, NEW c, NEW E, NEW T, NEW N,
         <<d, n>> \in T, <<d, n>> \in N
  PROVE  /\ Steps(f, Store(f, d, n, c), E, T, N)
         /\ ~Named(f, <<d, n>>) => Pass(f, Store(f, d, n, c), T, N)
         /\ Holds(Store(f, d, n, c), <<d, n>>, c)
  <1> USE Zenon
  <1>1. PICK t, g : t = <<d, n>> /\ g = Store(f, d, n, c)
    OBVIOUS
  <1>2. Writes(f, g, t, c) /\ t \in T /\ t \in N
    BY <1>1, StoreWrites
  <1>3. Steps(f, g, E, T, N)
    BY <1>2 DEF Writes, Steps
  <1>4. ~Named(f, t) => Private(f, t)
    BY DEF Named, Private
  <1>5. ~Named(f, t) => Pass(f, g, T, N)
    BY <1>2, <1>4 DEF Writes, Pass
  <1>6. Holds(g, t, c)
    BY <1>2 DEF Writes
  <1> QED
    BY <1>1, <1>3, <1>5, <1>6

\* A write to one file leaves the other files alone, links or not.
LEMMA StoreOthers ==
  ASSUME NEW f, Sound(f), NEW d \in Dirs, NEW n \in Files, NEW c, NEW x, x[2] # n
  PROVE  \A e : Holds(Store(f, d, n, c), x, e) <=> Holds(f, x, e)
  <1> USE Zenon
  <1>1. PICK t, g : t = <<d, n>> /\ g = Store(f, d, n, c)
    OBVIOUS
  <1>2. Writes(f, g, t, c) /\ t[2] = n /\ x # t
    <2>1. Writes(f, g, t, c)
      BY <1>1, StoreWrites
    <2> QED  BY <1>1, <2>1, SMT
  <1>3. \A e : Holds(g, x, e) <=> Holds(f, x, e)
    BY <1>2 DEF Writes
  <1> QED
    BY <1>1, <1>3

\* The file names.
LEMMA FileNames ==
  /\ Names = {"vmstate", "mem"} /\ Files = {"vmstate", "mem", "vmstate.enc", "mem.enc"}
  /\ Sealed("vmstate") = "vmstate.enc" /\ Sealed("mem") = "mem.enc"
  /\ Files \ Names = {"vmstate.enc", "mem.enc"}
  /\ \A n \in Names : n \in Files /\ Sealed(n) \in Files /\ Sealed(n) \notin Names
  BY Zenon DEF Names, Files, Sealed

\* shred
LEMMA ShredSteps ==
  ASSUME NEW f, Sound(f), NEW d \in Dirs, NEW n \in Files, NEW E, NEW T, NEW N, <<d, n>> \in T
  PROVE  /\ Steps(f, Shred(f, d, n), E, T, N)
         /\ \A x, e : x # <<d, n>> /\ (Private(f, <<d, n>>) \/ x[2] # n) /\ Holds(f, x, e)
                      => Holds(Shred(f, d, n), x, e)
  <1> USE Zenon
  <1>1. PICK t, g, h : t = <<d, n>> /\ g = Store(f, d, n, Zeros) /\ h = UnlinkAll(g, {t})
    OBVIOUS
  <1>2. Writes(f, g, t, Zeros) /\ t[2] = n
    <2>1. Writes(f, g, t, Zeros)
      BY <1>1, StoreWrites
    <2> QED  BY <1>1, <2>1
  <1>3. Removes(g, h, {t})
    BY <1>1, <1>2, UnlinkRemoves DEF Writes
  <1>4. Exists(f, d, n) => t \in T /\ Shred(f, d, n) = h /\ Named(f, t)
    BY <1>1 DEF Shred, Unlink, Exists, Named
  <1>5. ~Exists(f, d, n) => Shred(f, d, n) = f
    BY DEF Shred
  <1>6. CASE Exists(f, d, n)
    <2>1. \A x : Named(h, x) => Named(g, x)
      BY <1>3, NamedHolds DEF Removes
    <2>2. \A x : Named(h, x) => Named(f, x)
      BY <1>2, <1>4, <1>6, <2>1 DEF Writes
    <2>3. \A x, e : x # t /\ (Private(f, x) \/ Private(f, t) \/ x[2] # n) /\ Holds(f, x, e) => Holds(h, x, e)
      BY <1>2, <1>3 DEF Writes, Removes
    <2>4. \A x : Private(f, x) => Private(h, x)
      BY <1>2, <1>3 DEF Writes, Removes
    <2>5. \A x : x \notin T => x # t
      BY <1>4, <1>6
    <2>6. Steps(f, h, E, T, N)
      BY <1>3, <2>2, <2>3, <2>4, <2>5 DEF Steps, Removes
    <2> QED  BY <1>1, <1>4, <1>6, <2>3, <2>6
  <1>7. CASE ~Exists(f, d, n)
    BY <1>5, <1>7, NoSteps
  <1> QED
    BY <1>6, <1>7

\* prepare_instance_dir
LEMMA LinkBothSteps ==
  ASSUME NEW f, Sound(f), NEW sd, NEW d \in Dirs, sd # d, NEW E, NEW T, NEW N,
         \A n \in Names : <<sd, n>> \in E /\ <<d, n>> \in E /\ <<d, n>> \in T /\ <<d, n>> \in N
  PROVE  Steps(f, LinkBoth(f, sd, d), E, T, N) /\ Pass(f, LinkBoth(f, sd, d), T, N)
  <1> USE Zenon
  <1>1. "vmstate" \in Names /\ "mem" \in Names /\ "vmstate" \in Files /\ "mem" \in Files
    BY FileNames
  <1>2. PICK g, h : g = HardLink(f, sd, "vmstate", d, "vmstate") /\ h = HardLink(g, sd, "mem", d, "mem")
    OBVIOUS
  <1>3. Steps(f, g, E, T, N) /\ Pass(f, g, T, N)
    BY <1>1, <1>2, HardLinkSteps
  <1>4. Steps(g, h, E, T, N) /\ Pass(g, h, T, N)
    BY <1>1, <1>2, <1>3, HardLinkSteps DEF Steps
  <1>5. Steps(f, h, E, T, N) /\ Pass(f, h, T, N)
    BY <1>3, <1>4, StepsTrans, PassTrans
  <1> QED
    BY <1>2, <1>5 DEF LinkBoth

\* prepare_instance_dir_sealed
LEMMA LinkSealedSteps ==
  ASSUME NEW f, Sound(f), NEW sd, NEW d \in Dirs, sd # d, NEW E, NEW T, NEW N,
         \A n \in Files \ Names : <<sd, n>> \in E /\ <<d, n>> \in E /\ <<d, n>> \in T /\ <<d, n>> \in N
  PROVE  Steps(f, LinkSealed(f, sd, d), E, T, N)
  <1> USE Zenon
  <1>1. /\ "vmstate.enc" \in Files \ Names /\ "mem.enc" \in Files \ Names
        /\ "vmstate.enc" \in Files /\ "mem.enc" \in Files
    BY FileNames
  <1>2. PICK g, h : g = HardLink(f, sd, "vmstate.enc", d, "vmstate.enc") /\ h = HardLink(g, sd, "mem.enc", d, "mem.enc")
    OBVIOUS
  <1>3. Steps(f, g, E, T, N)
    BY <1>1, <1>2, HardLinkSteps
  <1>4. Steps(g, h, E, T, N)
    BY <1>1, <1>2, <1>3, HardLinkSteps DEF Steps
  <1>5. Steps(f, h, E, T, N)
    BY <1>3, <1>4, StepsTrans
  <1> QED
    BY <1>2, <1>5 DEF LinkSealed

\* unseal_snapshot, the first file or both.
LEMMA UnsealedSteps ==
  ASSUME NEW f, Sound(f), NEW d \in Dirs, NEW E, NEW T, NEW N,
         \A n \in Names : <<d, n>> \in T /\ <<d, n>> \in N
  PROVE  Steps(f, Unsealed(f, d), E, T, N) /\ Steps(f, Decrypt(f, d, "vmstate"), E, T, N)
  <1> USE Zenon
  <1>1. "vmstate" \in Names /\ "mem" \in Names /\ "vmstate" \in Files /\ "mem" \in Files
    BY FileNames
  <1>2. PICK g, h : g = Decrypt(f, d, "vmstate") /\ h = Decrypt(g, d, "mem")
    OBVIOUS
  <1>3. Steps(f, g, E, T, N)
    BY <1>1, <1>2, StoreSteps DEF Decrypt
  <1>4. Steps(g, h, E, T, N)
    BY <1>1, <1>2, <1>3, StoreSteps DEF Decrypt, Steps
  <1>5. Steps(f, h, E, T, N)
    BY <1>3, <1>4, StepsTrans
  <1> QED
    BY <1>2, <1>3, <1>5 DEF Unsealed

\* remove_dir_all
LEMMA RemoveDirsSteps ==
  ASSUME NEW f, Sound(f), NEW D, NEW E, NEW T, NEW N, \A d \in D, n \in Files : <<d, n>> \in T
  PROVE  /\ Steps(f, RemoveDirs(f, D), E, T, N) /\ Pass(f, RemoveDirs(f, D), T, N)
         /\ \A x : Named(RemoveDirs(f, D), x) => x[1] \notin D
  <1> USE Zenon
  <1>1. \A x \in D \X Files : x \in T
    BY SMT
  <1>2. PICK g : g = RemoveDirs(f, D) /\ g = UnlinkAll(f, D \X Files)
    BY DEF RemoveDirs
  <1>3. Steps(f, g, E, T, N) /\ Pass(f, g, T, N) /\ \A x \in D \X Files : ~Named(g, x)
    BY <1>1, <1>2, UnlinkSteps
  <1>4. ASSUME NEW x, Named(g, x) PROVE x[1] \notin D
    <2>1. PICK i \in g : x \in i.names
      BY <1>4 DEF Named
    <2>2. x \in Dirs \X Files
      BY <1>3, <2>1, IsInode DEF Steps
    <2>3. x[1] \in D => x \in D \X Files
      BY <2>2
    <2> QED  BY <1>3, <1>4, <2>3
  <1> QED
    BY <1>2, <1>3, <1>4

-----------------------------------------------------------------------------
FileInv == FilesInv /\ PrivateInv /\ OpFiles /\ PausedFiles

\* Who is paused after a step was paused before it, and what counts of its
\* files is neither exposed nor changed.
StaysPaused(id, E, T) ==
    /\ id \in DOMAIN live /\ live[id].paused /\ mem'[id] = mem[id]
    /\ kms => \A n \in Names : /\ <<id, n>> \notin E
                               /\ id \notin kin' => id \notin kin /\ <<id, Sealed(n)>> \notin E /\ <<id, Sealed(n)>> \notin T
    /\ ~kms => \A n \in Names : <<id, n>> \notin T

\* Without encryption the names a step makes are new, and no file is written
\* in place; what is there after it has an owner.
Owned(E, T, N) ==
    /\ Steps(fs, fs', E, T, N) /\ (~kms => Pass(fs, fs', T, N))
    /\ ~kms => \A x \in N : ~Named(fs, x)
    /\ \A x : Named(fs', x) /\ (x[1] \in Owners \/ x \in N) => x[1] \in Owners'
    /\ UNCHANGED kms

\* The sealed files are shared within kin.
KinOk(E) ==
    kms => \A id \in Ids \ kin', n \in Names :
              ~Named(fs', <<id, Sealed(n)>>) \/ (id \notin kin /\ <<id, Sealed(n)>> \notin E)

\* A step that is not one of a pause.
Quiet(E, T, N) ==
    /\ Owned(E, T, N) /\ KinOk(E)
    /\ \A id \in DOMAIN live' : live'[id].paused => StaysPaused(id, E, T)
    /\ UNCHANGED op
    /\ \/ op.step = "idle" /\ op.id \notin DOMAIN live'
       \/ /\ Pass(fs, fs', T, N) /\ mem'[op.id] = mem[op.id] /\ op.id \in DOMAIN live
          /\ \A n \in Files : <<op.id, n>> \notin E /\ <<op.id, n>> \notin T /\ <<op.id, n>> \notin N

\* What is there and who owns it, after a step.
LEMMA FilesKept ==
  ASSUME FilesInv, NEW E, NEW T, NEW N, Owned(E, T, N)
  PROVE  FilesInv'
  <1> USE Zenon
  <1>1. Sound(fs') /\ \A x : Named(fs', x) => Named(fs, x) \/ x \in N
    BY DEF Owned, Steps
  <1>2. ASSUME NEW x, Named(fs', x) PROVE x[1] \in Owners'
    BY <1>1, <1>2 DEF FilesInv, Owned
  <1>3. \A x : Named(fs', x) => x[1] \in Owners'
    BY <1>2
  <1> QED
    BY <1>1, <1>3 DEF FilesInv

\* Without encryption, no inode changes under a name that remains.
LEMMA SharedIsKept ==
  ASSUME FilesInv, NEW E, NEW T, NEW N, Owned(E, T, N), ~kms
  PROVE  SharedKept
  <1> USE Zenon
  <1> SUFFICES ASSUME NEW i \in fs, NEW j \in fs', NEW x \in i.names, x \in j.names
               PROVE  j.data = i.data
    BY DEF SharedKept
  <1>1. Holds(fs, x, i.data) /\ Holds(fs', x, j.data) /\ Named(fs, x)
    BY DEF Holds, Named
  <1>2. x \notin N /\ \A c : x \notin N /\ Holds(fs', x, c) => Holds(fs, x, c)
    BY <1>1 DEF Owned, Pass
  <1>3. PICK k \in fs : x \in k.names /\ k.data = j.data
    BY <1>1, <1>2 DEF Holds
  <1>4. k = i
    BY <1>3, SameInode DEF FilesInv
  <1> QED
    BY <1>3, <1>4

\* The sealed files stay within kin.
LEMMA SealedPrivate ==
  ASSUME PrivateInv, NEW E, NEW T, NEW N, Owned(E, T, N), KinOk(E), kms
  PROVE  \A id \in Ids \ kin', n \in Names : Private(fs', <<id, Sealed(n)>>)
  <1> USE Zenon
  <1> SUFFICES ASSUME NEW id \in Ids \ kin', NEW n \in Names PROVE Private(fs', <<id, Sealed(n)>>)
    OBVIOUS
  <1>1. CASE ~Named(fs', <<id, Sealed(n)>>)
    BY <1>1 DEF Named, Private
  <1>2. CASE id \notin kin /\ <<id, Sealed(n)>> \notin E
    <2>1. id \in Ids \ kin
      BY <1>2
    <2>2. Private(fs, <<id, Sealed(n)>>)
      BY <2>1 DEF PrivateInv
    <2> QED  BY <1>2, <2>2 DEF Owned, Steps
  <1> QED
    BY <1>1, <1>2 DEF KinOk

\* A sandbox that stays paused keeps its snapshot.
LEMMA SnapshotKept ==
  ASSUME PrivateInv, PausedFiles, PoolInv, NEW E, NEW T, NEW N, Owned(E, T, N),
         NEW id, StaysPaused(id, E, T), NEW n \in Names
  PROVE  /\ kms => Private(fs', <<id, n>>)
         /\ IF kms THEN id \notin kin' => Holds(fs', <<id, Sealed(n)>>, Seal(mem'[id]))
            ELSE Holds(fs', <<id, n>>, mem'[id])
  <1> USE Zenon
  <1>1. id \in DOMAIN live /\ live[id].paused /\ mem'[id] = mem[id] /\ id \in Ids
    BY DEF StaysPaused, PoolInv
  <1>2. CASE kms
    <2>1. Private(fs, <<id, n>>) /\ <<id, n>> \notin E
      BY <1>1, <1>2 DEF PrivateInv, StaysPaused
    <2>2. Private(fs', <<id, n>>)
      BY <2>1 DEF Owned, Steps
    <2>3. ASSUME id \notin kin' PROVE Holds(fs', <<id, Sealed(n)>>, Seal(mem[id]))
      <3>1. id \in Ids \ kin /\ <<id, Sealed(n)>> \notin E /\ <<id, Sealed(n)>> \notin T
        BY <1>1, <1>2, <2>3 DEF StaysPaused
      <3>2. Private(fs, <<id, Sealed(n)>>) /\ Holds(fs, <<id, Sealed(n)>>, Seal(mem[id]))
        <4>1. Private(fs, <<id, Sealed(n)>>)
          BY <1>2, <3>1 DEF PrivateInv
        <4>2. id \notin kin
          BY <3>1
        <4> QED  BY <1>1, <1>2, <4>1, <4>2 DEF PausedFiles
      <3> QED  BY <3>1, <3>2 DEF Owned, Steps
    <2> QED  BY <1>1, <1>2, <2>2, <2>3
  <1>3. CASE ~kms
    <2>1. Holds(fs, <<id, n>>, mem[id]) /\ <<id, n>> \notin T
      BY <1>1, <1>3 DEF PausedFiles, StaysPaused
    <2>2. Holds(fs', <<id, n>>, mem[id])
      BY <1>3, <2>1 DEF Owned, Pass
    <2> QED  BY <1>1, <1>3, <2>2
  <1> QED
    BY <1>2, <1>3

\* What must hold of the files of one instance after a step.
PausedOk(id) ==
    live'[id].paused =>
        \A n \in Names : IF kms' THEN id \notin kin' => Holds(fs', <<id, Sealed(n)>>, Seal(mem'[id]))
                         ELSE Holds(fs', <<id, n>>, mem'[id])

PrivateOk(id) ==
    kms' /\ (live'[id].paused \/ op'.id = id) => \A n \in Names : Private(fs', <<id, n>>)

\* The invariant of the files, from its parts.
LEMMA FileParts ==
  ASSUME FilesInv', OpFiles', \A id \in DOMAIN live' : PausedOk(id) /\ PrivateOk(id),
         kms' => \A id \in Ids \ kin', n \in Names : Private(fs', <<id, Sealed(n)>>)
  PROVE  FileInv'
  <1> USE Zenon
  <1>1. PausedFiles'
    BY DEF PausedFiles, PausedOk
  <1>2. PrivateInv'
    BY DEF PrivateInv, PrivateOk
  <1> QED
    BY <1>1, <1>2 DEF FileInv

\* A step that is not one of a pause keeps the snapshots.
LEMMA QuietFiles ==
  ASSUME PoolInv, OpInv, FileInv, NEW E, NEW T, NEW N, Quiet(E, T, N)
  PROVE  FileInv' /\ (~kms => SharedKept)
  <1> USE Zenon
  <1>0. FilesInv /\ PrivateInv /\ OpFiles /\ PausedFiles
    BY DEF FileInv
  <1>1. Owned(E, T, N) /\ KinOk(E) /\ UNCHANGED <<op, kms>>
    BY DEF Quiet, Owned
  <1>2. FilesInv' /\ (~kms => SharedKept)
    BY <1>0, <1>1, FilesKept, SharedIsKept
  <1>3. kms' => \A id \in Ids \ kin', n \in Names : Private(fs', <<id, Sealed(n)>>)
    BY <1>0, <1>1, SealedPrivate
  <1>4. \A id \in DOMAIN live' : live'[id].paused => StaysPaused(id, E, T)
    BY DEF Quiet
  <1>5. ASSUME NEW id \in DOMAIN live', live'[id].paused, NEW n \in Names
        PROVE  /\ kms => Private(fs', <<id, n>>)
               /\ IF kms THEN id \notin kin' => Holds(fs', <<id, Sealed(n)>>, Seal(mem'[id]))
                  ELSE Holds(fs', <<id, n>>, mem'[id])
    <2>1. StaysPaused(id, E, T)
      BY <1>4, <1>5
    <2> QED  BY <1>0, <1>1, <2>1, SnapshotKept
  <1>6. CASE op.step = "idle" /\ op.id \notin DOMAIN live'
    <2>1. OpFiles'
      BY <1>1, <1>6 DEF OpFiles, Sealing
    <2>2. \A id \in DOMAIN live' : PausedOk(id) /\ PrivateOk(id)
      BY <1>1, <1>5, <1>6 DEF PausedOk, PrivateOk
    <2> QED  BY <1>2, <1>3, <2>1, <2>2, FileParts
  <1>7. CASE /\ Pass(fs, fs', T, N) /\ mem'[op.id] = mem[op.id] /\ op.id \in DOMAIN live
             /\ \A n \in Files : <<op.id, n>> \notin E /\ <<op.id, n>> \notin T /\ <<op.id, n>> \notin N
    <2>1. \A n \in Files : \A c : Holds(fs', <<op.id, n>>, c) <=> Holds(fs, <<op.id, n>>, c)
      BY <1>7 DEF Pass
    <2>2. \A n \in Files : Named(fs', <<op.id, n>>) <=> Named(fs, <<op.id, n>>)
      BY <2>1, NamedHolds
    <2>3. \A n \in Names : n \in Files /\ Sealed(n) \in Files
      BY FileNames
    <2>4. OpFiles'
      <3>1. (op.step = "frozen")' => \A n \in Names : ~Named(fs', <<op.id, n>>)
        BY <1>0, <1>1, <2>2, <2>3 DEF OpFiles
      <3>2. Sealing' => Sealing
        BY <1>1 DEF Sealing
      <3>3. PICK m : m = mem[op.id] /\ m = mem'[op.id]
        BY <1>7
      <3>4. Sealing =>
              /\ Holds(fs', <<op.id, op.name>>, m) /\ Holds(fs', <<op.id, "mem">>, m)
              /\ op.name = "mem" => Holds(fs', <<op.id, "vmstate.enc">>, Seal(m))
              /\ op.step = "done" => Holds(fs', <<op.id, Sealed(op.name)>>, Seal(m))
        <4>1. op.name \in Files /\ Sealed(op.name) \in Files /\ "mem" \in Files /\ "vmstate.enc" \in Files
          BY <2>3, FileNames DEF OpInv
        <4> QED  BY <1>0, <2>1, <3>3, <4>1 DEF OpFiles
      <3> QED  BY <1>1, <3>1, <3>2, <3>3, <3>4 DEF OpFiles
    <2>5. ASSUME kms, NEW n \in Names PROVE Private(fs', <<op.id, n>>)
      <3>1. Private(fs, <<op.id, n>>) /\ <<op.id, n>> \notin E
        BY <1>0, <1>7, <2>3, <2>5 DEF PrivateInv
      <3> QED  BY <1>1, <3>1 DEF Owned, Steps
    <2>6. \A id \in DOMAIN live' : PausedOk(id) /\ PrivateOk(id)
      BY <1>1, <1>5, <2>5 DEF PausedOk, PrivateOk
    <2> QED  BY <1>2, <1>3, <2>4, <2>6, FileParts
  <1> QED
    BY <1>6, <1>7 DEF Quiet

\* create: the sandboxes that are paused are not touched.
LEMMA ComesQuiet ==
  ASSUME PoolInv, PoolInv', OpInv, FileInv, NEW id \in Ids, id \notin DOMAIN live,
         Comes(id) \/ ComesNot(id), Unlocked, UNCHANGED <<op, kms, kin>>,
         NEW E, NEW T, NEW N, Steps(fs, fs', E, T, N), Pass(fs, fs', T, N),
         \A x \in N : ~Named(fs, x),
         \A x \in E : x[1] \notin DOMAIN live /\ x[2] \in Names,
         \A x \in T : x[1] \notin DOMAIN live,
         \A x : Named(fs', x) /\ (x[1] \in Owners \/ x \in N) => x[1] \in Owners'
  PROVE  Quiet(E, T, N)
  <1> USE Zenon
  <1>1. Owned(E, T, N)
    BY DEF Owned
  <1>2. KinOk(E)
    <2>1. \A j : \A n \in Names : <<j, Sealed(n)>> \notin E
      <3>1. \A j : \A n \in Names : <<j, Sealed(n)>>[2] \notin Names
        BY FileNames
      <3> QED  BY <3>1
    <2>2. \A j \in Ids \ kin' : j \notin kin
      OBVIOUS
    <2> QED  BY <2>1, <2>2 DEF KinOk
  <1>3. ASSUME NEW j \in DOMAIN live', live'[j].paused
        PROVE  j \in DOMAIN live /\ live[j].paused /\ mem'[j] = mem[j]
    <2>1. CASE ComesNot(id)
      BY <1>3, <2>1 DEF ComesNot
    <2>2. CASE Comes(id)
      <3>1. PICK net \in BOOLEAN : live' = Register(id, net)
        BY <2>2 DEF Comes
      <3>2. /\ DOMAIN live' = DOMAIN live \cup {id} /\ ~live'[id].paused
            /\ \A k \in DOMAIN live \ {id} : live'[k] = live[k]
        BY <3>1, Registered
      <3>3. j # id /\ j \in DOMAIN live /\ live'[j] = live[j]
        BY <1>3, <3>2
      <3>4. mem'[j] = mem[j]
        <4>1. PICK h : mem' = [mem EXCEPT ![id] = Guest(id, h)]
          BY <2>2 DEF Comes
        <4> QED  BY <3>3, <4>1, SMT
      <3> QED  BY <1>3, <3>3, <3>4
    <2> QED  BY <2>1, <2>2
  <1>4. \A j \in DOMAIN live : \A n : <<j, n>> \notin E /\ <<j, n>> \notin T
    <2>1. \A j, n : <<j, n>>[1] = j
      OBVIOUS
    <2> QED  BY <2>1
  <1>5. ASSUME NEW j \in DOMAIN live', live'[j].paused PROVE StaysPaused(j, E, T)
    BY <1>3, <1>4, <1>5 DEF StaysPaused
  <1>6. op.step = "idle" /\ op.id \notin DOMAIN live'
    BY FcAssumption DEF OpInv, Pausing, Unlocked, PoolInv
  <1> QED
    BY <1>1, <1>2, <1>5, <1>6 DEF Quiet

\* The directories that have an owner after create.
LEMMA ComesOwners ==
  ASSUME NEW id, Comes(id) \/ ComesNot(id), NEW bad,
         \A p \in Pools : Held(pool[p]) \ {id, bad} \subseteq Held(pool'[p]), bad \notin DOMAIN live
  PROVE  Owners \ {id, bad} \subseteq Owners' /\ (Comes(id) => id \in Owners')
  <1> USE Zenon
  <1>1. DOMAIN live \subseteq DOMAIN live' /\ (Comes(id) => id \in DOMAIN live')
    <2>1. CASE ComesNot(id) /\ ~Comes(id)
      BY <2>1 DEF ComesNot
    <2>2. CASE Comes(id)
      <3>1. PICK net \in BOOLEAN : live' = Register(id, net)
        BY <2>2 DEF Comes
      <3>2. DOMAIN live' = DOMAIN live \cup {id}
        BY <3>1, Registered
      <3> QED  BY <3>2
    <2> QED  BY <2>1, <2>2
  <1> QED
    BY <1>1 DEF Owners, Pools

\* create from a pool: the files of the slot are used as they are, or removed.
LEMMA CreatePoolFiles ==
  ASSUME PoolInv, PoolInv', OpInv, FileInv, NEW id \in Ids, CreateHot(id) \/ CreateWarm(id)
  PROVE  FileInv' /\ (~kms => SharedKept)
  <1> USE Zenon
  <1>1. PICK p \in Pools : PoolHit(p, id) /\ pool' = Popped(p)
    <2>1. "warm" \in Pools /\ "hot" \in Pools
      BY DEF Pools
    <2> QED  BY <2>1 DEF CreateHot, CreateWarm
  <1>2. /\ id \notin DOMAIN live /\ id \in Held(pool[p])
        /\ \A q \in Pools \ {p} : pool'[q] = pool[q]
        /\ Held(pool'[p]) = Held(pool[p]) \ {id}
    BY <1>1, YieldsHead
  <1>3. Comes(id) \/ ComesNot(id)
    <2>1. FALSE \in BOOLEAN
      OBVIOUS
    <2>2. CASE CreateHot(id)
      BY <2>1, <2>2 DEF CreateHot, Comes, ComesNot, Reinit
    <2>3. CASE CreateWarm(id)
      BY <2>3, RestoreTables DEF CreateWarm
    <2> QED  BY <2>2, <2>3
  <1>4. (fs' = fs /\ Comes(id)) \/ fs' = RemoveDir(fs, id)
    <2>1. FALSE \in BOOLEAN
      OBVIOUS
    <2> QED  BY <2>1 DEF CreateHot, CreateWarm, RestoreInto, Comes, Reinit
  <1>5. PICK E, T, N : E = {} /\ T = {id} \X Files /\ N = {}
    OBVIOUS
  <1>6. Sound(fs) /\ \A d \in {id}, n \in Files : <<d, n>> \in T
    BY <1>5 DEF FileInv, FilesInv
  <1>7. Steps(fs, fs', E, T, N) /\ Pass(fs, fs', T, N)
        /\ ((fs' = fs /\ Comes(id)) \/ \A x : Named(fs', x) => x[1] \notin {id})
    BY <1>4, <1>6, NoSteps, RemoveDirsSteps DEF RemoveDir
  <1>8. Owners \ {id} \subseteq Owners' /\ (Comes(id) => id \in Owners')
    <2>1. \A q \in Pools : Held(pool[q]) \ {id, id} \subseteq Held(pool'[q])
      BY <1>2
    <2>2. Owners \ {id, id} \subseteq Owners' /\ (Comes(id) => id \in Owners')
      BY <1>2, <1>3, <2>1, ComesOwners
    <2> QED  BY <2>2
  <1>9. \A x : Named(fs', x) /\ (x[1] \in Owners \/ x \in N) => x[1] \in Owners'
    BY <1>5, <1>7, <1>8
  <1>10. Unlocked /\ UNCHANGED <<op, kms, kin>>
    BY DEF CreateHot, CreateWarm
  <1>11. \A x \in T : x[1] \notin DOMAIN live
    BY <1>2, <1>5
  <1>12. (\A x \in N : ~Named(fs, x)) /\ (\A x \in E : x[1] \notin DOMAIN live /\ x[2] \in Names)
    BY <1>5
  <1>13. Quiet(E, T, N)
    BY <1>2, <1>3, <1>7, <1>9, <1>10, <1>11, <1>12, ComesQuiet
  <1> QED
    BY <1>13, QuietFiles

\* create by the cold path: the template is linked into a new directory, and
\* a warm slot that could not be used is removed.
LEMMA CreateColdFiles ==
  ASSUME PoolInv, PoolInv', OpInv, FileInv, NEW id \in Ids, CreateCold(id)
  PROVE  FileInv' /\ (~kms => SharedKept)
  <1> USE Zenon
  <1>0. "warm" \in Pools
    BY DEF Pools
  <1>1. /\ id \notin DOMAIN live /\ \A p \in Pools : id \notin Held(pool[p])
        /\ Unlocked /\ UNCHANGED <<op, kms, kin>>
    BY FreshIsNew DEF CreateCold
  <1>2. id \notin Owners /\ id # Tmpl /\ id \in Dirs /\ Tmpl \notin DOMAIN live
    BY <1>1, FcAssumption DEF Owners, Pools, PoolInv, Dirs
  <1>3. PICK bad, f :
          /\ bad \in {NoId} \cup Ids
          /\ IF bad = NoId THEN UNCHANGED pool ELSE PoolHit("warm", bad) /\ pool' = Popped("warm")
          /\ f = IF bad = NoId THEN fs ELSE RemoveDir(fs, bad)
          /\ RestoreInto(id, LinkBoth(f, Tmpl, id)) \/ (fs' = f /\ UNCHANGED <<vm, mem, live>>)
    BY DEF CreateCold
  <1>4. bad \notin DOMAIN live /\ bad # id /\ \A p \in Pools : Held(pool[p]) \ {id, bad} \subseteq Held(pool'[p])
    <2>1. CASE bad = NoId
      BY <1>3, <2>1, FcAssumption DEF PoolInv
    <2>2. CASE bad # NoId
      <3>1. /\ bad \notin DOMAIN live /\ bad \in Held(pool["warm"])
            /\ \A q \in Pools \ {"warm"} : pool'[q] = pool[q]
            /\ Held(pool'["warm"]) = Held(pool["warm"]) \ {bad}
        BY <1>0, <1>3, <2>2, YieldsHead
      <3> QED  BY <1>0, <1>1, <3>1
    <2> QED  BY <2>1, <2>2
  <1>5. PICK E, T, N : E = {Tmpl, id} \X Names /\ T = {id, bad} \X Files /\ N = {id} \X Names
    OBVIOUS
  <1>6. Sound(fs) /\ \A d \in {id, bad}, n \in Files : <<d, n>> \in T
    BY <1>5 DEF FileInv, FilesInv
  <1>7. /\ Steps(fs, f, E, T, N) /\ Pass(fs, f, T, N) /\ Steps(fs, f, E, T, {})
        /\ bad # NoId => \A x : Named(f, x) => x[1] # bad
    <2>1. CASE bad = NoId
      BY <1>3, <1>6, <2>1, NoSteps
    <2>2. CASE bad # NoId
      <3>1. f = RemoveDirs(fs, {bad}) /\ \A d \in {bad}, n \in Files : <<d, n>> \in T
        BY <1>3, <1>6, <2>2 DEF RemoveDir
      <3>2. /\ Steps(fs, f, E, T, N) /\ Pass(fs, f, T, N) /\ Steps(fs, f, E, T, {})
            /\ \A x : Named(f, x) => x[1] \notin {bad}
        BY <1>6, <3>1, RemoveDirsSteps
      <3> QED  BY <3>2
    <2> QED  BY <2>1, <2>2
  <1>8. PICK g : g = LinkBoth(f, Tmpl, id)
    OBVIOUS
  <1>9. /\ Steps(fs, g, E, T, N) /\ Pass(fs, g, T, N)
        /\ \A x : Named(g, x) => Named(f, x) \/ x \in N
    <2>1. \A n \in Names : <<Tmpl, n>> \in E /\ <<id, n>> \in E /\ <<id, n>> \in T /\ <<id, n>> \in N
      BY <1>5, FileNames
    <2>2. Sound(f)
      BY <1>7 DEF Steps
    <2>3. Steps(f, g, E, T, N) /\ Pass(f, g, T, N)
      BY <1>2, <1>8, <2>1, <2>2, LinkBothSteps
    <2>4. \A x : Named(g, x) => Named(f, x) \/ x \in N
      BY <2>3 DEF Steps
    <2> QED  BY <1>7, <2>3, <2>4, StepsTrans, PassTrans
  <1>10. Comes(id) \/ ComesNot(id)
    BY <1>3, RestoreTables DEF ComesNot
  <1>11. (fs' = g /\ Comes(id)) \/ fs' = RemoveDir(g, id) \/ fs' = f
    <2>1. FALSE \in BOOLEAN
      OBVIOUS
    <2> QED  BY <1>3, <1>8, <2>1 DEF RestoreInto, Comes, Reinit
  <1>12. /\ Steps(fs, fs', E, T, N) /\ Pass(fs, fs', T, N)
         /\ (fs' = g /\ Comes(id)) \/ (\A x : Named(fs', x) => x[1] # id) \/ fs' = f
         /\ \A x : Named(fs', x) => Named(f, x) \/ x \in N
    <2>1. CASE fs' = RemoveDir(g, id)
      <3>1. fs' = RemoveDirs(g, {id}) /\ Sound(g) /\ \A d \in {id}, n \in Files : <<d, n>> \in T
        BY <1>6, <1>9, <2>1 DEF RemoveDir, Steps
      <3>2. Steps(g, fs', E, T, N) /\ Pass(g, fs', T, N) /\ \A x : Named(fs', x) => x[1] \notin {id}
        BY <3>1, RemoveDirsSteps
      <3>3. Steps(fs, fs', E, T, N) /\ Pass(fs, fs', T, N)
        BY <1>9, <3>2, StepsTrans, PassTrans
      <3>4. \A x : Named(fs', x) => Named(f, x) \/ x \in N
        BY <1>9, <3>2 DEF Steps
      <3> QED  BY <3>2, <3>3, <3>4
    <2> QED  BY <1>7, <1>9, <1>11, <2>1
  <1>13. \A x \in N : x[1] = id
    BY <1>5
  <1>14. \A x : Named(f, x) => x[1] # id /\ x[1] \in Owners
    <2>1. \A x : Named(f, x) => Named(fs, x)
      BY <1>7 DEF Steps
    <2> QED  BY <1>2, <2>1 DEF FileInv, FilesInv
  <1>15. Owners \ {id, bad} \subseteq Owners' /\ (Comes(id) => id \in Owners')
    BY <1>4, <1>10, ComesOwners
  <1>16. \A x : Named(fs', x) /\ (x[1] \in Owners \/ x \in N) => x[1] \in Owners'
    <2> SUFFICES ASSUME NEW x, Named(fs', x) PROVE x[1] \in Owners'
      OBVIOUS
    <2>1. CASE x \in N
      BY <1>12, <1>13, <1>14, <1>15, <2>1
    <2>2. CASE Named(f, x)
      <3>1. x[1] \in Owners /\ x[1] # id /\ (bad # NoId => x[1] # bad)
        BY <1>7, <1>14, <2>2
      <3>2. CASE bad = NoId
        <4>1. x[1] \in DOMAIN live => x[1] # NoId
          BY FcAssumption DEF PoolInv
        <4>2. UNCHANGED pool
          BY <1>3, <3>2
        <4>3. x[1] \notin DOMAIN live => x[1] \in Owners'
          BY <3>1, <4>2 DEF Owners
        <4> QED  BY <1>15, <3>1, <3>2, <4>1, <4>3
      <3>3. CASE bad # NoId
        BY <1>15, <3>1, <3>3
      <3> QED  BY <3>2, <3>3
    <2> QED  BY <1>12, <2>1, <2>2
  <1>17. \A x \in T : x[1] \notin DOMAIN live
    BY <1>1, <1>4, <1>5
  <1>18. \A x \in E : x[1] \notin DOMAIN live /\ x[2] \in Names
    BY <1>1, <1>2, <1>5
  <1>19. \A x \in N : ~Named(fs, x)
    BY <1>2, <1>5 DEF FileInv, FilesInv
  <1>20. Quiet(E, T, N)
    BY <1>1, <1>10, <1>12, <1>16, <1>17, <1>18, <1>19, ComesQuiet
  <1> QED
    BY <1>20, QuietFiles

\* create_egress writes no snapshot file.
LEMMA CreateEgressFiles ==
  ASSUME PoolInv, PoolInv', OpInv, FileInv, NEW id \in Ids, CreateEgress(id)
  PROVE  FileInv' /\ (~kms => SharedKept)
  <1> USE Zenon
  <1>1. /\ id \notin DOMAIN live /\ Unlocked /\ UNCHANGED <<op, kms, kin, fs, pool>>
    BY FreshIsNew DEF CreateEgress
  <1>2. Comes(id)
    <2>1. TRUE \in BOOLEAN
      OBVIOUS
    <2> QED  BY <2>1 DEF CreateEgress, Comes, Reinit
  <1>3. PICK E, T, N : E = {} /\ T = {} /\ N = {}
    OBVIOUS
  <1>4. Steps(fs, fs', E, T, N) /\ Pass(fs, fs', T, N)
    BY <1>1, NoSteps DEF FileInv, FilesInv
  <1>5. Owners \subseteq Owners'
    <2>1. PICK net \in BOOLEAN : live' = Register(id, net)
      BY <1>2 DEF Comes
    <2>2. DOMAIN live' = DOMAIN live \cup {id}
      BY <2>1, Registered
    <2> QED  BY <1>1, <2>2 DEF Owners
  <1>6. /\ \A x \in N : ~Named(fs, x)
        /\ \A x \in E : x[1] \notin DOMAIN live /\ x[2] \in Names
        /\ \A x \in T : x[1] \notin DOMAIN live
        /\ \A x : Named(fs', x) /\ (x[1] \in Owners \/ x \in N) => x[1] \in Owners'
    BY <1>3, <1>5
  <1>7. Quiet(E, T, N)
    BY <1>1, <1>2, <1>4, <1>6, ComesQuiet
  <1> QED
    BY <1>7, QuietFiles

\* Both files of a snapshot are shredded.
LEMMA ShredBothSteps ==
  ASSUME NEW f, Sound(f), NEW d \in Dirs, NEW E, NEW T, NEW N, \A n \in Names : <<d, n>> \in T
  PROVE  Steps(f, ShredBoth(f, d), E, T, N)
  <1> USE Zenon
  <1>1. "vmstate" \in Names /\ "mem" \in Names /\ "vmstate" \in Files /\ "mem" \in Files
    BY FileNames
  <1>2. PICK g, h : g = Shred(f, d, "vmstate") /\ h = Shred(g, d, "mem")
    OBVIOUS
  <1>3. Steps(f, g, E, T, N)
    BY <1>1, <1>2, ShredSteps
  <1>4. Steps(g, h, E, T, N)
    BY <1>1, <1>2, <1>3, ShredSteps DEF Steps
  <1> QED
    BY <1>2, <1>3, <1>4, StepsTrans DEF ShredBoth

\* destroy
LEMMA DestroyFiles ==
  ASSUME PoolInv, PoolInv', OpInv, FileInv, NEW id \in Ids, Destroy(id)
  PROVE  FileInv' /\ (~kms => SharedKept)
  <1> USE Zenon
  <1>1. /\ Unlocked /\ UNCHANGED <<op, kms, pool>> /\ kin' = kin \ {id}
        /\ DOMAIN live' = DOMAIN live \ {id} /\ \A j \in DOMAIN live \ {id} : live'[j] = live[j]
        /\ \A j \in DOMAIN live \ {id} : mem'[j] = mem[j]
    BY SMT DEF Destroy, Drop
  <1>2. PICK E, T, N : E = {} /\ T = {id} \X Files /\ N = {}
    OBVIOUS
  <1>3. Sound(fs) /\ id \in Dirs /\ \A d \in {id}, n \in Files : <<d, n>> \in T
    BY <1>2 DEF FileInv, FilesInv, Dirs
  <1>4. PICK f : f = (IF snapKey THEN ShredBoth(fs, id) ELSE fs) /\ fs' = RemoveDirs(f, {id})
    BY DEF Destroy, RemoveDir
  <1>5. Steps(fs, f, E, T, N) /\ (~kms => Pass(fs, f, T, N))
    <2>1. CASE snapKey
      <3>1. \A n \in Names : <<id, n>> \in T
        BY <1>3, FileNames
      <3>2. Steps(fs, f, E, T, N)
        BY <1>3, <1>4, <2>1, <3>1, ShredBothSteps
      <3> QED  BY <2>1, <3>2 DEF OpInv
    <2>2. CASE ~snapKey
      BY <1>3, <1>4, <2>2, NoSteps
    <2> QED  BY <2>1, <2>2
  <1>6. /\ Steps(fs, fs', E, T, N) /\ (~kms => Pass(fs, fs', T, N))
        /\ \A x : Named(fs', x) => x[1] # id
    <2>1. Sound(f)
      BY <1>5 DEF Steps
    <2>2. Steps(f, fs', E, T, N) /\ Pass(f, fs', T, N) /\ \A x : Named(fs', x) => x[1] \notin {id}
      BY <1>3, <1>4, <2>1, RemoveDirsSteps
    <2>3. Steps(fs, fs', E, T, N) /\ (~kms => Pass(fs, fs', T, N))
      BY <1>5, <2>2, StepsTrans, PassTrans
    <2> QED  BY <2>2, <2>3
  <1>7. Owned(E, T, N)
    <2>1. Owners \ {id} \subseteq Owners'
      BY <1>1 DEF Owners
    <2>2. \A x : Named(fs', x) /\ (x[1] \in Owners \/ x \in N) => x[1] \in Owners'
      BY <1>2, <1>6, <2>1
    <2>3. \A x \in N : ~Named(fs, x)
      BY <1>2
    <2> QED  BY <1>1, <1>6, <2>2, <2>3 DEF Owned
  <1>8. KinOk(E)
    <2> SUFFICES ASSUME NEW j \in Ids \ kin', NEW n \in Names
                 PROVE  ~Named(fs', <<j, Sealed(n)>>) \/ (j \notin kin /\ <<j, Sealed(n)>> \notin E)
      BY DEF KinOk
    <2>1. CASE j = id
      <3>1. <<j, Sealed(n)>>[1] = id
        BY <2>1
      <3> QED  BY <1>6, <3>1
    <2>2. CASE j # id
      BY <1>1, <1>2, <2>2
    <2> QED  BY <2>1, <2>2
  <1>9. ASSUME NEW j \in DOMAIN live', live'[j].paused PROVE StaysPaused(j, E, T)
    <2>1. j \in DOMAIN live \ {id} /\ live[j].paused /\ mem'[j] = mem[j] /\ (j \notin kin' => j \notin kin)
      BY <1>1, <1>9
    <2>2. \A n : <<j, n>> \notin E /\ <<j, n>> \notin T
      BY <1>2, <2>1
    <2> QED  BY <2>1, <2>2 DEF StaysPaused
  <1>10. op.step = "idle" /\ op.id \notin DOMAIN live'
    BY <1>1, FcAssumption, SMT DEF OpInv, Pausing, Unlocked, PoolInv
  <1>11. Quiet(E, T, N)
    BY <1>1, <1>7, <1>8, <1>9, <1>10 DEF Quiet
  <1> QED
    BY <1>11, QuietFiles

\* resume
LEMMA ResumeFiles ==
  ASSUME PoolInv, OpInv, FileInv, NEW id \in Ids, Resume(id)
  PROVE  FileInv' /\ (~kms => SharedKept)
  \* resume that fails: what it has decrypted stays, the sealed files too.
  <1> USE Zenon
  <1>failed. ASSUME id \in DOMAIN live, Unlocked,
                    UNCHANGED <<mem, live, kin, op, kms, pool>>,
                    fs' = fs \/ (kms /\ (fs' = Unsealed(fs, id) \/ fs' = Decrypt(fs, id, "vmstate")))
             PROVE  FileInv' /\ (~kms => SharedKept)
    <2>1. PICK E, T, N : E = {} /\ T = (IF kms THEN {id} \X Names ELSE {}) /\ N = T
      BY <1>failed
    <2>2. Sound(fs) /\ id \in Dirs /\ (kms => \A n \in Names : <<id, n>> \in T /\ <<id, n>> \in N)
      BY <1>failed, <2>1 DEF FileInv, FilesInv, Dirs, PoolInv
    <2>3. Steps(fs, fs', E, T, N) /\ (~kms => Pass(fs, fs', T, N))
      BY <1>failed, <2>2, NoSteps, UnsealedSteps
    <2>4. Owned(E, T, N)
      <3>1. UNCHANGED Owners /\ id \in Owners
        BY <1>failed DEF Owners
      <3>2. \A x \in N : x[1] = id /\ kms
        BY <1>failed, <2>1
      <3>3. \A x : Named(fs', x) /\ (x[1] \in Owners \/ x \in N) => x[1] \in Owners'
        BY <1>failed, <3>1, <3>2
      <3>4. ~kms => \A x \in N : ~Named(fs, x)
        BY <1>failed, <3>2
      <3> QED  BY <1>failed, <2>3, <3>3, <3>4 DEF Owned
    <2>5. KinOk(E)
      <3>1. \A j \in Ids \ kin' : j \notin kin
        BY <1>failed
      <3>2. \A j : \A n \in Names : <<j, Sealed(n)>> \notin E
        BY <1>failed, <2>1
      <3> QED  BY <1>failed, <3>1, <3>2 DEF KinOk
    <2>6. ASSUME NEW j \in DOMAIN live', live'[j].paused PROVE StaysPaused(j, E, T)
      <3>1. \A n \in Names : <<j, n>> \notin E /\ <<j, Sealed(n)>> \notin E /\ <<j, Sealed(n)>> \notin T
        BY <1>failed, <2>1, FileNames
      <3>2. ~kms => \A n \in Names : <<j, n>> \notin T
        BY <1>failed, <2>1
      <3>3. j \in DOMAIN live /\ live[j].paused /\ mem'[j] = mem[j] /\ (j \notin kin' => j \notin kin)
        BY <1>failed, <2>6
      <3> QED  BY <1>failed, <3>1, <3>2, <3>3 DEF StaysPaused
    <2>7. op.step = "idle" /\ op.id \notin DOMAIN live'
      BY <1>failed, FcAssumption DEF OpInv, Pausing, Unlocked, PoolInv
    <2>8. Quiet(E, T, N)
      BY <1>failed, <2>4, <2>5, <2>6, <2>7 DEF Quiet
    <2> QED
      BY <1>failed, <2>8, QuietFiles
  \* resume that succeeds: the sandbox runs, its sealed files are unlinked.
  <1>resumed. ASSUME id \in DOMAIN live, Unlocked,
                     live' = [live EXCEPT ![id].paused = FALSE], NEW m, mem' = [mem EXCEPT ![id] = m],
                     UNCHANGED <<op, kms, pool>>, kin' = kin \ {id},
                     fs' = IF kms THEN UnlinkSealed(Unsealed(fs, id), id) ELSE fs
              PROVE  FileInv' /\ (~kms => SharedKept)
    <2>1. PICK E, T, N : E = {} /\ T = {id} \X Files /\ N = (IF kms THEN {id} \X Names ELSE {})
      BY <1>resumed
    <2>2. Sound(fs) /\ id \in Dirs /\ (kms => \A n \in Names : <<id, n>> \in T /\ <<id, n>> \in N)
      BY <1>resumed, <2>1, FileNames DEF FileInv, FilesInv, Dirs, PoolInv
    <2>3. /\ Steps(fs, fs', E, T, N) /\ (~kms => Pass(fs, fs', T, N))
          /\ kms => \A n \in Files \ Names : ~Named(fs', <<id, n>>)
      <3>1. CASE ~kms
        BY <1>resumed, <2>2, <3>1, NoSteps
      <3>2. CASE kms
        <4>1. PICK f, S : f = Unsealed(fs, id) /\ S = {id} \X (Files \ Names)
          BY <1>resumed
        <4>2. Steps(fs, f, E, T, N)
          BY <1>resumed, <2>2, <3>2, <4>1, UnsealedSteps
        <4>3. fs' = UnlinkAll(f, S) /\ Sound(f)
          BY <1>resumed, <3>2, <4>1, <4>2 DEF UnlinkSealed, Steps
        <4>4. (\A x \in S : x \in T) /\ \A n \in Files \ Names : <<id, n>> \in S
          BY <1>resumed, <2>1, <4>1
        <4>5. Steps(f, fs', E, T, N) /\ \A x \in S : ~Named(fs', x)
          BY <1>resumed, <4>3, <4>4, UnlinkSteps
        <4>6. Steps(fs, fs', E, T, N)
          BY <1>resumed, <4>2, <4>5, StepsTrans
        <4> QED  BY <1>resumed, <3>2, <4>4, <4>5, <4>6
      <3> QED  BY <1>resumed, <3>1, <3>2
    <2>4. /\ DOMAIN live' = DOMAIN live /\ live'[id].paused = FALSE
          /\ \A j \in DOMAIN live \ {id} : live'[j] = live[j]
      <3>1. live[id] \in Instance /\ FALSE \in BOOLEAN
        BY <1>resumed DEF PoolInv
      <3> QED  BY <1>resumed, <3>1, PausedSet
    <2>5. Owned(E, T, N)
      <3>1. Owners' = Owners /\ id \in Owners
        BY <1>resumed, <2>4 DEF Owners
      <3>2. \A x \in N : x[1] = id /\ kms
        BY <1>resumed, <2>1
      <3>3. \A x : Named(fs', x) /\ (x[1] \in Owners \/ x \in N) => x[1] \in Owners'
        BY <1>resumed, <3>1, <3>2
      <3>4. ~kms => \A x \in N : ~Named(fs, x)
        BY <1>resumed, <3>2
      <3> QED  BY <1>resumed, <2>3, <3>3, <3>4 DEF Owned
    <2>6. KinOk(E)
      <3> SUFFICES ASSUME NEW j \in Ids \ kin', NEW n \in Names, kms
                   PROVE  ~Named(fs', <<j, Sealed(n)>>) \/ (j \notin kin /\ <<j, Sealed(n)>> \notin E)
        BY <1>resumed DEF KinOk
      <3>1. CASE j = id
        <4>1. Sealed(n) \in Files \ Names
          BY <1>resumed, FileNames
        <4> QED  BY <1>resumed, <2>3, <3>1, <4>1
      <3>2. CASE j # id
        BY <1>resumed, <2>1, <3>2
      <3> QED  BY <1>resumed, <3>1, <3>2
    <2>7. ASSUME NEW j \in DOMAIN live', live'[j].paused PROVE StaysPaused(j, E, T)
      <3>1. j \in DOMAIN live \ {id} /\ live[j].paused /\ mem'[j] = mem[j] /\ (j \notin kin' => j \notin kin)
        BY <1>resumed, <2>4, <2>7, SMT
      <3>2. \A n : <<j, n>> \notin E /\ <<j, n>> \notin T
        BY <1>resumed, <2>1, <3>1
      <3> QED  BY <1>resumed, <3>1, <3>2 DEF StaysPaused
    <2>8. op.step = "idle" /\ op.id \notin DOMAIN live'
      BY <1>resumed, <2>4, FcAssumption DEF OpInv, Pausing, Unlocked, PoolInv
    <2>9. Quiet(E, T, N)
      BY <1>resumed, <2>5, <2>6, <2>7, <2>8 DEF Quiet
    <2> QED
      BY <1>resumed, <2>9, QuietFiles
  <1>1. id \in DOMAIN live /\ Unlocked /\ UNCHANGED <<op, kms, pool>>
    BY DEF Resume
  <1>2. \/ /\ live' = [live EXCEPT ![id].paused = FALSE] /\ kin' = kin \ {id}
           /\ \E m : mem' = [mem EXCEPT ![id] = m]
           /\ fs' = IF kms THEN UnlinkSealed(Unsealed(fs, id), id) ELSE fs
        \/ /\ UNCHANGED <<mem, live, kin>>
           /\ fs' = fs \/ (kms /\ (fs' = Unsealed(fs, id) \/ fs' = Decrypt(fs, id, "vmstate")))
    BY DEF Resume, UnsealFails
  <1> QED
    BY <1>1, <1>2, <1>resumed, <1>failed

\* A step that touches none of this.
LEMMA FilesUntouched ==
  ASSUME PoolInv, OpInv, FileInv, UNCHANGED <<fs, live, mem, kin, op, kms>>,
         \A p \in Pools : Held(pool[p]) \subseteq Held(pool'[p])
  PROVE  FileInv' /\ (~kms => SharedKept)
  <1> USE Zenon
  <1>1. Owners \subseteq Owners'
    BY DEF Owners, Pools
  <1>2. FilesInv'
    BY <1>1 DEF FileInv, FilesInv
  <1>3. PrivateInv' /\ OpFiles' /\ PausedFiles'
    BY DEF FileInv, PrivateInv, OpFiles, PausedFiles, Sealing
  <1>4. Sound(fs) /\ fs' = fs
    BY DEF FileInv, FilesInv
  <1>5. SharedKept
    <2> SUFFICES ASSUME NEW i \in fs, NEW j \in fs', NEW x \in i.names, x \in j.names
                 PROVE  j.data = i.data
      BY DEF SharedKept
    <2>1. j = i
      BY <1>4, SameInode
    <2> QED  BY <2>1
  <1> QED
    BY <1>2, <1>3, <1>5 DEF FileInv

\* fork
LEMMA ForkFiles ==
  ASSUME PoolInv, PoolInv', OpInv, FileInv, NEW id \in Ids, NEW new \in Ids, Fork(id, new)
  PROVE  FileInv' /\ (~kms => SharedKept)
  \* fork: the parent's files are linked, sealed ones unsealed beside them.
  <1> USE Zenon
  <1>forked. ASSUME id \in DOMAIN live, Fresh(new), Unlocked,
                    UNCHANGED <<op, kms, pool>>, NEW g, RestoreInto(new, g),
                    \/ ~kms /\ g = LinkBoth(fs, id, new) /\ UNCHANGED kin
                    \/ kms /\ g = Unsealed(LinkSealed(fs, id, new), new) /\ kin' = kin \cup {id, new}
             PROVE  FileInv' /\ (~kms => SharedKept)
    <2>1. new \notin DOMAIN live /\ new \notin Owners /\ new \in Dirs /\ id # new
      BY <1>forked, FreshIsNew, FcAssumption DEF Owners, Pools, Dirs
    <2>2. PICK S, E, T, N : S = (IF kms THEN Files \ Names ELSE Names) /\ E = {id, new} \X S
                            /\ T = {new} \X Files /\ N = T
      BY <1>forked
    <2>3. Sound(fs) /\ S \subseteq Files /\ \A n \in Files : <<new, n>> \in T /\ <<new, n>> \in N
      BY <1>forked, <2>2, FileNames DEF FileInv, FilesInv
    <2>4. \A n \in S : <<id, n>> \in E /\ <<new, n>> \in E /\ <<new, n>> \in T /\ <<new, n>> \in N
      <3> SUFFICES ASSUME NEW n \in S
                   PROVE  <<id, n>> \in E /\ <<new, n>> \in E /\ <<new, n>> \in T /\ <<new, n>> \in N
        BY <1>forked
      <3>1. E = {id, new} \X S /\ n \in Files
        BY <1>forked, <2>2, <2>3
      <3> QED  BY <1>forked, <2>3, <3>1
    <2>5. Steps(fs, g, E, T, N) /\ (~kms => Pass(fs, g, T, N))
      <3>1. CASE ~kms
        <4>1. S = Names /\ g = LinkBoth(fs, id, new)
          BY <1>forked, <2>2, <3>1
        <4>2. \A n \in Names : <<id, n>> \in E /\ <<new, n>> \in E /\ <<new, n>> \in T /\ <<new, n>> \in N
          BY <1>forked, <2>4, <4>1
        <4> QED  BY <1>forked, <2>1, <2>3, <4>1, <4>2, LinkBothSteps
      <3>2. CASE kms
        <4>1. S = Files \ Names /\ g = Unsealed(LinkSealed(fs, id, new), new)
          BY <1>forked, <2>2, <3>2
        <4>2. PICK f : f = LinkSealed(fs, id, new)
          BY <1>forked
        <4>3. \A n \in Files \ Names : <<id, n>> \in E /\ <<new, n>> \in E /\ <<new, n>> \in T /\ <<new, n>> \in N
          BY <1>forked, <2>4, <4>1
        <4>4. Steps(fs, f, E, T, N)
          BY <1>forked, <2>1, <2>3, <4>2, <4>3, LinkSealedSteps
        <4>5. Sound(f) /\ \A n \in Names : <<new, n>> \in T /\ <<new, n>> \in N
          <5>1. Sound(f)
            BY <1>forked, <4>4 DEF Steps
          <5> QED  BY <1>forked, <2>3, <5>1, FileNames
        <4>6. Steps(f, g, E, T, N)
          BY <1>forked, <2>1, <4>1, <4>2, <4>5, UnsealedSteps
        <4> QED  BY <1>forked, <3>2, <4>4, <4>6, StepsTrans
      <3> QED  BY <1>forked, <3>1, <3>2
    <2>6. Comes(new) \/ ComesNot(new)
      BY <1>forked, RestoreTables
    <2>7. (fs' = g /\ Comes(new)) \/ fs' = RemoveDirs(g, {new})
      <3>1. FALSE \in BOOLEAN
        BY <1>forked
      <3> QED  BY <1>forked, <3>1 DEF RestoreInto, Comes, Reinit, RemoveDir
    <2>8. /\ Steps(fs, fs', E, T, N) /\ (~kms => Pass(fs, fs', T, N))
          /\ Comes(new) \/ \A x : Named(fs', x) => x[1] # new
      <3>1. CASE fs' = g /\ Comes(new)
        BY <1>forked, <2>5, <3>1
      <3>2. CASE fs' = RemoveDirs(g, {new})
        <4>1. Sound(g) /\ \A d \in {new}, n \in Files : <<d, n>> \in T
          <5>1. Sound(g)
            BY <1>forked, <2>5 DEF Steps
          <5> QED  BY <1>forked, <2>3, <5>1
        <4>2. Steps(g, fs', E, T, N) /\ Pass(g, fs', T, N) /\ \A x : Named(fs', x) => x[1] \notin {new}
          BY <1>forked, <3>2, <4>1, RemoveDirsSteps
        <4>3. Steps(fs, fs', E, T, N) /\ (~kms => Pass(fs, fs', T, N))
          BY <1>forked, <2>5, <4>2, StepsTrans, PassTrans
        <4> QED  BY <1>forked, <4>2, <4>3
      <3> QED  BY <1>forked, <2>7, <3>1, <3>2
    <2>9. \A x \in N : x[1] = new /\ ~Named(fs, x)
      BY <1>forked, <2>1, <2>2 DEF FileInv, FilesInv
    <2>10. ASSUME NEW j \in DOMAIN live', live'[j].paused
           PROVE  j \in DOMAIN live /\ j # new /\ live[j].paused /\ mem'[j] = mem[j]
      <3>1. CASE ComesNot(new)
        BY <1>forked, <2>1, <2>10, <3>1 DEF ComesNot
      <3>2. CASE Comes(new)
        <4>1. PICK net \in BOOLEAN : live' = Register(new, net)
          BY <1>forked, <3>2 DEF Comes
        <4>2. /\ DOMAIN live' = DOMAIN live \cup {new} /\ ~live'[new].paused
              /\ \A k \in DOMAIN live \ {new} : live'[k] = live[k]
          BY <1>forked, <4>1, Registered
        <4>3. j # new /\ j \in DOMAIN live /\ live'[j] = live[j]
          BY <1>forked, <2>10, <4>2
        <4>4. mem'[j] = mem[j]
          <5>1. PICK h : mem' = [mem EXCEPT ![new] = Guest(new, h)]
            BY <3>2 DEF Comes
          <5> QED  BY <4>3, <5>1, SMT
        <4> QED  BY <1>forked, <2>10, <4>3, <4>4
      <3> QED  BY <1>forked, <2>6, <3>1, <3>2, ZenonT(30)
    <2>11. Owned(E, T, N)
      <3>1. \A p \in Pools : Held(pool[p]) \ {new, new} \subseteq Held(pool'[p])
        BY <1>forked
      <3>2. Owners \ {new, new} \subseteq Owners' /\ (Comes(new) => new \in Owners')
        BY <1>forked, <2>1, <2>6, <3>1, ComesOwners
      <3>3. \A x : Named(fs', x) /\ (x[1] \in Owners \/ x \in N) => x[1] \in Owners'
        BY <1>forked, <2>1, <2>8, <2>9, <3>2
      <3> QED  BY <1>forked, <2>8, <2>9, <3>3 DEF Owned
    <2>12. KinOk(E)
      <3> SUFFICES ASSUME NEW j \in Ids \ kin', NEW n \in Names, kms
                   PROVE  j \notin kin /\ <<j, Sealed(n)>> \notin E
        BY <1>forked DEF KinOk
      <3> QED  BY <1>forked, <2>2
    <2>13. ASSUME NEW j \in DOMAIN live', live'[j].paused PROVE StaysPaused(j, E, T)
      <3>1. \A n : <<j, n>> \notin T
        BY <1>forked, <2>2, <2>10, <2>13
      <3>2. kms => \A n \in Names : <<j, n>> \notin E
        BY <1>forked, <2>2
      <3>3. kms /\ j \notin kin' => j \notin kin /\ \A n : <<j, n>> \notin E
        BY <1>forked, <2>2
      <3> QED  BY <1>forked, <2>10, <2>13, <3>1, <3>2, <3>3 DEF StaysPaused
    <2>14. op.step = "idle" /\ op.id \notin DOMAIN live'
      BY <1>forked, FcAssumption DEF OpInv, Pausing, Unlocked, PoolInv
    <2>15. Quiet(E, T, N)
      BY <1>forked, <2>11, <2>12, <2>13, <2>14 DEF Quiet
    <2> QED
      BY <1>forked, <2>15, QuietFiles
  <1>1. id \in DOMAIN live /\ Unlocked /\ Fresh(new) /\ UNCHANGED <<op, kms, pool>>
    BY DEF Fork
  <1>2. \/ \E g : /\ RestoreInto(new, g)
                  /\ \/ ~kms /\ g = LinkBoth(fs, id, new) /\ UNCHANGED kin
                     \/ kms /\ g = Unsealed(LinkSealed(fs, id, new), new) /\ kin' = kin \cup {id, new}
        \/ UNCHANGED <<fs, mem, live, kin>>
    BY DEF Fork
  <1>3. CASE UNCHANGED <<fs, mem, live, kin>>
    BY <1>1, <1>3, FilesUntouched
  <1> QED
    BY <1>1, <1>2, <1>3, <1>forked

\* The refill threads, and draining a pool: they may run during a pause.
LEMMA PoolFiles ==
  ASSUME PoolInv, PoolInv', OpInv, FileInv, NEW p \in Pools, UNCHANGED <<live, mem, kin, op, kms>>,
         NEW E, NEW T, NEW N, Steps(fs, fs', E, T, N), Pass(fs, fs', T, N),
         \A x \in E : x[1] \notin DOMAIN live /\ x[2] \in Names,
         \A x \in T : x[1] \notin DOMAIN live,
         \A x \in N : x[1] \notin DOMAIN live /\ ~Named(fs, x),
         \A x : Named(fs', x) /\ (x[1] \in Owners \/ x \in N) => x[1] \in Owners'
  PROVE  FileInv' /\ (~kms => SharedKept)
  <1> USE Zenon
  <1>1. Owned(E, T, N)
    BY DEF Owned
  <1>2. KinOk(E)
    <2>1. \A j : \A n \in Names : <<j, Sealed(n)>> \notin E
      <3>1. \A j : \A n \in Names : <<j, Sealed(n)>>[2] \notin Names
        BY FileNames
      <3> QED  BY <3>1
    <2>2. \A j \in Ids \ kin' : j \notin kin
      OBVIOUS
    <2> QED  BY <2>1, <2>2 DEF KinOk
  <1>3. \A j \in DOMAIN live : \A n : <<j, n>> \notin E /\ <<j, n>> \notin T /\ <<j, n>> \notin N
    <2>1. \A j, n : <<j, n>>[1] = j
      OBVIOUS
    <2> QED  BY <2>1
  <1>4. ASSUME NEW j \in DOMAIN live', live'[j].paused PROVE StaysPaused(j, E, T)
    BY <1>3, <1>4 DEF StaysPaused
  <1>5. (op.step = "idle" /\ op.id \notin DOMAIN live') \/ op.id \in DOMAIN live
    BY FcAssumption DEF OpInv, Pausing, PoolInv
  <1>6. Quiet(E, T, N)
    BY <1>1, <1>2, <1>3, <1>4, <1>5 DEF Quiet
  <1> QED
    BY <1>6, QuietFiles

\* A refill thread links the template into a new directory.
LEMMA RefillFiles ==
  ASSUME PoolInv, PoolInv', OpInv, FileInv, NEW p \in Pools, NEW id \in Ids, RefillPrep(p, id)
  PROVE  FileInv' /\ (~kms => SharedKept)
  <1> USE Zenon
  <1>1. /\ id \notin DOMAIN live /\ \A q \in Pools : id \notin Held(pool[q])
        /\ UNCHANGED <<live, mem, kin, op, kms>> /\ fs' = LinkBoth(fs, Tmpl, id)
    BY FreshIsNew DEF RefillPrep
  <1>2. id \notin Owners /\ id # Tmpl /\ id \in Dirs /\ Tmpl \notin DOMAIN live
    BY <1>1, FcAssumption DEF Owners, Pools, PoolInv, Dirs
  <1>3. /\ Held(pool'[p]) = Held(pool[p]) \cup {id}
        /\ \A q \in Pools \ {p} : pool'[q] = pool[q]
    <2>1. pool[p].prep = NoId /\ pool[p].state # "off" /\ pool' = [pool EXCEPT ![p].prep = id]
      BY DEF RefillPrep
    <2> QED  BY <1>1, <2>1, PrepPool
  <1>4. PICK E, T, N : E = {Tmpl, id} \X Names /\ T = {id} \X Names /\ N = T
    OBVIOUS
  <1>5. Sound(fs) /\ \A n \in Names : <<Tmpl, n>> \in E /\ <<id, n>> \in E /\ <<id, n>> \in T /\ <<id, n>> \in N
    BY <1>4 DEF FileInv, FilesInv
  <1>6. Steps(fs, fs', E, T, N) /\ Pass(fs, fs', T, N)
    BY <1>1, <1>2, <1>5, LinkBothSteps
  <1>7. \A x : Named(fs', x) /\ (x[1] \in Owners \/ x \in N) => x[1] \in Owners'
    <2>1. Owners \cup {id} \subseteq Owners'
      BY <1>1, <1>3, SMT DEF Owners, Pools
    <2> QED  BY <1>4, <2>1
  <1>8. /\ \A x \in E : x[1] \notin DOMAIN live /\ x[2] \in Names
        /\ \A x \in T : x[1] \notin DOMAIN live
    BY <1>1, <1>2, <1>4
  <1>9. \A x \in N : x[1] \notin DOMAIN live /\ ~Named(fs, x)
    BY <1>1, <1>2, <1>4 DEF FileInv, FilesInv
  <1> QED
    BY <1>1, <1>6, <1>7, <1>8, <1>9, PoolFiles

\* A pool that shuts down removes the directories it holds.
LEMMA DrainFiles ==
  ASSUME PoolInv, PoolInv', OpInv, FileInv, NEW p \in Pools, PoolDrain(p)
  PROVE  FileInv' /\ (~kms => SharedKept)
  <1> USE Zenon
  <1>1. UNCHANGED <<live, mem, kin, op, kms>> /\ fs' = RemoveDirs(fs, Slots(p)) /\ pool[p].prep = NoId
    BY DEF PoolDrain
  <1>2. Slots(p) = Held(pool[p])
    BY <1>1 DEF Slots, Held, Elems
  <1>3. \A q \in Pools \ {p} : pool'[q] = pool[q]
    BY DrainedPool DEF PoolDrain
  <1>4. PICK D, E, T, N : D = Held(pool[p]) /\ E = {} /\ T = D \X Files /\ N = {}
    OBVIOUS
  <1>5. Sound(fs) /\ fs' = RemoveDirs(fs, D) /\ \A d \in D, n \in Files : <<d, n>> \in T
    BY <1>1, <1>2, <1>4 DEF FileInv, FilesInv
  <1>6. /\ Steps(fs, fs', E, T, N) /\ Pass(fs, fs', T, N)
        /\ \A x : Named(fs', x) => x[1] \notin D
    BY <1>5, RemoveDirsSteps
  <1>7. \A x : Named(fs', x) /\ (x[1] \in Owners \/ x \in N) => x[1] \in Owners'
    <2>1. Owners \ D \subseteq Owners'
      BY <1>1, <1>3, <1>4 DEF Owners, Pools
    <2> QED  BY <1>4, <1>6, <2>1
  <1>8. /\ \A x \in E : x[1] \notin DOMAIN live /\ x[2] \in Names
        /\ \A x \in T : x[1] \notin DOMAIN live
        /\ \A x \in N : x[1] \notin DOMAIN live /\ ~Named(fs, x)
    BY <1>4, ZenonT(30) DEF PoolInv
  <1> QED
    BY <1>1, <1>6, <1>7, <1>8, PoolFiles

\* The other steps of the pools touch no file.
LEMMA PoolStateFiles ==
  ASSUME PoolInv, OpInv, FileInv, NEW p \in Pools, RefillPush(p) \/ PoolStop(p) \/ PoolStart(p)
  PROVE  FileInv' /\ (~kms => SharedKept)
  <1> USE Zenon
  <1>1. UNCHANGED <<fs, live, mem, kin, op, kms>>
    BY DEF RefillPush, PoolStop, PoolStart
  <1>2. Held(pool'[p]) = Held(pool[p]) /\ \A q \in Pools \ {p} : pool'[q] = pool[q]
    <2>1. "on" \in {"on", "stopping"} /\ "stopping" \in {"on", "stopping"}
      OBVIOUS
    <2> QED  BY <2>1, PushPool, StatePool DEF RefillPush, PoolStop, PoolStart
  <1> QED
    BY <1>1, <1>2, FilesUntouched

-----------------------------------------------------------------------------
\* A step of a pause of d touches the directory of d only.
LEMMA PauseFiles ==
  ASSUME PoolInv, FileInv, NEW d \in DOMAIN live, UNCHANGED <<mem, kin, kms, pool>>,
         DOMAIN live' = DOMAIN live, \A j \in DOMAIN live \ {d} : live'[j] = live[j],
         op'.id \in {d, NoId},
         NEW T, NEW N, Steps(fs, fs', {}, T, N), ~kms => Pass(fs, fs', T, N),
         \A x \in T : x[1] = d, \A x \in N : x[1] = d /\ (~kms => ~Named(fs, x)),
         OpFiles', PausedOk(d), PrivateOk(d)
  PROVE  FileInv' /\ (~kms => SharedKept)
  <1> USE Zenon
  <1>0. FilesInv /\ PrivateInv /\ PausedFiles
    BY DEF FileInv
  <1>1. PICK E : E = {}
    OBVIOUS
  <1>2. Owned(E, T, N)
    <2>1. Owners' = Owners /\ d \in Owners
      BY ZenonT(30) DEF Owners
    <2>2. \A x : Named(fs', x) /\ (x[1] \in Owners \/ x \in N) => x[1] \in Owners'
      BY <2>1
    <2> QED  BY <1>1, <2>2 DEF Owned
  <1>3. KinOk(E)
    <2>1. \A j \in Ids \ kin' : j \notin kin
      OBVIOUS
    <2>2. \A j : \A n \in Names : <<j, Sealed(n)>> \notin E
      BY <1>1
    <2> QED  BY <2>1, <2>2, ZenonT(30) DEF KinOk
  <1>4. FilesInv' /\ (~kms => SharedKept)
    BY <1>0, <1>2, FilesKept, SharedIsKept
  <1>5. kms' => \A id \in Ids \ kin', n \in Names : Private(fs', <<id, Sealed(n)>>)
    BY <1>0, <1>2, <1>3, SealedPrivate
  <1>6. ASSUME NEW j \in DOMAIN live' PROVE PausedOk(j) /\ PrivateOk(j)
    <2>1. CASE j = d
      BY <2>1
    <2>2. CASE j # d
      <3>1. j \in DOMAIN live /\ live'[j] = live[j] /\ op'.id # j
        <4>1. j \in DOMAIN live /\ j \in Ids
          BY <1>6 DEF PoolInv
        <4>2. op'.id = d \/ op'.id = NoId
          OBVIOUS
        <4>3. NoId \notin Ids
          BY FcAssumption
        <4>4. op'.id # j
          BY <2>2, <4>1, <4>2, <4>3
        <4>5. live'[j] = live[j]
          BY <2>2, <4>1
        <4> QED  BY <4>1, <4>4, <4>5
      <3>2. ASSUME live'[j].paused, NEW n \in Names
            PROVE  /\ kms => Private(fs', <<j, n>>)
                   /\ IF kms THEN j \notin kin' => Holds(fs', <<j, Sealed(n)>>, Seal(mem'[j]))
                      ELSE Holds(fs', <<j, n>>, mem'[j])
        <4>1. \A k : <<j, k>> \notin E /\ <<j, k>> \notin T
          <5>1. \A k : <<j, k>>[1] # d
            BY <2>2
          <5> QED  BY <1>1, <5>1
        <4>2. live[j].paused /\ mem'[j] = mem[j] /\ (j \notin kin' => j \notin kin)
          BY <3>1, <3>2
        <4>3. StaysPaused(j, E, T)
          BY <3>1, <4>1, <4>2 DEF StaysPaused
        <4> QED  BY <1>0, <1>2, <4>3, SnapshotKept
      <3> QED  BY <3>1, <3>2 DEF PausedOk, PrivateOk
    <2> QED  BY <2>1, <2>2
  <1> QED
    BY <1>4, <1>5, <1>6, FileParts, ZenonT(30)

\* No step of a pause gives a plain file of it another name.
LEMMA PauseStaysPrivate ==
  ASSUME FileInv, NEW d \in DOMAIN live, op.id = d, NEW T, NEW N, Steps(fs, fs', {}, T, N), UNCHANGED kms
  PROVE  PrivateOk(d)
  <1> USE Zenon
  <1>1. kms => \A n \in Names : Private(fs, <<d, n>>)
    BY DEF FileInv, PrivateInv
  <1>2. \A x : Private(fs, x) => Private(fs', x)
    BY DEF Steps
  <1> QED
    BY <1>1, <1>2 DEF PrivateOk

\* pause unlinks the names before the snapshot.
LEMMA PauseStartFiles ==
  ASSUME PoolInv, OpInv, FileInv, NEW id \in Ids, PauseStart(id)
  PROVE  FileInv' /\ (~kms => SharedKept)
  <1> USE Zenon
  <1>1. /\ id \in DOMAIN live /\ ~live[id].paused /\ UNCHANGED <<live, mem, kin, kms, pool>>
        /\ Unlocked /\ fs' = UnlinkBoth(fs, id)
    BY DEF PauseStart
  <1>2. (op'.id = id /\ op'.step = "frozen") \/ UNCHANGED op
    <2>1. op' = [id |-> id, step |-> "frozen", name |-> "vmstate"] \/ UNCHANGED op
      BY DEF PauseStart
    <2> QED  BY <2>1, SMT
  <1>3. PICK T, N : T = {id} \X Names /\ N = {}
    OBVIOUS
  <1>4. Sound(fs) /\ \A x \in T : x \in T
    BY DEF FileInv, FilesInv
  <1>5. Steps(fs, fs', {}, T, N) /\ Pass(fs, fs', T, N) /\ \A x \in T : ~Named(fs', x)
    BY <1>1, <1>3, <1>4, UnlinkSteps DEF UnlinkBoth
  <1>6. \A n \in Names : ~Named(fs', <<id, n>>)
    <2>1. \A n \in Names : <<id, n>> \in T
      BY <1>3
    <2> QED  BY <1>5, <2>1
  <1>7. OpFiles'
    <2>1. ~Sealing' /\ (op'.step = "frozen" => op'.id = id)
      BY <1>1, <1>2 DEF Sealing, Unlocked
    <2> QED  BY <1>6, <2>1 DEF OpFiles
  <1>8. PausedOk(id) /\ PrivateOk(id)
    <2>1. \A n \in Names : Private(fs', <<id, n>>)
      BY <1>6 DEF Named, Private
    <2> QED  BY <1>1, <2>1 DEF PausedOk, PrivateOk
  <1>9. op'.id \in {id, NoId}
    BY <1>1, <1>2 DEF OpInv, Pausing, Unlocked
  <1>10. /\ DOMAIN live' = DOMAIN live /\ \A j \in DOMAIN live \ {id} : live'[j] = live[j]
         /\ \A x \in T : x[1] = id
         /\ \A x \in N : x[1] = id /\ (~kms => ~Named(fs, x))
    BY <1>1, <1>3
  <1> QED
    BY <1>1, <1>5, <1>7, <1>8, <1>9, <1>10, PauseFiles

\* The pause that ends, with or without a snapshot.
LEMMA NoOpFields ==
  ASSUME op' = NoOp
  PROVE  op'.id = NoId /\ op'.step = "idle" /\ OpFiles'
  <1> USE Zenon
  <1>1. op'.id = NoId /\ op'.step = "idle"
    BY DEF NoOp
  <1> QED
    BY <1>1 DEF OpFiles, Sealing

\* Firecracker writes both files under names that are not there.
LEMMA SnapshotFiles ==
  ASSUME PoolInv, PoolInv', OpInv, FileInv, PauseSnapshot
  PROVE  FileInv' /\ (~kms => SharedKept)
  <1> USE Zenon
  <1>1. PICK d, m : d = op.id /\ m = mem[d]
    OBVIOUS
  <1>2. /\ d \in DOMAIN live /\ ~live[d].paused /\ d \in Dirs /\ op.step = "frozen" /\ snapKey = kms
        /\ UNCHANGED <<mem, kin, kms, pool>>
    BY <1>1 DEF PauseSnapshot, OpInv, Pausing, PoolInv, Dirs
  <1>3. Sound(fs) /\ \A n \in Names : ~Named(fs, <<d, n>>)
    BY <1>1, <1>2 DEF FileInv, FilesInv, OpFiles
  <1>4. CASE op' = NoOp /\ UNCHANGED <<fs, vm, live>>
    <2>1. op'.id = NoId /\ OpFiles'
      BY <1>4, NoOpFields
    <2>2. PICK T, N : T = {} /\ N = {}
      OBVIOUS
    <2>3. Steps(fs, fs', {}, T, N) /\ Pass(fs, fs', T, N)
      BY <1>3, <1>4, NoSteps
    <2>4. /\ DOMAIN live' = DOMAIN live /\ \A j \in DOMAIN live \ {d} : live'[j] = live[j]
          /\ \A x \in T : x[1] = d
          /\ \A x \in N : x[1] = d /\ (~kms => ~Named(fs, x))
          /\ op'.id \in {d, NoId}
      BY <1>4, <2>1, <2>2
    <2>5. PausedOk(d) /\ PrivateOk(d)
      <3>1. ~live'[d].paused /\ op'.id # d
        BY <1>2, <1>4, <2>1, FcAssumption DEF PoolInv
      <3> QED  BY <3>1 DEF PausedOk, PrivateOk
    <2> QED  BY <1>2, <2>1, <2>3, <2>4, <2>5, PauseFiles
  <1>5. CASE /\ fs' = Store(Store(fs, d, "vmstate", m), d, "mem", m)
             /\ IF snapKey THEN op' = [op EXCEPT !.step = "plain"] /\ UNCHANGED <<vm, live>>
                ELSE Paused(d)
    <2>1. PICK g, T, N : g = Store(fs, d, "vmstate", m) /\ T = {d} \X Names /\ N = T
      OBVIOUS
    <2>2. /\ "vmstate" \in Files /\ "mem" \in Files /\ <<d, "vmstate">> \in T /\ <<d, "mem">> \in T
          /\ <<d, "vmstate">> \in N /\ <<d, "mem">> \in N
      BY <2>1, FileNames
    <2>3. /\ Steps(fs, g, {}, T, N) /\ Pass(fs, g, T, N) /\ Holds(g, <<d, "vmstate">>, m)
          /\ ~Named(g, <<d, "mem">>)
      <3>1. "vmstate" \in Names /\ "mem" \in Names /\ <<d, "mem">> # <<d, "vmstate">>
        BY FileNames
      <3>2. Writes(fs, g, <<d, "vmstate">>, m)
        BY <1>2, <1>3, <2>1, <2>2, StoreWrites
      <3>3. ~Named(g, <<d, "mem">>)
        BY <1>3, <3>1, <3>2 DEF Writes
      <3> QED  BY <1>2, <1>3, <2>1, <2>2, <3>1, <3>3, StoreSteps
    <2>4. Sound(g) /\ fs' = Store(g, d, "mem", m)
      BY <1>5, <2>1, <2>3 DEF Steps
    <2>5. Steps(g, fs', {}, T, N) /\ Pass(g, fs', T, N) /\ Holds(fs', <<d, "mem">>, m)
      BY <1>2, <2>2, <2>3, <2>4, StoreSteps
    <2>6. Holds(fs', <<d, "vmstate">>, m)
      <3>1. <<d, "vmstate">>[2] # "mem"
        OBVIOUS
      <3> QED  BY <1>2, <2>2, <2>3, <2>4, <3>1, StoreOthers
    <2>7. Steps(fs, fs', {}, T, N) /\ Pass(fs, fs', T, N)
      BY <2>3, <2>5, StepsTrans, PassTrans
    <2>8. /\ \A x \in T : x[1] = d
          /\ \A x \in N : x[1] = d /\ (~kms => ~Named(fs, x))
      BY <1>3, <2>1, SMT
    <2>9. PrivateOk(d)
      BY <1>1, <1>2, <2>7, PauseStaysPrivate
    <2>10. CASE snapKey
      <3>1. op' = [op EXCEPT !.step = "plain"] /\ UNCHANGED live
        BY <1>5, <2>10
      <3>2. op'.id = d /\ op'.step = "plain" /\ op'.name = op.name /\ op.name = "vmstate"
        BY <1>1, <1>2, <3>1 DEF OpInv
      <3>3. OpFiles'
        <4>1. op'.step # "frozen" /\ op'.name # "mem" /\ op'.step # "done"
          BY <3>2
        <4>2. mem'[d] = m
          BY <1>1, <1>2
        <4> QED  BY <2>5, <2>6, <3>2, <4>1, <4>2 DEF OpFiles
      <3>4. PausedOk(d)
        BY <1>2, <3>1 DEF PausedOk
      <3>5. /\ DOMAIN live' = DOMAIN live /\ \A j \in DOMAIN live \ {d} : live'[j] = live[j]
            /\ op'.id \in {d, NoId}
        BY <3>1, <3>2
      <3> QED  BY <1>2, <2>7, <2>8, <2>9, <3>3, <3>4, <3>5, PauseFiles
    <2>11. CASE ~snapKey
      <3>1. Paused(d) /\ op' = NoOp
        BY <1>5, <2>11 DEF Paused
      <3>2. op'.id = NoId /\ OpFiles'
        BY <3>1, NoOpFields
      <3>3. /\ DOMAIN live' = DOMAIN live /\ \A j \in DOMAIN live \ {d} : live'[j] = live[j]
        <4>1. live[d] \in Instance /\ TRUE \in BOOLEAN
          BY <1>2 DEF PoolInv
        <4> QED  BY <1>2, <3>1, <4>1, PausedSet DEF Paused
      <3>4. PausedOk(d)
        <4>1. ~kms' /\ mem'[d] = m
          BY <1>1, <1>2, <2>11
        <4>2. \A n \in Names : Holds(fs', <<d, n>>, m)
          BY <2>5, <2>6, FileNames
        <4> QED  BY <4>1, <4>2 DEF PausedOk
      <3>5. op'.id \in {d, NoId}
        BY <3>2
      <3> QED  BY <1>2, <2>7, <2>8, <2>9, <3>2, <3>3, <3>4, <3>5, PauseFiles
    <2> QED  BY <2>10, <2>11
  <1> QED
    BY <1>1, <1>4, <1>5 DEF PauseSnapshot

\* The container is opened and written beside the plaintext.
LEMMA SealFiles ==
  ASSUME PoolInv, OpInv, FileInv, SealOpen \/ SealWrite
  PROVE  FileInv' /\ (~kms => SharedKept)
  <1> USE Zenon
  <1>1. PICK d, m, n, s : d = op.id /\ m = mem[d] /\ n = op.name /\ s = Sealed(n)
    OBVIOUS
  <1>2. /\ d \in DOMAIN live /\ ~live[d].paused /\ d \in Dirs /\ Sealing /\ kms
        /\ UNCHANGED <<live, mem, kin, kms, pool>> /\ n \in Names
    <2>1. Sealing /\ Pausing /\ UNCHANGED <<live, mem, kin, kms, pool>>
      BY DEF SealOpen, SealWrite, Sealing, Pausing
    <2> QED  BY <1>1, <2>1 DEF OpInv, PoolInv, Dirs
  <1>3. /\ s \in Files /\ n # s /\ "mem" # s /\ n \in Files
        /\ n = "mem" => "vmstate.enc" # s
    BY <1>1, <1>2, FileNames
  <1>4. /\ Sound(fs) /\ Holds(fs, <<d, n>>, m) /\ Holds(fs, <<d, "mem">>, m)
        /\ n = "mem" => Holds(fs, <<d, "vmstate.enc">>, Seal(m))
    BY <1>1, <1>2 DEF FileInv, FilesInv, OpFiles
  <1>5. PICK c, T, N : /\ fs' = Store(fs, d, s, c) /\ T = {<<d, s>>} /\ N = T
                       /\ SealWrite => c = Seal(m)
    <2>1. SealOpen => fs' = Store(fs, d, s, Half)
      BY <1>1 DEF SealOpen, EncryptOpen
    <2>2. SealWrite => fs' = Store(fs, d, s, Seal(Content(fs, d, n)))
      BY <1>1 DEF SealWrite, EncryptDone
    <2>3. Content(fs, d, n) = m
      BY <1>4, ContentHeld
    <2>4. ~(SealOpen /\ SealWrite)
      BY DEF SealOpen, SealWrite
    <2> QED  BY <2>1, <2>2, <2>3, <2>4
  <1>6. Steps(fs, fs', {}, T, N) /\ Holds(fs', <<d, s>>, c)
    <2>1. <<d, s>> \in T /\ <<d, s>> \in N
      BY <1>5
    <2>2. PICK g : g = Store(fs, d, s, c)
      OBVIOUS
    <2>3. Steps(fs, g, {}, T, N) /\ Holds(g, <<d, s>>, c)
      BY <1>2, <1>3, <1>4, <2>1, <2>2, StoreSteps
    <2> QED  BY <1>5, <2>2, <2>3
  <1>7. /\ Holds(fs', <<d, n>>, m) /\ Holds(fs', <<d, "mem">>, m)
        /\ n = "mem" => Holds(fs', <<d, "vmstate.enc">>, Seal(m))
    <2>1. \A k : <<d, k>>[2] = k
      OBVIOUS
    <2>2. \A k, e : k # s /\ Holds(fs, <<d, k>>, e) => Holds(fs', <<d, k>>, e)
      BY <1>2, <1>3, <1>4, <1>5, <2>1, StoreOthers
    <2> QED  BY <1>3, <1>4, <2>2
  <1>8. op'.id = d /\ op'.name = n /\ op'.step # "frozen" /\ (op'.step = "done" => SealWrite)
    <2>1. op' = [op EXCEPT !.step = "open"] \/ (SealWrite /\ op' = [op EXCEPT !.step = "done"])
      BY DEF SealOpen, SealWrite
    <2> QED  BY <1>1, <2>1 DEF OpInv
  <1>9. OpFiles'
    <2>1. mem'[d] = m
      BY <1>1, <1>2
    <2>2. op'.step = "done" => Holds(fs', <<d, s>>, Seal(m))
      BY <1>5, <1>6, <1>8
    <2> QED  BY <1>1, <1>7, <1>8, <2>1, <2>2 DEF OpFiles
  <1>10. PausedOk(d)
    BY <1>2 DEF PausedOk
  <1>11. PrivateOk(d)
    BY <1>1, <1>2, <1>6, PauseStaysPrivate
  <1>12. /\ DOMAIN live' = DOMAIN live /\ \A j \in DOMAIN live \ {d} : live'[j] = live[j]
         /\ \A x \in T : x[1] = d
         /\ \A x \in N : x[1] = d /\ (~kms => ~Named(fs, x))
         /\ op'.id \in {d, NoId}
    BY <1>2, <1>5, <1>8, SMT
  <1> QED
    BY <1>2, <1>6, <1>9, <1>10, <1>11, <1>12, PauseFiles

\* The plaintext is shredded once its container is complete.
LEMMA SealShredFiles ==
  ASSUME PoolInv, OpInv, FileInv, SealShred
  PROVE  FileInv' /\ (~kms => SharedKept)
  <1> USE Zenon
  <1>1. PICK d, m, n : d = op.id /\ m = mem[d] /\ n = op.name
    OBVIOUS
  <1>2. /\ d \in DOMAIN live /\ ~live[d].paused /\ d \in Dirs /\ kms /\ op.step = "done" /\ Sealing
        /\ UNCHANGED <<mem, kin, kms, pool>> /\ n \in Names
    <2>1. Sealing /\ Pausing /\ op.step = "done" /\ UNCHANGED <<mem, kin, kms, pool>>
      BY DEF SealShred, Sealing, Pausing
    <2> QED  BY <1>1, <2>1 DEF OpInv, PoolInv, Dirs
  <1>3. /\ Sound(fs) /\ Holds(fs, <<d, n>>, m) /\ Holds(fs, <<d, "mem">>, m)
        /\ n = "mem" => Holds(fs, <<d, "vmstate.enc">>, Seal(m))
        /\ Holds(fs, <<d, Sealed(n)>>, Seal(m))
    BY <1>1, <1>2 DEF FileInv, FilesInv, OpFiles
  <1>4. PICK T, N : T = {<<d, n>>} /\ N = {}
    OBVIOUS
  <1>5. fs' = Shred(fs, d, n)
    BY <1>1 DEF SealShred
  <1>6. /\ Steps(fs, fs', {}, T, N)
        /\ \A k, e : k # n /\ Holds(fs, <<d, k>>, e) => Holds(fs', <<d, k>>, e)
    <2>1. <<d, n>> \in T /\ n \in Files
      BY <1>2, <1>4, FileNames
    <2>2. /\ Steps(fs, fs', {}, T, N)
          /\ \A x, e : x # <<d, n>> /\ (Private(fs, <<d, n>>) \/ x[2] # n) /\ Holds(fs, x, e) => Holds(fs', x, e)
      BY <1>2, <1>3, <1>5, <2>1, ShredSteps
    <2>3. \A k : k # n => <<d, k>> # <<d, n>> /\ <<d, k>>[2] # n
      OBVIOUS
    <2> QED  BY <2>2, <2>3
  <1>7. PrivateOk(d)
    BY <1>1, <1>2, <1>6, PauseStaysPrivate
  <1>8. /\ \A x \in T : x[1] = d
        /\ \A x \in N : x[1] = d /\ (~kms => ~Named(fs, x))
        /\ mem'[d] = m
    BY <1>1, <1>2, <1>4, SMT
  <1>9. CASE n = "vmstate"
    <2>1. op' = [op EXCEPT !.step = "plain", !.name = "mem"] /\ UNCHANGED live
      BY <1>1, <1>9 DEF SealShred
    <2>2. op'.id = d /\ op'.step = "plain" /\ op'.name = "mem"
      BY <1>1, <2>1 DEF OpInv
    <2>3. Holds(fs', <<d, "mem">>, m) /\ Holds(fs', <<d, "vmstate.enc">>, Seal(m))
      <3>1. "mem" # n /\ "vmstate.enc" # n /\ Sealed(n) = "vmstate.enc"
        BY <1>9, FileNames
      <3> QED  BY <1>3, <1>6, <3>1
    <2>4. OpFiles'
      <3>1. op'.step # "frozen" /\ op'.step # "done"
        BY <2>2
      <3> QED  BY <1>8, <2>2, <2>3, <3>1 DEF OpFiles
    <2>5. PausedOk(d)
      BY <1>2, <2>1 DEF PausedOk
    <2>6. /\ DOMAIN live' = DOMAIN live /\ \A j \in DOMAIN live \ {d} : live'[j] = live[j]
          /\ op'.id \in {d, NoId} /\ (~kms => Pass(fs, fs', T, N))
      BY <1>2, <2>1, <2>2
    <2> QED  BY <1>2, <1>6, <1>7, <1>8, <2>4, <2>5, <2>6, PauseFiles
  <1>10. CASE n = "mem"
    <2>1. Paused(d)
      BY <1>1, <1>10 DEF SealShred
    <2>2. op'.id = NoId /\ OpFiles'
      BY <2>1, NoOpFields DEF Paused
    <2>3. DOMAIN live' = DOMAIN live /\ \A j \in DOMAIN live \ {d} : live'[j] = live[j]
      <3>1. live[d] \in Instance /\ TRUE \in BOOLEAN
        BY <1>2 DEF PoolInv
      <3> QED  BY <1>2, <2>1, <3>1, PausedSet DEF Paused
    <2>4. \A k \in Names : Holds(fs', <<d, Sealed(k)>>, Seal(m))
      <3>1. "vmstate.enc" # n /\ "mem.enc" # n /\ Sealed(n) = "mem.enc"
        BY <1>10, FileNames
      <3>2. Holds(fs', <<d, "vmstate.enc">>, Seal(m)) /\ Holds(fs', <<d, "mem.enc">>, Seal(m))
        BY <1>3, <1>6, <1>10, <3>1
      <3> QED  BY <3>2, FileNames
    <2>5. PausedOk(d)
      BY <1>2, <1>8, <2>4 DEF PausedOk
    <2>6. op'.id \in {d, NoId} /\ (~kms => Pass(fs, fs', T, N))
      BY <1>2, <2>2
    <2> QED  BY <1>2, <1>6, <1>7, <1>8, <2>2, <2>3, <2>5, <2>6, PauseFiles
  <1> QED
    BY <1>2, <1>9, <1>10, FileNames

\* Sealing failed: all four files go, and the sandbox is not paused.
LEMMA SealFailFiles ==
  ASSUME PoolInv, OpInv, FileInv, SealFail
  PROVE  FileInv' /\ (~kms => SharedKept)
  <1> USE Zenon
  <1>1. PICK d : d = op.id
    OBVIOUS
  <1>2. /\ d \in DOMAIN live /\ ~live[d].paused /\ d \in Dirs /\ kms
        /\ UNCHANGED <<live, mem, kin, kms, pool>> /\ op' = NoOp
    <2>1. Sealing /\ Pausing /\ UNCHANGED <<live, mem, kin, kms, pool>> /\ op' = NoOp
      BY DEF SealFail, Sealing, Pausing
    <2> QED  BY <1>1, <2>1 DEF OpInv, PoolInv, Dirs
  <1>3. PICK T, N : T = {d} \X Files /\ N = {}
    OBVIOUS
  <1>4. /\ Sound(fs) /\ \A n \in Names : <<d, n>> \in T
        /\ <<d, "vmstate.enc">> \in T /\ <<d, "mem.enc">> \in T
        /\ "vmstate.enc" \in Files /\ "mem.enc" \in Files
    BY <1>3, FileNames DEF FileInv, FilesInv
  <1>5. PICK f, g, h : f = ShredBoth(fs, d) /\ g = Shred(f, d, "vmstate.enc") /\ h = Shred(g, d, "mem.enc")
    OBVIOUS
  <1>6. Steps(fs, f, {}, T, N)
    BY <1>2, <1>4, <1>5, ShredBothSteps
  <1>7. Steps(f, g, {}, T, N)
    <2>1. Sound(f)
      BY <1>6 DEF Steps
    <2> QED  BY <1>2, <1>4, <1>5, <2>1, ShredSteps
  <1>8. Steps(g, h, {}, T, N)
    <2>1. Sound(g)
      BY <1>7 DEF Steps
    <2> QED  BY <1>2, <1>4, <1>5, <2>1, ShredSteps
  <1>9. fs' = h
    BY <1>1, <1>5 DEF SealFail
  <1>10. Steps(fs, fs', {}, T, N)
    BY <1>6, <1>7, <1>8, <1>9, StepsTrans
  <1>11. op'.id = NoId /\ OpFiles' /\ op'.id # d
    BY <1>2, NoOpFields, FcAssumption DEF PoolInv
  <1>12. PausedOk(d) /\ PrivateOk(d)
    BY <1>2, <1>11 DEF PausedOk, PrivateOk
  <1>13. /\ DOMAIN live' = DOMAIN live /\ \A j \in DOMAIN live \ {d} : live'[j] = live[j]
         /\ \A x \in T : x[1] = d
         /\ \A x \in N : x[1] = d /\ (~kms => ~Named(fs, x))
         /\ op'.id \in {d, NoId} /\ (~kms => Pass(fs, fs', T, N))
    BY <1>2, <1>3, <1>11
  <1> QED
    BY <1>2, <1>10, <1>11, <1>12, <1>13, PauseFiles

-----------------------------------------------------------------------------
\* At start there are the template's files and no others.
LEMMA FileInit == Init => FileInv
  <1> USE Zenon
  <1> SUFFICES ASSUME Init PROVE FileInv
    OBVIOUS
  <1>1. fs = {[names |-> {<<Tmpl, n>>}, data |-> Guest(Tmpl, 0)] : n \in Names} /\ DOMAIN live = {}
        /\ op = NoOp
    BY DEF Init, TemplateOnly, EmptyMap
  <1>2. ASSUME NEW i \in fs
        PROVE  \E n \in Names : /\ i = [names |-> {<<Tmpl, n>>}, data |-> Guest(Tmpl, 0)]
                                /\ i.names = {<<Tmpl, n>>} /\ i \in InodeOf(i.data)
    <2>1. PICK n \in Names : i = [names |-> {<<Tmpl, n>>}, data |-> Guest(Tmpl, 0)]
      BY <1>1, <1>2
    <2>2. PICK c : c = Guest(Tmpl, 0)
      OBVIOUS
    <2>3. {<<Tmpl, n>>} \in SUBSET (Dirs \X Files) /\ c \in {c}
      BY FileNames, SMT DEF Dirs
    <2>4. i.names = {<<Tmpl, n>>} /\ i.data = c /\ i \in InodeOf(c)
      BY <2>1, <2>2, <2>3 DEF InodeOf
    <2> QED  BY <2>1, <2>4
  <1>3. ASSUME NEW i \in fs, NEW j \in fs, NEW x \in i.names, x \in j.names PROVE i = j
    <2>1. PICK a \in Names : i = [names |-> {<<Tmpl, a>>}, data |-> Guest(Tmpl, 0)] /\ i.names = {<<Tmpl, a>>}
      BY <1>2
    <2>2. PICK b \in Names : j = [names |-> {<<Tmpl, b>>}, data |-> Guest(Tmpl, 0)] /\ j.names = {<<Tmpl, b>>}
      BY <1>2
    <2>3. <<Tmpl, a>> = <<Tmpl, b>>
      BY <1>3, <2>1, <2>2
    <2> QED  BY <2>1, <2>2, <2>3
  <1>4. ASSUME NEW i \in fs, NEW x \in i.names, NEW y \in i.names PROVE x[2] = y[2]
    <2>1. PICK a : i.names = {a}
      BY <1>2
    <2> QED  BY <1>4, <2>1
  <1>5. Sound(fs)
    BY <1>2, <1>3, <1>4 DEF Sound
  <1>6. ASSUME NEW x, Named(fs, x) PROVE x[1] = Tmpl
    <2>1. PICK n \in Names : x = <<Tmpl, n>>
      BY <1>2, <1>6 DEF Named
    <2> QED  BY <2>1
  <1>7. FilesInv
    BY <1>5, <1>6 DEF FilesInv, Owners
  <1>8. OpFiles /\ PausedFiles
    BY <1>1 DEF OpFiles, PausedFiles, NoOp, Sealing
  <1>9. ASSUME NEW id \in Ids, NEW n PROVE Private(fs, <<id, n>>)
    <2>1. <<id, n>>[1] # Tmpl
      BY FcAssumption
    <2> QED  BY <1>6, <2>1 DEF Named, Private
  <1>10. PrivateInv
    BY <1>1, <1>9 DEF PrivateInv
  <1> QED
    BY <1>7, <1>8, <1>10 DEF FileInv

\* Every step keeps the snapshots, and without encryption every shared inode.
LEMMA FileStep ==
  ASSUME OwnInv, OwnInv', FileInv, [Next]_vars
  PROVE  FileInv' /\ (~kms => SharedKept)
  <1> USE Zenon
  <1>0. PoolInv /\ OpInv /\ PoolInv'
    BY DEF OwnInv
  <1>1. ASSUME NEW id \in Ids, CreateHot(id) \/ CreateWarm(id) \/ CreateCold(id) \/ CreateEgress(id)
        PROVE  FileInv' /\ (~kms => SharedKept)
    BY <1>0, <1>1, CreatePoolFiles, CreateColdFiles, CreateEgressFiles
  <1>2. ASSUME NEW id \in Ids, Destroy(id) \/ PauseStart(id) \/ Resume(id)
        PROVE  FileInv' /\ (~kms => SharedKept)
    BY <1>0, <1>2, DestroyFiles, PauseStartFiles, ResumeFiles
  <1>3. ASSUME NEW id \in Ids, NEW new \in Ids, Fork(id, new)
        PROVE  FileInv' /\ (~kms => SharedKept)
    BY <1>0, <1>3, ForkFiles
  <1>4. CASE PauseSnapshot \/ SealOpen \/ SealWrite \/ SealShred \/ SealFail
    BY <1>0, <1>4, SnapshotFiles, SealFiles, SealShredFiles, SealFailFiles
  <1>5. ASSUME NEW p \in Pools, NEW id \in Ids, RefillPrep(p, id)
        PROVE  FileInv' /\ (~kms => SharedKept)
    BY <1>0, <1>5, RefillFiles
  <1>6. ASSUME NEW p \in Pools, RefillPush(p) \/ PoolStop(p) \/ PoolDrain(p) \/ PoolStart(p)
        PROVE  FileInv' /\ (~kms => SharedKept)
    BY <1>0, <1>6, PoolStateFiles, DrainFiles
  <1>7. CASE UNCHANGED vars
    <2>1. UNCHANGED <<fs, live, mem, kin, op, kms, pool>>
      BY <1>7 DEF vars
    <2> QED  BY <1>0, <2>1, FilesUntouched
  <1> QED
    BY <1>1, <1>2, <1>3, <1>4, <1>5, <1>6, <1>7 DEF Next

\* The invariant of the backend.
LEMMA BackendHolds == Spec => [](OwnInv /\ FileInv)
  <1> USE Zenon
  <1>1. Init => FileInv
    BY FileInit
  <1>2. OwnInv /\ OwnInv' /\ FileInv /\ [Next]_vars => FileInv'
    BY FileStep
  <1> QED
    BY <1>1, <1>2, OwnHolds, PTL DEF Spec

\* From the moment Firecracker has written a snapshot, through every step of
\* sealing it and for as long as the sandbox is paused, each of its two files
\* exists in full, in the clear or sealed: for any number of sandboxes, forks
\* and pool slots, and whatever the others do meanwhile.
THEOREM SnapshotsSurvive == Spec => []SnapshotSurvives
  <1> USE Zenon
  <1>1. OwnInv /\ FileInv => SnapshotSurvives
    <2> SUFFICES ASSUME OwnInv, FileInv, NEW id \in DOMAIN live,
                        live[id].paused \/ (op.id = id /\ Sealing), op.id = id \/ id \notin kin, NEW n \in Names
                 PROVE  Intact(id, n)
      BY DEF SnapshotSurvives, Sealing
    <2>1. Sound(fs) /\ Names = {"vmstate", "mem"} /\ Sealed("vmstate") = "vmstate.enc"
      BY FileNames DEF FileInv, FilesInv
    <2>2. Holds(fs, <<id, n>>, mem[id]) \/ Holds(fs, <<id, Sealed(n)>>, Seal(mem[id])) => Intact(id, n)
      BY <2>1, ContentHeld DEF Intact
    <2>3. CASE live[id].paused
      <3>1. op.id # id
        <4>1. op.id = id => Pausing
          BY FcAssumption DEF OwnInv, OpInv, PoolInv
        <4> QED  BY <2>3, <4>1 DEF OwnInv, OpInv
      <3> QED  BY <2>2, <2>3, <3>1 DEF FileInv, PausedFiles
    <2>4. CASE op.id = id /\ Sealing
      <3>1. op.name \in Names
        BY DEF OwnInv, OpInv
      <3>2. /\ Holds(fs, <<id, op.name>>, mem[id]) /\ Holds(fs, <<id, "mem">>, mem[id])
            /\ op.name = "mem" => Holds(fs, <<id, "vmstate.enc">>, Seal(mem[id]))
        BY <2>4 DEF FileInv, OpFiles
      <3> QED  BY <2>1, <2>2, <3>1, <3>2
    <2> QED  BY <2>3, <2>4
  <1> QED
    BY <1>1, BackendHolds, PTL

\* Without encryption no operation writes through a hard link: neither the
\* template nor a parent's snapshot changes under the instances linked to it.
THEOREM PlainFilesKept == Spec => PlainSharedKept
  <1>1. OwnInv /\ OwnInv' /\ FileInv /\ [Next]_vars => [~kms => SharedKept]_vars
    BY FileStep, Zenon
  <1> QED
    BY <1>1, OwnHolds, BackendHolds, PTL DEF Spec, PlainSharedKept
=============================================================================
