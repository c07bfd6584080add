---------------------------- MODULE Envd_proofs ----------------------------
(***************************************************************************)
(* Proofs about Envd, for any number of connections and pids, any capacity *)
(* of the table and any amount of output: a thread gets the status of its  *)
(* own command unless the pid was given away too early, and what the host  *)
(* reads of a stream are whole frames with the exit frame last.            *)
(***************************************************************************)
EXTENDS Envd, TLAPS

Whose == [id : Nat, root : BOOLEAN]
Processes == [id : Nat, root : BOOLEAN, st : {"run", "zombie"}, pipe : BOOLEAN]
Parts == (Outs \cup {"exit"}) \X {"len", "data"}
Steps == {"idle", "ack", "drain", "wait", "asleep", "reply", "closed",
          "pty", "pkill", "pwait", "tunnel", "down"}

RequestKinds == {"none", "exec", "stream", "pty", "connect"}
Amounts == [Outs -> Nat]
Pipes == [Outs -> {0, 1}]
Forwarders == [Outs -> {"none", "read", "discard", "len", "done"}]
Holders == Outs \cup {"free"}

Hosts == {"open", "closed"}
Statuses == Seq(Whose)
Wires == Seq(Parts)

Connections ==
    [pc : Steps, kind : RequestKinds, host : Hosts, id : Nat, pid : Nat, got : Statuses,
     lost : BOOLEAN, clash : BOOLEAN, left : Amounts, pipe : Pipes, fw : Forwarders,
     wlock : Holders, wire : Wires]

TypeInv ==
    /\ ps \in [DOMAIN ps -> Processes] /\ DOMAIN ps \subseteq Pids
    /\ spawns \in Nat
    /\ reaper = <<>> \/ reaper \in Pids \X Whose
    /\ map \in [DOMAIN map -> Whose] /\ DOMAIN map \subseteq Pids
    /\ conn \in [Conns -> Connections]

\* Spawns are numbered from 1; a connection knows one that was made.
IdsInv ==
    /\ \A p \in DOMAIN ps : ps[p].id \in 1..spawns
    /\ \A c \in Conns : conn[c].id <= spawns

\* What the process table, the reaper and the table of statuses say of the
\* pid of a command, and what its thread got.
Owned(r) ==
    /\ r.pid \in DOMAIN ps => ps[r.pid].id = r.id /\ ps[r.pid].root
    /\ reaper # <<>> /\ reaper[1] = r.pid => reaper[2] = [id |-> r.id, root |-> TRUE]
    /\ r.pid \in DOMAIN map => map[r.pid] = [id |-> r.id, root |-> TRUE]
    /\ r.got # <<>> => r.got[1] = [id |-> r.id, root |-> TRUE]

OwnAt(c) ==
    /\ conn[c].pid = 0 => conn[c].got = <<>>
    /\ conn[c].pc = "idle" => conn[c].pid = 0
    /\ conn[c].pid # 0 /\ ~conn[c].clash => Owned(conn[c])

OwnInv == \A c \in Conns : OwnAt(c)

\* No process that runs holds the pipes of the spawn.
PipesClosed(id) == \A p \in DOMAIN ps : ps[p].id = id /\ ps[p].pipe => ps[p].st # "run"

\* The forwarders: which of them ended, and what that means for the pipes.
PipeAt(c) ==
    /\ \A p \in DOMAIN ps : ps[p].id = conn[c].id /\ ps[p].root /\ conn[c].kind # "pty" => ps[p].pipe
    /\ conn[c].pc = "idle" => conn[c].fw = All("none") /\ conn[c].pipe = All(0)
    /\ conn[c].pc = "idle" => conn[c].id = 0 /\ conn[c].wlock = "free" /\ conn[c].wire = <<>>
    /\ conn[c].pc = "ack" => conn[c].fw = All("none")
    /\ \A k \in Outs : conn[c].fw[k] # "none" => conn[c].kind # "pty"
    /\ \A k \in Outs : conn[c].fw[k] = "done" => conn[c].pipe[k] = 0 /\ PipesClosed(conn[c].id)
    /\ conn[c].pc \in {"wait", "asleep", "reply"} => Gone(c) \/ conn[c].fw = All("done")

PipeInv == \A c \in Conns : PipeAt(c)

\* Frames up to a length that may still wait for its data.
Whole(w) ==
    \A i \in 1..Len(w) :
        /\ w[i][2] = IF i % 2 = 1 THEN "len" ELSE "data"
        /\ i % 2 = 0 => w[i - 1][1] = w[i][1]

\* Who holds wlock is between length and data, and the wire shows it.
Framed(r) ==
    /\ \A k \in Outs : r.fw[k] = "len" <=> r.wlock = k
    /\ Whole(r.wire)
    /\ r.host = "closed" => r.wire = <<>>
    /\ r.wlock = "free" => Len(r.wire) % 2 = 0
    /\ r.wlock # "free" /\ r.host = "open" => Len(r.wire) % 2 = 1 /\ r.wire[Len(r.wire)][1] = r.wlock
    /\ \A i \in 1..Len(r.wire) : r.wire[i][1] = "exit" =>
          i > Len(r.wire) - 2 /\ r.fw = All("done") /\ r.pc = "closed"

WireInv == \A c \in Conns : Framed(conn[c])

EnvdInv == TypeInv /\ IdsInv /\ OwnInv /\ PipeInv /\ WireInv
-----------------------------------------------------------------------------
(***************************************************************************)
(* What the steps do to a connection.                                      *)
(***************************************************************************)
Only(c) ==
    /\ conn' \in [Conns -> Connections]
    /\ \A d \in Conns : d # c => conn'[d] = conn[d]

KeepsOwn(r, s) == s.id = r.id /\ s.pid = r.pid /\ s.got = r.got /\ s.clash = r.clash
KeepsPipes(r, s) == s.kind = r.kind /\ s.id = r.id /\ s.fw = r.fw /\ s.pipe = r.pipe
KeepsWire(r, s) == s.host = r.host /\ s.fw = r.fw /\ s.wlock = r.wlock /\ s.wire = r.wire

\* The connection is as new, or at its end.
Fresh(s) ==
    /\ s.id = 0 /\ s.pid = 0 /\ s.got = <<>> /\ s.kind = "none"
    /\ s.fw = All("none") /\ s.pipe = All(0) /\ s.wlock = "free" /\ s.wire = <<>>

\* The connection after a step is a connection again.
LEMMA OnlyOne ==
  ASSUME TypeInv, NEW c \in Conns, NEW r \in Connections, conn' = [conn EXCEPT ![c] = r]
  PROVE  Only(c) /\ conn'[c] = r
  BY Zenon DEF TypeInv, Only

\* The same, for a step that sets several parts of the connection.
LEMMA OnlyTurns ==
  ASSUME NEW c \in Conns, conn \in [Conns -> Connections],
         conn' = [d \in Conns |-> conn'[d]], conn'[c] \in Connections,
         \A d \in Conns : d # c => conn'[d] = conn[d]
  PROVE  Only(c)
  <1> USE Zenon
  <1>1. \A d \in Conns : conn'[d] \in Connections
    OBVIOUS
  <1> QED
    BY <1>1 DEF Only

\* handle_conn begins and ends with nothing in hand.
LEMMA FreshStates ==
  ASSUME NEW h \in {"open", "closed"}
  PROVE  /\ Ready(h) \in Connections /\ Fresh(Ready(h)) /\ Ready(h).pc = "idle" /\ Ready(h).host = h
         /\ Closed \in Connections /\ Fresh(Closed) /\ Closed.pc = "closed" /\ Closed.host = "closed"
  <1> USE Zenon
  <1>1. <<>> \in Statuses /\ <<>> \in Wires
    BY SMT DEF Statuses, Wires
  <1>2. All(0) \in Amounts /\ All(0) \in Pipes /\ All("none") \in Forwarders
    BY DEF All, Amounts, Pipes, Forwarders
  <1>3. \A g \in {"open", "closed"} :
          /\ Ready(g) \in Connections /\ Fresh(Ready(g)) /\ Ready(g).pc = "idle" /\ Ready(g).host = g
    BY <1>1, <1>2, SMT DEF Ready, Connections, Steps, Fresh, RequestKinds, Holders, Hosts
  <1>4. /\ Closed \in Connections /\ Fresh(Closed) /\ Closed.pc = "closed" /\ Closed.host = "closed"
    <2>1. Ready("closed") \in Connections /\ Fresh(Ready("closed")) /\ Ready("closed").host = "closed"
      BY <1>3
    <2> DEFINE r == Ready("closed")
    <2> HIDE DEF r
    <2>2. r \in Connections /\ Fresh(r) /\ r.host = "closed"
      BY <2>1 DEF r
    <2>3. /\ [r EXCEPT !.pc = "closed"] \in Connections
          /\ Fresh([r EXCEPT !.pc = "closed"])
          /\ [r EXCEPT !.pc = "closed"].pc = "closed" /\ [r EXCEPT !.pc = "closed"].host = "closed"
      BY <2>2 DEF Connections, Fresh, Steps
    <2> QED
      BY <2>3 DEF Closed, r
  <1> QED
    BY <1>3, <1>4

\* Goto moves the thread and nothing else.
LEMMA GotoDoes ==
  ASSUME TypeInv, NEW c \in Conns, NEW pc \in Steps, Goto(c, pc)
  PROVE  /\ Only(c) /\ conn'[c].pc = pc
         /\ KeepsOwn(conn[c], conn'[c]) /\ KeepsPipes(conn[c], conn'[c]) /\ KeepsWire(conn[c], conn'[c])
  <1> USE Zenon
  <1>1. conn[c] \in Connections
    BY DEF TypeInv
  <1>2. [conn[c] EXCEPT !.pc = pc] \in Connections
    BY <1>1 DEF Connections
  <1>3. Only(c) /\ conn'[c] = [conn[c] EXCEPT !.pc = pc]
    BY <1>2, OnlyOne DEF Goto
  <1>4. conn'[c].pc = pc /\ KeepsOwn(conn[c], conn'[c]) /\ KeepsPipes(conn[c], conn'[c]) /\ KeepsWire(conn[c], conn'[c])
    BY <1>1, <1>3 DEF Connections, KeepsOwn, KeepsPipes, KeepsWire
  <1> QED
    BY <1>3, <1>4

\* The end of a connection.
LEMMA CloseDoes ==
  ASSUME TypeInv, NEW c \in Conns, conn' = [conn EXCEPT ![c] = Closed]
  PROVE  Only(c) /\ conn'[c].pc = "closed" /\ Fresh(conn'[c]) /\ conn'[c].host = "closed"
  BY FreshStates, OnlyOne, Zenon

\* The output of a command goes into its pipe.
LEMMA WritesDoes ==
  ASSUME TypeInv, NEW c \in Conns, NEW k \in Outs, Writes(c, k)
  PROVE  /\ Only(c) /\ conn'[c].pc = conn[c].pc /\ conn'[c].kind = conn[c].kind
         /\ KeepsOwn(conn[c], conn'[c]) /\ KeepsWire(conn[c], conn'[c])
         /\ conn'[c].pipe = [conn[c].pipe EXCEPT ![k] = 1]
  <1> USE Zenon
  <1>1. conn[c] \in Connections /\ conn \in [Conns -> Connections]
    BY DEF TypeInv
  <1> DEFINE left == [conn[c].left EXCEPT ![k] = conn[c].left[k] - 1]
             pipe == [conn[c].pipe EXCEPT ![k] = 1]
  <1>2. left \in Amounts /\ pipe \in Pipes
    BY <1>1, SMT DEF Writes, Connections, Amounts, Pipes
  <1>3. conn'[c] = [conn[c] EXCEPT !.left = left, !.pipe = pipe]
    BY DEF Writes, TypeInv
  <1>4. \A d \in Conns : d # c => conn'[d] = conn[d]
    BY DEF Writes, TypeInv
  <1>5. conn' = [d \in Conns |-> conn'[d]]
    BY DEF Writes, TypeInv
  <1> HIDE DEF left, pipe
  <1>6. conn'[c] \in Connections
    <2> DEFINE q == [conn[c] EXCEPT !.left = left]
    <2>1. q \in Connections
      BY <1>1, <1>2 DEF Connections
    <2>2. conn'[c] = [q EXCEPT !.pipe = pipe]
      BY <1>3
    <2> HIDE DEF q
    <2>3. [q EXCEPT !.pipe = pipe] \in Connections
      BY <1>2, <2>1 DEF Connections
    <2> QED
      BY <2>2, <2>3
  <1>7. /\ conn'[c].pc = conn[c].pc /\ conn'[c].kind = conn[c].kind
        /\ KeepsOwn(conn[c], conn'[c]) /\ KeepsWire(conn[c], conn'[c]) /\ conn'[c].pipe = pipe
    BY <1>1, <1>3 DEF Connections, KeepsOwn, KeepsWire
  <1> QED
    BY <1>1, <1>4, <1>5, <1>6, <1>7, OnlyTurns DEF pipe

\* A reader of run_exec, or a forwarder after a failed write, empties a pipe.
LEMMA FwReadDoes ==
  ASSUME TypeInv, NEW c \in Conns, NEW k \in Outs, FwRead(c, k)
  PROVE  /\ Only(c) /\ conn'[c].pc = conn[c].pc /\ conn'[c].kind = conn[c].kind
         /\ KeepsOwn(conn[c], conn'[c]) /\ KeepsWire(conn[c], conn'[c])
         /\ conn'[c].pipe = [conn[c].pipe EXCEPT ![k] = 0]
  <1> USE Zenon
  <1>1. conn[c] \in Connections
    BY DEF TypeInv
  <1> DEFINE pipe == [conn[c].pipe EXCEPT ![k] = 0]
  <1>2. pipe \in Pipes
    BY <1>1 DEF Connections, Pipes
  <1>3. conn' = [conn EXCEPT ![c] = [conn[c] EXCEPT !.pipe = pipe]]
    BY DEF FwRead
  <1> HIDE DEF pipe
  <1>4. [conn[c] EXCEPT !.pipe = pipe] \in Connections
    BY <1>1, <1>2 DEF Connections
  <1>5. Only(c) /\ conn'[c] = [conn[c] EXCEPT !.pipe = pipe]
    BY <1>3, <1>4, OnlyOne
  <1>6. /\ conn'[c].pc = conn[c].pc /\ conn'[c].kind = conn[c].kind
        /\ KeepsOwn(conn[c], conn'[c]) /\ KeepsWire(conn[c], conn'[c]) /\ conn'[c].pipe = pipe
    BY <1>1, <1>5 DEF Connections, KeepsOwn, KeepsWire
  <1> QED
    BY <1>5, <1>6 DEF pipe

\* The end of a pipe.
LEMMA FwEofDoes ==
  ASSUME TypeInv, NEW c \in Conns, NEW k \in Outs, FwEof(c, k)
  PROVE  /\ Only(c) /\ conn'[c].pc = conn[c].pc /\ conn'[c].kind = conn[c].kind
         /\ KeepsOwn(conn[c], conn'[c]) /\ conn'[c].pipe = conn[c].pipe
         /\ conn'[c].host = conn[c].host /\ conn'[c].wlock = conn[c].wlock /\ conn'[c].wire = conn[c].wire
         /\ conn'[c].fw = [conn[c].fw EXCEPT ![k] = "done"]
  <1> USE Zenon
  <1>1. conn[c] \in Connections
    BY DEF TypeInv
  <1> DEFINE fw == [conn[c].fw EXCEPT ![k] = "done"]
  <1>2. fw \in Forwarders
    BY <1>1 DEF Connections, Forwarders
  <1>3. conn' = [conn EXCEPT ![c] = [conn[c] EXCEPT !.fw = fw]]
    BY DEF FwEof
  <1> HIDE DEF fw
  <1>4. [conn[c] EXCEPT !.fw = fw] \in Connections
    BY <1>1, <1>2 DEF Connections
  <1>5. Only(c) /\ conn'[c] = [conn[c] EXCEPT !.fw = fw]
    BY <1>3, <1>4, OnlyOne
  <1>6. /\ conn'[c].pc = conn[c].pc /\ conn'[c].kind = conn[c].kind
        /\ KeepsOwn(conn[c], conn'[c]) /\ conn'[c].pipe = conn[c].pipe
        /\ conn'[c].host = conn[c].host /\ conn'[c].wlock = conn[c].wlock /\ conn'[c].wire = conn[c].wire
        /\ conn'[c].fw = fw
    BY <1>1, <1>5 DEF Connections, KeepsOwn
  <1> QED
    BY <1>5, <1>6 DEF fw

\* A forwarder takes a chunk and wlock, and writes the length.
LEMMA FwFrameDoes ==
  ASSUME TypeInv, NEW c \in Conns, NEW k \in Outs, FwFrame(c, k)
  PROVE  /\ Only(c) /\ conn'[c].pc = conn[c].pc /\ conn'[c].kind = conn[c].kind
         /\ KeepsOwn(conn[c], conn'[c]) /\ conn'[c].host = conn[c].host
         /\ conn'[c].pipe = [conn[c].pipe EXCEPT ![k] = 0]
         /\ conn'[c].wlock = k /\ conn'[c].fw = [conn[c].fw EXCEPT ![k] = "len"]
         /\ conn'[c].wire = IF Gone(c) THEN conn[c].wire ELSE Append(conn[c].wire, <<k, "len">>)
  <1> USE Zenon
  <1>1. conn[c] \in Connections /\ conn \in [Conns -> Connections]
    BY DEF TypeInv
  <1> DEFINE pipe == [conn[c].pipe EXCEPT ![k] = 0]
             fw == [conn[c].fw EXCEPT ![k] = "len"]
             wire == IF Gone(c) THEN conn[c].wire ELSE Append(conn[c].wire, <<k, "len">>)
             q == [conn[c] EXCEPT !.pipe = pipe]
             r == [q EXCEPT !.wlock = k]
             s == [r EXCEPT !.fw = fw]
  <1>2. pipe \in Pipes /\ k \in Holders /\ fw \in Forwarders /\ wire \in Wires
    BY <1>1, SMT DEF Connections, Pipes, Holders, Forwarders, Wires, Parts
  <1>3. conn'[c] = [s EXCEPT !.wire = wire]
    BY SMT DEF FwFrame, TypeInv
  <1>4. \A d \in Conns : d # c => conn'[d] = conn[d]
    BY DEF FwFrame, TypeInv
  <1>5. conn' = [d \in Conns |-> conn'[d]]
    BY DEF FwFrame, TypeInv
  <1> HIDE DEF pipe, fw, wire, q, r, s
  <1>6. /\ q \in Connections /\ q.pc = conn[c].pc /\ q.kind = conn[c].kind /\ KeepsOwn(conn[c], q)
        /\ KeepsWire(conn[c], q) /\ q.pipe = pipe
    BY <1>1, <1>2 DEF q, Connections, KeepsOwn, KeepsWire
  <1>7. /\ r \in Connections /\ r.pc = q.pc /\ r.kind = q.kind /\ KeepsOwn(q, r)
        /\ r.pipe = q.pipe /\ r.wlock = k /\ r.fw = q.fw /\ r.host = q.host /\ r.wire = q.wire
    BY <1>6, <1>2 DEF r, Connections, KeepsOwn
  <1>8. /\ s \in Connections /\ s.pc = q.pc /\ s.kind = q.kind /\ KeepsOwn(q, s)
        /\ s.pipe = q.pipe /\ s.wlock = k /\ s.fw = fw /\ s.host = q.host /\ s.wire = q.wire
    BY <1>7, <1>2 DEF s, Connections, KeepsOwn
  <1>9. /\ conn'[c] \in Connections /\ conn'[c].pc = q.pc /\ conn'[c].kind = q.kind /\ KeepsOwn(q, conn'[c])
        /\ conn'[c].pipe = q.pipe /\ conn'[c].wlock = k /\ conn'[c].fw = fw /\ conn'[c].host = q.host
        /\ conn'[c].wire = wire
    BY <1>8, <1>2, <1>3, SMT DEF Connections, KeepsOwn
  <1>10. KeepsOwn(conn[c], conn'[c]) /\ conn'[c].host = conn[c].host
    BY <1>6, <1>9 DEF KeepsOwn, KeepsWire
  <1> QED
    BY <1>1, <1>4, <1>5, <1>6, <1>9, <1>10, OnlyTurns DEF pipe, fw, wire

\* The data follow; wlock is free again.
LEMMA FwDataDoes ==
  ASSUME TypeInv, NEW c \in Conns, NEW k \in Outs, FwData(c, k)
  PROVE  /\ Only(c) /\ conn'[c].pc = conn[c].pc /\ conn'[c].kind = conn[c].kind
         /\ KeepsOwn(conn[c], conn'[c]) /\ conn'[c].host = conn[c].host /\ conn'[c].pipe = conn[c].pipe
         /\ conn'[c].wlock = "free"
         /\ conn'[c].fw = [conn[c].fw EXCEPT ![k] = IF Gone(c) THEN "discard" ELSE "read"]
         /\ conn'[c].wire = IF Gone(c) THEN conn[c].wire ELSE Append(conn[c].wire, <<k, "data">>)
  <1> USE Zenon
  <1>1. conn[c] \in Connections /\ conn \in [Conns -> Connections]
    BY DEF TypeInv
  <1> DEFINE fw == [conn[c].fw EXCEPT ![k] = IF Gone(c) THEN "discard" ELSE "read"]
             wire == IF Gone(c) THEN conn[c].wire ELSE Append(conn[c].wire, <<k, "data">>)
             q == [conn[c] EXCEPT !.wlock = "free"]
             r == [q EXCEPT !.fw = fw]
  <1>2. "free" \in Holders /\ fw \in Forwarders /\ wire \in Wires
    BY <1>1, SMT DEF Connections, Holders, Forwarders, Wires, Parts
  <1>3. conn'[c] = [r EXCEPT !.wire = wire]
    BY DEF FwData, TypeInv
  <1>4. \A d \in Conns : d # c => conn'[d] = conn[d]
    BY DEF FwData, TypeInv
  <1>5. conn' = [d \in Conns |-> conn'[d]]
    BY DEF FwData, TypeInv
  <1> HIDE DEF fw, wire, q, r
  <1>6. /\ q \in Connections /\ q.pc = conn[c].pc /\ q.kind = conn[c].kind /\ KeepsOwn(conn[c], q)
        /\ q.pipe = conn[c].pipe /\ q.wlock = "free" /\ q.host = conn[c].host
    BY <1>1, <1>2 DEF q, Connections, KeepsOwn
  <1>7. /\ r \in Connections /\ r.pc = q.pc /\ r.kind = q.kind /\ KeepsOwn(q, r)
        /\ r.pipe = q.pipe /\ r.wlock = "free" /\ r.fw = fw /\ r.host = q.host
    BY <1>6, <1>2 DEF r, Connections, KeepsOwn
  <1>8. /\ conn'[c] \in Connections /\ conn'[c].pc = q.pc /\ conn'[c].kind = q.kind /\ KeepsOwn(q, conn'[c])
        /\ conn'[c].pipe = q.pipe /\ conn'[c].wlock = "free" /\ conn'[c].fw = fw /\ conn'[c].host = q.host
        /\ conn'[c].wire = wire
    BY <1>7, <1>2, <1>3, SMT DEF Connections, KeepsOwn
  <1>9. KeepsOwn(conn[c], conn'[c])
    BY <1>6, <1>8 DEF KeepsOwn
  <1> QED
    BY <1>1, <1>4, <1>5, <1>6, <1>8, <1>9, OnlyTurns DEF fw, wire

\* The host is gone, and with it what it has not read.
LEMMA HostClosesDoes ==
  ASSUME TypeInv, NEW c \in Conns, HostCloses(c)
  PROVE  /\ Only(c) /\ conn'[c].host = "closed" /\ conn'[c].wire = <<>> /\ conn'[c].pc = conn[c].pc
         /\ \/ Fresh(conn'[c]) /\ conn[c].pc = "closed"
            \/ /\ KeepsOwn(conn[c], conn'[c]) /\ KeepsPipes(conn[c], conn'[c])
               /\ conn'[c].wlock = conn[c].wlock
  <1> USE Zenon
  <1>1. conn[c] \in Connections
    BY DEF TypeInv
  <1>2. CASE conn[c].pc = "closed"
    <2>1. conn' = [conn EXCEPT ![c] = Closed]
      BY <1>2 DEF HostCloses
    <2>2. Only(c) /\ conn'[c].pc = "closed" /\ Fresh(conn'[c]) /\ conn'[c].host = "closed"
      BY <2>1, CloseDoes
    <2>3. conn'[c].wire = <<>>
      BY <2>2 DEF Fresh
    <2> QED
      BY <1>2, <2>2, <2>3
  <1>3. CASE conn[c].pc # "closed"
    <2> DEFINE q == [conn[c] EXCEPT !.host = "closed"]
               r == [q EXCEPT !.wire = <<>>]
    <2>1. conn' = [conn EXCEPT ![c] = r]
      BY <1>3 DEF HostCloses
    <2> HIDE DEF q, r
    <2>2. "closed" \in Hosts /\ <<>> \in Wires
      BY SMT DEF Hosts, Wires
    <2>3. /\ q \in Connections /\ q.host = "closed" /\ q.pc = conn[c].pc /\ KeepsOwn(conn[c], q)
          /\ KeepsPipes(conn[c], q) /\ q.wlock = conn[c].wlock
      BY <1>1, <2>2 DEF q, Connections, KeepsOwn, KeepsPipes
    <2>4. /\ r \in Connections /\ r.host = "closed" /\ r.wire = <<>> /\ r.pc = q.pc /\ KeepsOwn(q, r)
          /\ KeepsPipes(q, r) /\ r.wlock = q.wlock
      BY <2>3, <2>2 DEF r, Connections, KeepsOwn, KeepsPipes
    <2>5. Only(c) /\ conn'[c] = r
      BY <2>1, <2>4, OnlyOne
    <2>6. KeepsOwn(conn[c], r) /\ KeepsPipes(conn[c], r)
      BY <2>3, <2>4 DEF KeepsOwn, KeepsPipes
    <2> QED
      BY <2>3, <2>4, <2>5, <2>6
  <1> QED
    BY <1>2, <1>3

\* handle_exec_stream after the spawn: without a host the child is killed,
\* otherwise the forwarders begin.
LEMMA StreamAckDoes ==
  ASSUME TypeInv, NEW c \in Conns, StreamAck(c)
  PROVE  /\ Only(c) /\ KeepsOwn(conn[c], conn'[c]) /\ conn'[c].kind = "stream"
         /\ conn'[c].host = conn[c].host /\ conn'[c].wlock = conn[c].wlock /\ conn'[c].wire = conn[c].wire
         /\ conn'[c].pipe = conn[c].pipe
         /\ \/ Gone(c) /\ conn'[c].pc = "wait" /\ conn'[c].fw = conn[c].fw
            \/ conn'[c].pc = "drain" /\ conn'[c].fw = All("read")
  <1> USE Zenon
  <1>1. conn[c] \in Connections /\ conn \in [Conns -> Connections] /\ conn[c].kind = "stream"
    BY DEF TypeInv, StreamAck, Is
  <1>2. CASE Gone(c)
    <2>1. "wait" \in Steps /\ All(0) \in Amounts
      BY DEF Steps, Amounts, All
    <2> DEFINE q == [conn[c] EXCEPT !.pc = "wait"]
               r == [q EXCEPT !.left = All(0)]
    <2>a. conn' = [conn EXCEPT ![c].pc = "wait", ![c].left = All(0)]
      BY <1>2 DEF StreamAck
    <2>2. conn'[c] = r
      BY <2>a DEF TypeInv
    <2>3. \A d \in Conns : d # c => conn'[d] = conn[d]
      BY <2>a DEF TypeInv
    <2>4. conn' = [d \in Conns |-> conn'[d]]
      BY <2>a DEF TypeInv
    <2> HIDE DEF q, r
    <2>5. /\ q \in Connections /\ q.pc = "wait" /\ KeepsOwn(conn[c], q)
          /\ KeepsPipes(conn[c], q) /\ KeepsWire(conn[c], q)
      BY <1>1, <2>1 DEF q, Connections, KeepsOwn, KeepsPipes, KeepsWire
    <2>6. r \in Connections /\ r.pc = "wait" /\ KeepsOwn(q, r) /\ KeepsPipes(q, r) /\ KeepsWire(q, r)
      BY <2>5, <2>1 DEF r, Connections, KeepsOwn, KeepsPipes, KeepsWire
    <2>7. KeepsOwn(conn[c], r) /\ KeepsPipes(conn[c], r) /\ KeepsWire(conn[c], r)
      BY <2>5, <2>6 DEF KeepsOwn, KeepsPipes, KeepsWire
    <2>8. Only(c)
      BY <1>1, <2>2, <2>3, <2>4, <2>6, OnlyTurns
    <2> QED
      BY <1>1, <1>2, <2>2, <2>6, <2>7, <2>8 DEF KeepsPipes, KeepsWire
  <1>3. CASE ~Gone(c)
    <2>1. "drain" \in Steps /\ All("read") \in Forwarders
      BY DEF Steps, Forwarders, All
    <2> DEFINE q == [conn[c] EXCEPT !.pc = "drain"]
               r == [q EXCEPT !.fw = All("read")]
    <2>a. conn' = [conn EXCEPT ![c].pc = "drain", ![c].fw = All("read")]
      BY <1>3 DEF StreamAck
    <2>2. conn'[c] = r
      BY <2>a DEF TypeInv
    <2>3. \A d \in Conns : d # c => conn'[d] = conn[d]
      BY <2>a DEF TypeInv
    <2>4. conn' = [d \in Conns |-> conn'[d]]
      BY <2>a DEF TypeInv
    <2> HIDE DEF q, r
    <2>5. /\ q \in Connections /\ q.pc = "drain" /\ KeepsOwn(conn[c], q)
          /\ KeepsPipes(conn[c], q) /\ KeepsWire(conn[c], q)
      BY <1>1, <2>1 DEF q, Connections, KeepsOwn, KeepsPipes, KeepsWire
    <2>6. /\ r \in Connections /\ r.pc = "drain" /\ KeepsOwn(q, r) /\ r.kind = q.kind /\ r.pipe = q.pipe
          /\ r.fw = All("read") /\ r.host = q.host /\ r.wlock = q.wlock /\ r.wire = q.wire
      BY <2>5, <2>1 DEF r, Connections, KeepsOwn
    <2>7. KeepsOwn(conn[c], r)
      BY <2>5, <2>6 DEF KeepsOwn
    <2>8. Only(c)
      BY <1>1, <2>2, <2>3, <2>4, <2>6, OnlyTurns
    <2> QED
      BY <1>1, <2>2, <2>5, <2>6, <2>7, <2>8 DEF KeepsPipes, KeepsWire
  <1> QED
    BY <1>2, <1>3

\* handle_connect.
LEMMA ConnectDoes ==
  ASSUME TypeInv, NEW c \in Conns, Connect(c)
  PROVE  /\ Only(c) /\ conn'[c].pc = "ack" /\ conn'[c].kind = "connect"
         /\ KeepsOwn(conn[c], conn'[c]) /\ KeepsWire(conn[c], conn'[c]) /\ conn'[c].pipe = conn[c].pipe
  <1> USE Zenon
  <1>1. conn[c] \in Connections /\ conn \in [Conns -> Connections]
    BY DEF TypeInv
  <1>2. "ack" \in Steps /\ "connect" \in RequestKinds
    BY DEF Steps, RequestKinds
  <1> DEFINE q == [conn[c] EXCEPT !.kind = "connect"]
             r == [q EXCEPT !.pc = "ack"]
  <1>3. conn'[c] = r
    BY DEF Connect, TypeInv
  <1>4. \A d \in Conns : d # c => conn'[d] = conn[d]
    BY DEF Connect, TypeInv
  <1>5. conn' = [d \in Conns |-> conn'[d]]
    BY DEF Connect, TypeInv
  <1> HIDE DEF q, r
  <1>6. /\ q \in Connections /\ q.kind = "connect" /\ KeepsOwn(conn[c], q) /\ KeepsWire(conn[c], q)
        /\ q.pipe = conn[c].pipe
    BY <1>1, <1>2 DEF q, Connections, KeepsOwn, KeepsWire
  <1>7. /\ r \in Connections /\ r.pc = "ack" /\ r.kind = "connect" /\ KeepsOwn(q, r) /\ KeepsWire(q, r)
        /\ r.pipe = q.pipe
    BY <1>6, <1>2 DEF r, Connections, KeepsOwn, KeepsWire
  <1>8. KeepsOwn(conn[c], r) /\ KeepsWire(conn[c], r)
    BY <1>6, <1>7 DEF KeepsOwn, KeepsWire
  <1> QED
    BY <1>1, <1>3, <1>4, <1>5, <1>6, <1>7, <1>8, OnlyTurns

\* wait_reaped finds the entry of the pid.
LEMMA WaitReapedDoes ==
  ASSUME TypeInv, NEW c \in Conns, WaitReaped(c), conn[c].pid \in DOMAIN map, conn[c].pid # 0
  PROVE  /\ Only(c) /\ conn'[c].pc = "reply" /\ conn'[c].got = <<map[conn[c].pid]>>
         /\ conn'[c].id = conn[c].id /\ conn'[c].pid = conn[c].pid /\ conn'[c].clash = conn[c].clash
         /\ KeepsPipes(conn[c], conn'[c]) /\ KeepsWire(conn[c], conn'[c])
         /\ map' = Drop(map, {conn[c].pid}) /\ reaper' = reaper
  <1> USE Zenon
  <1>1. conn[c] \in Connections /\ conn \in [Conns -> Connections] /\ map[conn[c].pid] \in Whose
    BY DEF TypeInv
  <1> DEFINE got == <<map[conn[c].pid]>>
             q == [conn[c] EXCEPT !.pc = "reply"]
             r == [q EXCEPT !.got = got]
  <1>2. "reply" \in Steps /\ got \in Statuses
    BY <1>1, SMT DEF Steps, Statuses
  <1>3. Status(conn[c].pid) = conn[c].pid /\ Status(conn[c].pid) # 0
    BY DEF Status
  <1>4. /\ conn' = [conn EXCEPT ![c].pc = "reply", ![c].got = got]
        /\ map' = Drop(map, {conn[c].pid}) /\ reaper' = reaper
    BY <1>3 DEF WaitReaped
  <1>5. conn'[c] = r
    BY <1>4 DEF TypeInv
  <1>6. \A d \in Conns : d # c => conn'[d] = conn[d]
    BY <1>4 DEF TypeInv
  <1>7. conn' = [d \in Conns |-> conn'[d]]
    BY <1>4 DEF TypeInv
  <1> HIDE DEF got, q, r
  <1>8. /\ q \in Connections /\ q.pc = "reply" /\ KeepsOwn(conn[c], q)
        /\ KeepsPipes(conn[c], q) /\ KeepsWire(conn[c], q)
    BY <1>1, <1>2 DEF q, Connections, KeepsOwn, KeepsPipes, KeepsWire
  <1>9. /\ r \in Connections /\ r.pc = "reply" /\ r.got = got /\ r.id = q.id /\ r.pid = q.pid
        /\ r.clash = q.clash /\ KeepsPipes(q, r) /\ KeepsWire(q, r)
    BY <1>8, <1>2 DEF r, Connections, KeepsPipes, KeepsWire
  <1>10. KeepsPipes(conn[c], r) /\ KeepsWire(conn[c], r)
    BY <1>8, <1>9 DEF KeepsPipes, KeepsWire
  <1>11. Only(c)
    BY <1>1, <1>5, <1>6, <1>7, <1>9, OnlyTurns
  <1>12. conn'[c].id = conn[c].id /\ conn'[c].pid = conn[c].pid /\ conn'[c].clash = conn[c].clash
    BY <1>5, <1>8, <1>9 DEF KeepsOwn
  <1> QED
    BY <1>4, <1>5, <1>9, <1>10, <1>11, <1>12 DEF got

\* It finds none, and sleeps.
LEMMA WaitSleeps ==
  ASSUME TypeInv, NEW c \in Conns, WaitReaped(c), conn[c].pid \notin DOMAIN map \/ conn[c].pid = 0
  PROVE  Goto(c, "asleep") /\ UNCHANGED table
  <1> USE Zenon
  <1>1. Status(conn[c].pid) = 0
    BY DEF Status
  <1> QED
    BY <1>1 DEF WaitReaped

\* The answer of run_exec makes the connection as new; a stream gets its exit
\* frame, unless the host is gone.
LEMMA ReplyDoes ==
  ASSUME TypeInv, NEW c \in Conns, Reply(c)
  PROVE  /\ Only(c)
         /\ \/ Fresh(conn'[c]) /\ conn'[c].pc \in {"idle", "closed"}
            \/ /\ ~Gone(c) /\ conn'[c].id = 0 /\ conn'[c].pid = 0 /\ conn'[c].got = <<>>
               /\ conn'[c].pc = "closed" /\ conn'[c].kind = conn[c].kind /\ conn'[c].pipe = conn[c].pipe
               /\ conn'[c].host = conn[c].host /\ conn'[c].fw = conn[c].fw /\ conn'[c].wlock = conn[c].wlock
               /\ conn'[c].wire = conn[c].wire \o Frame("exit")
  <1> USE Zenon
  <1>1. conn[c] \in Connections
    BY DEF TypeInv
  <1>2. CASE Gone(c)
    <2>1. conn' = [conn EXCEPT ![c] = Closed]
      BY <1>2 DEF Reply
    <2>2. Only(c) /\ Fresh(conn'[c]) /\ conn'[c].pc = "closed"
      BY <2>1, CloseDoes
    <2> QED
      BY <2>2
  <1>3. CASE ~Gone(c) /\ conn[c].kind = "exec"
    <2>1. conn' = [conn EXCEPT ![c] = Ready("open")]
      BY <1>3 DEF Reply
    <2>2. Ready("open") \in Connections /\ Fresh(Ready("open")) /\ Ready("open").pc = "idle"
      BY FreshStates
    <2>3. Only(c) /\ conn'[c] = Ready("open")
      BY <2>1, <2>2, OnlyOne
    <2> QED
      BY <2>2, <2>3
  <1>4. CASE ~Gone(c) /\ conn[c].kind # "exec"
    <2> DEFINE wire == conn[c].wire \o Frame("exit")
               q == [conn[c] EXCEPT !.pc = "closed"]
               r == [q EXCEPT !.id = 0]
               s == [r EXCEPT !.pid = 0]
               t == [s EXCEPT !.got = <<>>]
               u == [t EXCEPT !.wire = wire]
    <2>1. conn' = [conn EXCEPT ![c] = u]
      BY <1>4 DEF Reply
    <2>2. wire \in Wires /\ "closed" \in Steps /\ 0 \in Nat /\ <<>> \in Statuses
      BY <1>1, SMT DEF Connections, Wires, Parts, Frame, Steps, Statuses
    <2> HIDE DEF wire, q, r, s, t, u
    <2>3. q \in Connections /\ q.pc = "closed" /\ KeepsPipes(conn[c], q) /\ KeepsWire(conn[c], q)
      BY <1>1, <2>2 DEF q, Connections, KeepsPipes, KeepsWire
    <2>4. r \in Connections /\ r.pc = "closed" /\ r.id = 0 /\ r.kind = q.kind /\ r.pipe = q.pipe /\ KeepsWire(q, r)
      BY <2>2, <2>3 DEF r, Connections, KeepsWire
    <2>5. /\ s \in Connections /\ s.pc = "closed" /\ s.id = 0 /\ s.pid = 0
          /\ s.kind = q.kind /\ s.pipe = q.pipe /\ KeepsWire(r, s)
      BY <2>2, <2>4 DEF s, Connections, KeepsWire
    <2>6. /\ t \in Connections /\ t.pc = "closed" /\ t.id = 0 /\ t.pid = 0 /\ t.got = <<>>
          /\ t.kind = q.kind /\ t.pipe = q.pipe /\ KeepsWire(s, t)
      BY <2>2, <2>5 DEF t, Connections, KeepsWire
    <2>7. /\ u \in Connections /\ u.pc = "closed" /\ u.id = 0 /\ u.pid = 0 /\ u.got = <<>>
          /\ u.kind = q.kind /\ u.pipe = q.pipe /\ u.host = t.host /\ u.fw = t.fw /\ u.wlock = t.wlock
          /\ u.wire = wire
      BY <2>2, <2>6 DEF u, Connections
    <2>8. Only(c) /\ conn'[c] = u
      BY <2>1, <2>7, OnlyOne
    <2> QED
      BY <1>4, <2>3, <2>4, <2>5, <2>6, <2>7, <2>8, SMT DEF KeepsPipes, KeepsWire, wire
  <1> QED
    BY <1>2, <1>3, <1>4

\* Only the histories change, and pc from asleep to wait.
Flagged(r, s) ==
    /\ s.id = r.id /\ s.pid = r.pid /\ s.got = r.got /\ (r.clash => s.clash)
    /\ s.pc = r.pc \/ (r.pc = "asleep" /\ s.pc = "wait")
    /\ KeepsPipes(r, s) /\ KeepsWire(r, s)

\* Clash marks those who have the pid.
LEMMA ClashDoes ==
  ASSUME TypeInv, NEW p
  PROVE  /\ Clash(p) \in [Conns -> Connections]
         /\ \A d \in Conns : /\ Flagged(conn[d], Clash(p)[d])
                             /\ conn[d].pid = p => Clash(p)[d].clash
  <1> USE Zenon
  <1>1. ASSUME NEW d \in Conns
        PROVE  /\ Clash(p)[d] \in Connections /\ Flagged(conn[d], Clash(p)[d])
               /\ conn[d].pid = p => Clash(p)[d].clash
    <2>1. conn[d] \in Connections
      BY DEF TypeInv
    <2>2. PICK x \in BOOLEAN : x = (conn[d].clash \/ conn[d].pid = p)
      OBVIOUS
    <2>3. Clash(p)[d] = [conn[d] EXCEPT !.clash = x]
      BY <2>2 DEF Clash
    <2>4. /\ [conn[d] EXCEPT !.clash = x] \in Connections
          /\ \A s : s = [conn[d] EXCEPT !.clash = x] =>
                s.id = conn[d].id /\ s.pid = conn[d].pid /\ s.got = conn[d].got /\ s.clash = x
                /\ s.pc = conn[d].pc /\ KeepsPipes(conn[d], s) /\ KeepsWire(conn[d], s)
      BY <2>1, SMT DEF Connections, KeepsPipes, KeepsWire
    <2> QED
      BY <2>2, <2>3, <2>4 DEF Flagged
  <1>2. Clash(p) = [d \in Conns |-> Clash(p)[d]]
    BY DEF Clash
  <1> QED
    BY <1>1, <1>2

\* So does Lost, on top of what was done to the connections.
LEMMA LostDoes ==
  ASSUME NEW f \in [Conns -> Connections], NEW who
  PROVE  /\ Lost(f, who) \in [Conns -> Connections]
         /\ \A d \in Conns : Flagged(f[d], Lost(f, who)[d])
  <1> USE Zenon
  <1>1. ASSUME NEW d \in Conns
        PROVE  Lost(f, who)[d] \in Connections /\ Flagged(f[d], Lost(f, who)[d])
    <2>1. f[d] \in Connections
      OBVIOUS
    <2>2. PICK x \in BOOLEAN : x = (f[d].lost \/ [id |-> f[d].id, root |-> TRUE] \in who)
      OBVIOUS
    <2>3. Lost(f, who)[d] = [f[d] EXCEPT !.lost = x]
      BY <2>2 DEF Lost
    <2>4. /\ [f[d] EXCEPT !.lost = x] \in Connections
          /\ \A s : s = [f[d] EXCEPT !.lost = x] =>
                s.id = f[d].id /\ s.pid = f[d].pid /\ s.got = f[d].got /\ s.clash = f[d].clash
                /\ s.pc = f[d].pc /\ KeepsPipes(f[d], s) /\ KeepsWire(f[d], s)
      BY <2>1, SMT DEF Connections, KeepsPipes, KeepsWire
    <2> QED
      BY <2>3, <2>4 DEF Flagged
  <1>2. Lost(f, who) = [d \in Conns |-> Lost(f, who)[d]]
    BY DEF Lost
  <1> QED
    BY <1>1, <1>2

\* The insertion wakes the sleepers and marks who lost a status.
LEMMA ReapInsertDoes ==
  ASSUME TypeInv, ReapInsert
  PROVE  /\ conn' \in [Conns -> Connections] /\ \A d \in Conns : Flagged(conn[d], conn'[d])
         /\ \E out : map' = Drop(Bind(map, reaper[1], reaper[2]), out)
  <1> USE Zenon
  <1> DEFINE f == [c \in Conns |-> IF Woken(c) THEN [conn[c] EXCEPT !.pc = "wait"] ELSE conn[c]]
  <1>1. ASSUME NEW c \in Conns PROVE f[c] \in Connections /\ Flagged(conn[c], f[c])
    <2>1. conn[c] \in Connections /\ "wait" \in Steps
      BY DEF TypeInv, Steps
    <2>2. CASE Woken(c)
      <3>1. /\ [conn[c] EXCEPT !.pc = "wait"] \in Connections
            /\ \A s : s = [conn[c] EXCEPT !.pc = "wait"] =>
                  s.id = conn[c].id /\ s.pid = conn[c].pid /\ s.got = conn[c].got /\ s.clash = conn[c].clash
                  /\ s.pc = "wait" /\ KeepsPipes(conn[c], s) /\ KeepsWire(conn[c], s)
        BY <2>1, SMT DEF Connections, KeepsPipes, KeepsWire
      <3>2. f[c] = [conn[c] EXCEPT !.pc = "wait"]
        BY <2>2
      <3> QED
        BY <2>2, <3>1, <3>2 DEF Flagged, Woken
    <2>3. CASE ~Woken(c)
      <3>1. f[c] = conn[c]
        BY <2>3
      <3>2. Flagged(conn[c], conn[c])
        BY DEF Flagged, KeepsPipes, KeepsWire
      <3> QED
        BY <2>1, <3>1, <3>2
    <2> QED
      BY <2>2, <2>3
  <1>2. f \in [Conns -> Connections]
    <2>1. f = [c \in Conns |-> f[c]]
      OBVIOUS
    <2> HIDE DEF f
    <2> QED
      BY <1>1, <2>1
  <1>3. PICK out, who : conn' = Lost(f, who) /\ map' = Drop(Bind(map, reaper[1], reaper[2]), out)
    BY DEF ReapInsert
  <1> HIDE DEF f
  <1>4. conn' \in [Conns -> Connections] /\ \A d \in Conns : Flagged(f[d], conn'[d])
    BY <1>2, <1>3, LostDoes
  <1>5. ASSUME NEW d \in Conns PROVE Flagged(conn[d], conn'[d])
    BY <1>1, <1>4, SMT DEF Flagged, KeepsPipes, KeepsWire
  <1> QED
    BY <1>3, <1>4, <1>5

\* run_exec, handle_exec_stream and handle_pty have spawned.
LEMMA RequestDoes ==
  ASSUME TypeInv, NEW c \in Conns, NEW kind \in Kinds[c] \ {"connect"}, Request(c, kind)
  PROVE  /\ conn' \in [Conns -> Connections] /\ conn[c].pc = "idle"
         /\ \E p \in Pids \ DOMAIN ps :
              /\ ps' = Bind(ps, p, Process(spawns', TRUE, kind # "pty")) /\ spawns' = spawns + 1
              /\ \A d \in Conns : d # c => Flagged(conn[d], conn'[d]) /\ (conn[d].pid = p => conn'[d].clash)
              /\ conn'[c].id = spawns' /\ conn'[c].pid = p /\ conn'[c].got = conn[c].got
              /\ ~conn'[c].clash => ~InUse(p)
              /\ conn'[c].kind = kind /\ conn'[c].pc = (IF kind = "exec" THEN "drain" ELSE "ack")
              /\ conn'[c].pipe = conn[c].pipe
              /\ conn'[c].fw = All(IF kind = "exec" THEN "read" ELSE "none")
              /\ conn'[c].host = conn[c].host /\ conn'[c].wlock = conn[c].wlock /\ conn'[c].wire = conn[c].wire
  <1> USE Zenon
  <1>1. conn[c] \in Connections /\ conn[c].pc = "idle"
    BY DEF TypeInv, Request
  <1> DEFINE left == All(IF kind = "pty" THEN 0 ELSE Chunks[c])
             pc == IF kind = "exec" THEN "drain" ELSE "ack"
             fw == All(IF kind = "exec" THEN "read" ELSE "none")
  <1>a. PICK p \in Pids :
          /\ Spawn(p, kind # "pty")
          /\ conn' = [Clash(p) EXCEPT ![c] =
                [conn[c] EXCEPT !.kind = kind, !.id = spawns', !.pid = p, !.clash = InUse(p),
                                !.left = left, !.pc = pc, !.fw = fw]]
    BY DEF Request
  <1>b. InUse(p) \in BOOLEAN
    BY DEF InUse
  <1>2. PICK x \in BOOLEAN :
          /\ Spawn(p, kind # "pty") /\ x = InUse(p)
          /\ conn' = [Clash(p) EXCEPT ![c] =
                [conn[c] EXCEPT !.kind = kind, !.id = spawns', !.pid = p, !.clash = x,
                                !.left = left, !.pc = pc, !.fw = fw]]
    BY <1>a, <1>b
  <1>3. /\ kind \in RequestKinds /\ spawns' \in Nat /\ p \in Nat /\ left \in Amounts /\ fw \in Forwarders
        /\ pc \in Steps
    <2>1. Kinds[c] \subseteq RequestKinds /\ Chunks[c] \in Nat
      BY EnvdAssumption DEF RequestKinds
    <2>2. spawns' \in Nat /\ p \in Nat
      BY <1>2, EnvdAssumption, SMT DEF Spawn, TypeInv, Pids
    <2> QED
      BY <2>1, <2>2 DEF Amounts, Forwarders, Steps, All
  <1> HIDE DEF left, pc, fw
  <1> DEFINE q1 == [conn[c] EXCEPT !.kind = kind]
             q2 == [q1 EXCEPT !.id = spawns']
             q3 == [q2 EXCEPT !.pid = p]
             q4 == [q3 EXCEPT !.clash = x]
             q5 == [q4 EXCEPT !.left = left]
             q6 == [q5 EXCEPT !.pc = pc]
             q7 == [q6 EXCEPT !.fw = fw]
  <1>4. conn' = [Clash(p) EXCEPT ![c] = q7]
    BY <1>2
  <1> HIDE DEF q1, q2, q3, q4, q5, q6, q7
  <1>5. q1 \in Connections /\ q1.kind = kind /\ q1.got = conn[c].got /\ q1.pipe = conn[c].pipe /\ KeepsWire(conn[c], q1)
    BY <1>1, <1>3 DEF q1, Connections, KeepsWire
  <1>6. /\ q2 \in Connections /\ q2.kind = kind /\ q2.id = spawns'
        /\ q2.got = q1.got /\ q2.pipe = q1.pipe /\ KeepsWire(q1, q2)
    BY <1>5, <1>3 DEF q2, Connections, KeepsWire
  <1>7. /\ q3 \in Connections /\ q3.kind = kind /\ q3.id = spawns' /\ q3.pid = p
        /\ q3.got = q1.got /\ q3.pipe = q1.pipe /\ KeepsWire(q2, q3)
    BY <1>6, <1>3 DEF q3, Connections, KeepsWire
  <1>8. /\ q4 \in Connections /\ q4.kind = kind /\ q4.id = spawns' /\ q4.pid = p /\ q4.clash = x
        /\ q4.got = q1.got /\ q4.pipe = q1.pipe /\ KeepsWire(q3, q4)
    BY <1>7, <1>2 DEF q4, Connections, KeepsWire
  <1>9. q5 \in Connections /\ KeepsOwn(q4, q5) /\ KeepsPipes(q4, q5) /\ KeepsWire(q4, q5)
    BY <1>8, <1>3 DEF q5, Connections, KeepsOwn, KeepsPipes, KeepsWire
  <1>10. q6 \in Connections /\ q6.pc = pc /\ KeepsOwn(q5, q6) /\ KeepsPipes(q5, q6) /\ KeepsWire(q5, q6)
    BY <1>9, <1>3 DEF q6, Connections, KeepsOwn, KeepsPipes, KeepsWire
  <1>11. /\ q7 \in Connections /\ q7.pc = pc /\ q7.fw = fw /\ KeepsOwn(q6, q7) /\ q7.kind = q6.kind /\ q7.pipe = q6.pipe
         /\ q7.host = q6.host /\ q7.wlock = q6.wlock /\ q7.wire = q6.wire
    BY <1>10, <1>3 DEF q7, Connections, KeepsOwn
  <1>12. /\ Clash(p) \in [Conns -> Connections]
         /\ \A d \in Conns : Flagged(conn[d], Clash(p)[d]) /\ (conn[d].pid = p => Clash(p)[d].clash)
    BY ClashDoes
  <1>13. /\ conn' \in [Conns -> Connections] /\ conn'[c] = q7
         /\ \A d \in Conns : d # c => conn'[d] = Clash(p)[d]
    BY <1>4, <1>11, <1>12
  <1>14. /\ q7.id = spawns' /\ q7.pid = p /\ q7.got = conn[c].got /\ q7.clash = x
         /\ q7.kind = kind /\ q7.pipe = conn[c].pipe
    BY <1>5, <1>8, <1>9, <1>10, <1>11, SMT DEF KeepsOwn, KeepsPipes
  <1>15. q7.host = conn[c].host /\ q7.wlock = conn[c].wlock /\ q7.wire = conn[c].wire
    BY <1>5, <1>6, <1>7, <1>8, <1>9, <1>10, <1>11, SMT DEF KeepsWire
  <1>16. p \notin DOMAIN ps /\ spawns' = spawns + 1 /\ ps' = Bind(ps, p, Process(spawns', TRUE, kind # "pty"))
    BY <1>2 DEF Spawn, FreePid
  <1>17. /\ \A d \in Conns : d # c => Flagged(conn[d], conn'[d]) /\ (conn[d].pid = p => conn'[d].clash)
         /\ ~conn'[c].clash => ~InUse(p)
    BY <1>2, <1>12, <1>13, <1>14
  <1>18. p \in Pids \ DOMAIN ps
    BY <1>16
  <1>19. /\ conn'[c].id = spawns' /\ conn'[c].pid = p /\ conn'[c].got = conn[c].got
         /\ conn'[c].kind = kind /\ conn'[c].pc = (IF kind = "exec" THEN "drain" ELSE "ack")
         /\ conn'[c].pipe = conn[c].pipe
         /\ conn'[c].fw = All(IF kind = "exec" THEN "read" ELSE "none")
         /\ conn'[c].host = conn[c].host /\ conn'[c].wlock = conn[c].wlock /\ conn'[c].wire = conn[c].wire
    BY <1>3, <1>11, <1>13, <1>14, <1>15 DEF fw, pc
  <1> QED
    BY <1>1, <1>13, <1>16, <1>17, <1>18, <1>19
-----------------------------------------------------------------------------
(***************************************************************************)
(* What keeps the invariant: processes only end, entries only leave the    *)
(* table, and a connection goes on, or is as new.                          *)
(***************************************************************************)
PsLess ==
    /\ ps' \in [DOMAIN ps' -> Processes] /\ DOMAIN ps' \subseteq DOMAIN ps
    /\ \A p \in DOMAIN ps' :
          /\ ps'[p].id = ps[p].id /\ ps'[p].root = ps[p].root /\ ps'[p].pipe = ps[p].pipe
          /\ ps'[p].st = "run" => ps[p].st = "run"

TableLess ==
    /\ reaper' = <<>> \/ reaper' = reaper
    /\ map' \in [DOMAIN map' -> Whose] /\ \A p \in DOMAIN map' : p \in DOMAIN map /\ map'[p] = map[p]

OwnQuiet(r, s) ==
    \/ /\ s.id = r.id /\ s.pid = r.pid /\ s.got = r.got /\ (r.clash => s.clash)
       /\ s.pc = "idle" => r.pc = "idle"
    \/ s.pid = 0 /\ s.got = <<>>

Waiting == {"wait", "asleep", "reply"}

PipeQuiet(r, s) ==
    \/ Fresh(s) /\ s.pc \notin Waiting
    \/ /\ s.kind = r.kind /\ (s.id = r.id \/ s.id = 0) /\ s.fw = r.fw /\ s.pipe = r.pipe
       /\ s.pc = "idle" => r.pc = "idle" /\ s.wlock = r.wlock /\ (s.wire = r.wire \/ s.wire = <<>>)
       /\ s.pc = "ack" => r.pc = "ack"
       /\ s.pc \in Waiting => s.host = "closed" \/ r.pc \in Waiting \/ r.fw = All("done")
       /\ r.host = "closed" => s.host = "closed"

WireQuiet(r, s) ==
    \/ KeepsWire(r, s) /\ (r.pc = "closed" => s.pc = "closed")
    \/ s.fw = All("none") /\ s.wlock = "free" /\ s.wire = <<>>
    \/ s.fw = r.fw /\ s.wlock = r.wlock /\ s.wire = <<>> /\ s.host = "closed"

\* A connection that does nothing is quiet.
LEMMA Still ==
  ASSUME NEW r
  PROVE  OwnQuiet(r, r) /\ PipeQuiet(r, r) /\ WireQuiet(r, r)
  BY Zenon DEF OwnQuiet, PipeQuiet, WireQuiet, KeepsWire

\* One that is as new or at its end is quiet, too.
LEMMA FreshQuiet ==
  ASSUME NEW r, NEW s, Fresh(s), s.pc \in {"idle", "closed"}
  PROVE  OwnQuiet(r, s) /\ PipeQuiet(r, s) /\ WireQuiet(r, s)
  <1> USE Zenon
  <1>1. s.pc \notin Waiting
    BY DEF Waiting
  <1> QED
    BY <1>1 DEF OwnQuiet, PipeQuiet, WireQuiet, Fresh

\* Nothing happens to the processes and the table.
LEMMA NothingLess ==
  ASSUME TypeInv
  PROVE  (UNCHANGED ps => PsLess) /\ (UNCHANGED <<reaper, map>> => TableLess)
  BY Zenon DEF TypeInv, PsLess, TableLess

\* kill, and the end of a process.
LEMMA ZombieLess ==
  ASSUME TypeInv, NEW p \in DOMAIN ps, ps' = [ps EXCEPT ![p].st = "zombie"]
  PROVE  PsLess /\ DOMAIN ps' = DOMAIN ps
  <1> USE Zenon
  <1>1. ps[p] \in Processes /\ DOMAIN ps' = DOMAIN ps
    BY DEF TypeInv
  <1>2. ps'[p] = [ps[p] EXCEPT !.st = "zombie"] /\ \A q \in DOMAIN ps : q # p => ps'[q] = ps[q]
    BY DEF TypeInv
  <1>3. /\ ps'[p] \in Processes /\ ps'[p].id = ps[p].id /\ ps'[p].root = ps[p].root
        /\ ps'[p].pipe = ps[p].pipe /\ ps'[p].st = "zombie"
    BY <1>1, <1>2 DEF Processes
  <1>4. PICK z \in Processes : ps' = [ps EXCEPT ![p] = z]
    BY <1>2, <1>3
  <1>6. ps' \in [DOMAIN ps' -> Processes]
    BY <1>1, <1>4 DEF TypeInv
  <1>7. ASSUME NEW q \in DOMAIN ps
        PROVE  /\ ps'[q].id = ps[q].id /\ ps'[q].root = ps[q].root /\ ps'[q].pipe = ps[q].pipe
               /\ ps'[q].st = "run" => ps[q].st = "run"
    BY <1>2, <1>3
  <1> QED
    BY <1>1, <1>6, <1>7 DEF PsLess

\* kill(pid, SIGKILL) of whoever has the pid, or of nobody.
LEMMA KillLess ==
  ASSUME TypeInv, NEW p, Kill(p)
  PROVE  PsLess
  BY ZombieLess, NothingLess, Zenon DEF Kill

\* wait4 frees a pid.
LEMMA DropLess ==
  ASSUME TypeInv, NEW p, ps' = Drop(ps, {p})
  PROVE  PsLess
  BY Zenon DEF TypeInv, PsLess, Drop

\* Types and numbers of spawns.
LEMMA TypeKept ==
  ASSUME TypeInv, IdsInv, PsLess, spawns' = spawns, conn' \in [Conns -> Connections],
         reaper' = <<>> \/ reaper' \in Pids \X Whose,
         map' \in [DOMAIN map' -> Whose], DOMAIN map' \subseteq Pids,
         \A c \in Conns : conn'[c].id = conn[c].id \/ conn'[c].id = 0
  PROVE  TypeInv' /\ IdsInv'
  <1> USE Zenon
  <1>1. TypeInv'
    BY DEF TypeInv, PsLess, Pids
  <1>2. \A p \in DOMAIN ps' : ps'[p].id \in 1..spawns'
    BY DEF IdsInv, PsLess
  <1>3. \A c \in Conns : conn'[c].id <= spawns'
    BY SMT DEF IdsInv, TypeInv
  <1> QED
    BY <1>1, <1>2, <1>3 DEF IdsInv

\* A quiet connection keeps what is known of its pid.
LEMMA OwnKept ==
  ASSUME PsLess, TableLess, NEW c \in Conns, OwnAt(c), OwnQuiet(conn[c], conn'[c])
  PROVE  OwnAt(c)'
  <1> USE Zenon
  <1>1. CASE conn'[c].pid = 0 /\ conn'[c].got = <<>>
    BY <1>1 DEF OwnAt
  <1>2. CASE /\ conn'[c].id = conn[c].id /\ conn'[c].pid = conn[c].pid /\ conn'[c].got = conn[c].got
             /\ (conn[c].clash => conn'[c].clash) /\ (conn'[c].pc = "idle" => conn[c].pc = "idle")
    <2>1. ASSUME Owned(conn[c]) PROVE Owned(conn[c])'
      BY <1>2, <2>1, SMT DEF Owned, PsLess, TableLess
    <2> QED
      BY <1>2, <2>1 DEF OwnAt
  <1> QED
    BY <1>1, <1>2 DEF OwnQuiet

\* It keeps its pipes: what ended has ended for good.
LEMMA PipeKept ==
  ASSUME TypeInv, IdsInv, PsLess, NEW c \in Conns, PipeAt(c), PipeQuiet(conn[c], conn'[c])
  PROVE  PipeAt(c)'
  <1> USE Zenon
  <1>1. \A p \in DOMAIN ps' : ps'[p].id # 0
    BY SMT DEF IdsInv, PsLess
  <1>2. CASE Fresh(conn'[c]) /\ conn'[c].pc \notin Waiting
    <2>1. conn'[c].fw = All("none") /\ conn'[c].pipe = All(0) /\ conn'[c].id = 0
          /\ conn'[c].wlock = "free" /\ conn'[c].wire = <<>>
      BY <1>2 DEF Fresh
    <2>2. \A k \in Outs : conn'[c].fw[k] = "none"
      BY <2>1 DEF All
    <2>3. conn'[c].pc \notin {"wait", "asleep", "reply"}
      BY <1>2 DEF Waiting
    <2> QED
      BY <1>1, <2>1, <2>2, <2>3 DEF PipeAt
  <1>3. CASE /\ conn'[c].kind = conn[c].kind /\ (conn'[c].id = conn[c].id \/ conn'[c].id = 0)
             /\ conn'[c].fw = conn[c].fw /\ conn'[c].pipe = conn[c].pipe
             /\ conn'[c].pc = "idle" => conn[c].pc = "idle" /\ conn'[c].wlock = conn[c].wlock
                                        /\ (conn'[c].wire = conn[c].wire \/ conn'[c].wire = <<>>)
             /\ conn'[c].pc = "ack" => conn[c].pc = "ack"
             /\ conn'[c].pc \in Waiting => conn'[c].host = "closed" \/ conn[c].pc \in Waiting \/ conn[c].fw = All("done")
             /\ conn[c].host = "closed" => conn'[c].host = "closed"
    <2>1. \A p \in DOMAIN ps' : ps'[p].id = conn'[c].id /\ ps'[p].root /\ conn'[c].kind # "pty" => ps'[p].pipe
      BY <1>1, <1>3, SMT DEF PipeAt, PsLess
    <2>2. /\ conn'[c].pc = "idle" => conn'[c].fw = All("none") /\ conn'[c].pipe = All(0)
          /\ conn'[c].pc = "idle" => conn'[c].id = 0 /\ conn'[c].wlock = "free" /\ conn'[c].wire = <<>>
          /\ conn'[c].pc = "ack" => conn'[c].fw = All("none")
      BY <1>3 DEF PipeAt
    <2>3. \A k \in Outs : conn'[c].fw[k] # "none" => conn'[c].kind # "pty"
      BY <1>3 DEF PipeAt
    <2>4. ASSUME NEW k \in Outs, conn'[c].fw[k] = "done"
          PROVE  conn'[c].pipe[k] = 0 /\ PipesClosed(conn[c].id)'
      <3>1. conn[c].fw[k] = "done" /\ conn[c].pipe[k] = 0 /\ PipesClosed(conn[c].id)
        BY <1>3, <2>4 DEF PipeAt
      <3> QED
        BY <1>1, <1>3, <3>1, SMT DEF PipesClosed, PsLess
    <2>5. conn'[c].pc \in {"wait", "asleep", "reply"} => conn'[c].host = "closed" \/ conn'[c].fw = All("done")
      BY <1>3 DEF PipeAt, Waiting, Gone
    <2> QED
      BY <2>1, <2>2, <2>3, <2>4, <2>5 DEF PipeAt, Gone
  <1> QED
    BY <1>2, <1>3 DEF PipeQuiet

\* Its wire keeps its frames.
LEMMA WireKept ==
  ASSUME NEW c \in Conns, Framed(conn[c]), WireQuiet(conn[c], conn'[c])
  PROVE  Framed(conn'[c])
  <1>1. CASE KeepsWire(conn[c], conn'[c]) /\ (conn[c].pc = "closed" => conn'[c].pc = "closed")
    BY <1>1, Zenon DEF Framed, KeepsWire
  <1>2. CASE conn'[c].fw = All("none") /\ conn'[c].wlock = "free" /\ conn'[c].wire = <<>>
    BY <1>2 DEF Framed, Whole, All, Outs
  <1>3. CASE conn'[c].fw = conn[c].fw /\ conn'[c].wlock = conn[c].wlock /\ conn'[c].wire = <<>> /\ conn'[c].host = "closed"
    BY <1>3 DEF Framed, Whole
  <1> QED
    BY <1>1, <1>2, <1>3, Zenon DEF WireQuiet
-----------------------------------------------------------------------------
(***************************************************************************)
(* The steps, one by one.                                                  *)
(***************************************************************************)
\* A step of one connection has only that one to account for.
LEMMA OneConnection ==
  ASSUME EnvdInv, PsLess, spawns' = spawns, TableLess, NEW c \in Conns, Only(c),
         conn'[c].id = conn[c].id \/ conn'[c].id = 0, OwnAt(c)', PipeAt(c)', Framed(conn'[c])
  PROVE  EnvdInv'
  <1> USE Zenon
  <1>1. TypeInv /\ IdsInv
    BY DEF EnvdInv
  <1>2. TypeInv' /\ IdsInv'
    <2>1. /\ conn' \in [Conns -> Connections]
          /\ \A d \in Conns : conn'[d].id = conn[d].id \/ conn'[d].id = 0
      BY DEF Only
    <2>2. /\ reaper' = <<>> \/ reaper' \in Pids \X Whose
          /\ map' \in [DOMAIN map' -> Whose] /\ DOMAIN map' \subseteq Pids
      BY <1>1 DEF TableLess, TypeInv
    <2> QED
      BY <1>1, <2>1, <2>2, TypeKept
  <1>3. ASSUME NEW d \in Conns PROVE OwnAt(d)' /\ PipeAt(d)' /\ Framed(conn'[d])
    <2>1. CASE d = c
      BY <2>1
    <2>2. CASE d # c
      <3>1. conn'[d] = conn[d]
        BY <2>2 DEF Only
      <3>2. OwnQuiet(conn[d], conn'[d]) /\ PipeQuiet(conn[d], conn'[d]) /\ WireQuiet(conn[d], conn'[d])
        BY <3>1, Still
      <3>3. OwnAt(d) /\ PipeAt(d) /\ Framed(conn[d])
        BY DEF EnvdInv, OwnInv, PipeInv, WireInv
      <3> QED
        BY <1>1, <3>2, <3>3, OwnKept, PipeKept, WireKept
    <2> QED
      BY <2>1, <2>2
  <1> QED
    BY <1>2, <1>3 DEF EnvdInv, OwnInv, PipeInv, WireInv

\* A quiet step of one connection.
LEMMA QuietStep ==
  ASSUME EnvdInv, PsLess, spawns' = spawns, TableLess, NEW c \in Conns, Only(c),
         conn'[c].id = conn[c].id \/ conn'[c].id = 0,
         OwnQuiet(conn[c], conn'[c]), PipeQuiet(conn[c], conn'[c]), WireQuiet(conn[c], conn'[c])
  PROVE  EnvdInv'
  <1> USE Zenon
  <1>1. TypeInv /\ IdsInv /\ OwnAt(c) /\ PipeAt(c) /\ Framed(conn[c])
    BY DEF EnvdInv, OwnInv, PipeInv, WireInv
  <1>2. OwnAt(c)' /\ PipeAt(c)' /\ Framed(conn'[c])
    BY <1>1, OwnKept, PipeKept, WireKept
  <1> QED
    BY <1>2, OneConnection

\* The thread of a connection moves on.
LEMMA GotoStep ==
  ASSUME EnvdInv, PsLess, spawns' = spawns, TableLess, NEW c \in Conns, NEW pc \in Steps \ {"idle", "ack"}, Goto(c, pc),
         conn[c].pc # "closed", pc \in Waiting => conn[c].pc \in Waiting \/ conn[c].fw = All("done")
  PROVE  EnvdInv'
  <1> USE Zenon
  <1>1. TypeInv
    BY DEF EnvdInv
  <1>2. /\ Only(c) /\ conn'[c].pc = pc
        /\ KeepsOwn(conn[c], conn'[c]) /\ KeepsPipes(conn[c], conn'[c]) /\ KeepsWire(conn[c], conn'[c])
    BY <1>1, GotoDoes
  <1>3. OwnQuiet(conn[c], conn'[c])
    BY <1>2 DEF OwnQuiet, KeepsOwn
  <1>4. PipeQuiet(conn[c], conn'[c])
    BY <1>2 DEF PipeQuiet, KeepsPipes, KeepsWire
  <1> QED
    BY <1>2, <1>3, <1>4, QuietStep DEF WireQuiet, KeepsOwn

\* A connection ends.
LEMMA CloseStep ==
  ASSUME EnvdInv, PsLess, spawns' = spawns, TableLess, NEW c \in Conns, conn' = [conn EXCEPT ![c] = Closed]
  PROVE  EnvdInv'
  <1> USE Zenon
  <1>1. TypeInv
    BY DEF EnvdInv
  <1>2. Only(c) /\ conn'[c].pc = "closed" /\ Fresh(conn'[c])
    BY <1>1, CloseDoes
  <1>3. OwnQuiet(conn[c], conn'[c]) /\ PipeQuiet(conn[c], conn'[c]) /\ WireQuiet(conn[c], conn'[c])
    BY <1>2, FreshQuiet
  <1> QED
    BY <1>2, <1>3, QuietStep DEF Fresh

\* A step after which every connection is quiet.
LEMMA AllQuiet ==
  ASSUME EnvdInv, PsLess, spawns' = spawns, TableLess, conn' \in [Conns -> Connections],
         \A c \in Conns : /\ conn'[c].id = conn[c].id \/ conn'[c].id = 0
                          /\ OwnQuiet(conn[c], conn'[c]) /\ PipeQuiet(conn[c], conn'[c]) /\ WireQuiet(conn[c], conn'[c])
  PROVE  EnvdInv'
  <1> USE Zenon
  <1>1. TypeInv /\ IdsInv
    BY DEF EnvdInv
  <1>2. TypeInv' /\ IdsInv'
    <2>1. /\ reaper' = <<>> \/ reaper' \in Pids \X Whose
          /\ map' \in [DOMAIN map' -> Whose] /\ DOMAIN map' \subseteq Pids
      BY <1>1 DEF TableLess, TypeInv
    <2> QED
      BY <1>1, <2>1, TypeKept
  <1>3. ASSUME NEW d \in Conns PROVE OwnAt(d)' /\ PipeAt(d)' /\ Framed(conn'[d])
    <2>1. OwnAt(d) /\ PipeAt(d) /\ Framed(conn[d])
      BY DEF EnvdInv, OwnInv, PipeInv, WireInv
    <2> QED
      BY <1>1, <2>1, OwnKept, PipeKept, WireKept
  <1> QED
    BY <1>2, <1>3 DEF EnvdInv, OwnInv, PipeInv, WireInv

\* The histories and the wake-up are quiet.
LEMMA FlaggedQuiet ==
  ASSUME NEW r, NEW s, Flagged(r, s)
  PROVE  OwnQuiet(r, s) /\ PipeQuiet(r, s) /\ WireQuiet(r, s) /\ s.id = r.id
  <1> USE Zenon
  <1>1. "asleep" \in Waiting /\ "wait" # "idle"
    BY DEF Waiting
  <1>2. OwnQuiet(r, s) /\ WireQuiet(r, s) /\ s.id = r.id
    BY <1>1 DEF Flagged, OwnQuiet, WireQuiet
  <1>3. PipeQuiet(r, s)
    BY <1>1 DEF Flagged, PipeQuiet, KeepsPipes, KeepsWire
  <1> QED
    BY <1>2, <1>3

\* The host hangs up.
LEMMA HostClosesStep ==
  ASSUME EnvdInv, NEW c \in Conns, HostCloses(c)
  PROVE  EnvdInv'
  <1> USE Zenon
  <1>1. TypeInv /\ PipeAt(c) /\ UNCHANGED <<ps, spawns, reaper, map>>
    BY DEF EnvdInv, PipeInv, HostCloses, procs, table
  <1>2. PsLess /\ TableLess
    BY <1>1, NothingLess
  <1>3. /\ Only(c) /\ conn'[c].host = "closed" /\ conn'[c].wire = <<>> /\ conn'[c].pc = conn[c].pc
        /\ \/ Fresh(conn'[c]) /\ conn[c].pc = "closed"
           \/ /\ KeepsOwn(conn[c], conn'[c]) /\ KeepsPipes(conn[c], conn'[c])
              /\ conn'[c].wlock = conn[c].wlock
    BY <1>1, HostClosesDoes
  <1>4. CASE KeepsOwn(conn[c], conn'[c]) /\ KeepsPipes(conn[c], conn'[c]) /\ conn'[c].wlock = conn[c].wlock
    <2>1. OwnQuiet(conn[c], conn'[c]) /\ conn'[c].id = conn[c].id
      BY <1>3, <1>4 DEF OwnQuiet, KeepsOwn
    <2>2. PipeQuiet(conn[c], conn'[c])
      BY <1>3, <1>4 DEF PipeQuiet, KeepsPipes
    <2>3. WireQuiet(conn[c], conn'[c])
      BY <1>3, <1>4 DEF WireQuiet, KeepsPipes
    <2> QED
      BY <1>1, <1>2, <1>3, <2>1, <2>2, <2>3, QuietStep
  <1>5. CASE Fresh(conn'[c]) /\ conn[c].pc = "closed"
    BY <1>1, <1>2, <1>3, <1>5, FreshQuiet, QuietStep DEF Fresh
  <1> QED
    BY <1>3, <1>4, <1>5

\* What one thread does on its own: the end of a connection, the joining of
\* the readers, the steps of a pty session and of a tunnel.
LEMMA ThreadStep ==
  ASSUME EnvdInv, NEW c \in Conns,
         \/ Ends(c) \/ Join(c) \/ PtyEnds(c) \/ PtyKill(c) \/ PtyWait(c)
         \/ Connect(c) \/ TunnelUp(c) \/ TunnelDown(c)
  PROVE  EnvdInv'
  <1> USE Zenon
  <1>1. TypeInv /\ PipeAt(c)
    BY DEF EnvdInv, PipeInv
  <1>2. {"asleep", "wait", "pkill", "pty", "pwait", "tunnel", "down"} \subseteq Steps \ {"idle", "ack"}
    BY DEF Steps
  <1>3. {"pkill", "pty", "pwait", "tunnel", "down", "ack"} \cap Waiting = {}
    BY DEF Waiting
  <1>4. CASE Ends(c) \/ TunnelDown(c)
    <2>1. conn' = [conn EXCEPT ![c] = Closed] /\ UNCHANGED <<ps, spawns, reaper, map>>
      BY <1>4 DEF Ends, TunnelDown, procs, table
    <2>2. PsLess /\ TableLess
      BY <1>1, <2>1, NothingLess
    <2> QED
      BY <2>1, <2>2, CloseStep
  <1>5. CASE Join(c)
    <2>1. Goto(c, "wait") /\ conn[c].fw = All("done") /\ conn[c].pc = "drain" /\ UNCHANGED <<ps, spawns, reaper, map>>
      BY <1>5 DEF Join, Drained, procs, table
    <2>2. PsLess /\ TableLess
      BY <1>1, <2>1, NothingLess
    <2> QED
      BY <1>2, <2>1, <2>2, GotoStep
  <1>6. CASE PtyEnds(c)
    <2>1. PICK pc \in {"pkill", "pty"} : Goto(c, pc) /\ conn[c].pc \in {"ack", "pty"} /\ UNCHANGED <<ps, spawns, reaper, map>>
      BY <1>6 DEF PtyEnds, procs, table
    <2>2. PsLess /\ TableLess
      BY <1>1, <2>1, NothingLess
    <2> QED
      BY <1>2, <1>3, <2>1, <2>2, GotoStep
  <1>7. CASE PtyKill(c)
    <2>1. Goto(c, "pwait") /\ conn[c].pc = "pkill" /\ Kill(conn[c].pid) /\ UNCHANGED <<spawns, reaper, map>>
      BY <1>7 DEF PtyKill, table
    <2>2. PsLess /\ TableLess
      BY <1>1, <2>1, KillLess, NothingLess
    <2> QED
      BY <1>2, <1>3, <2>1, <2>2, GotoStep
  <1>8. CASE PtyWait(c)
    <2>1. UNCHANGED <<spawns, reaper, map>>
      BY <1>8 DEF PtyWait, table
    <2>2. TableLess
      BY <1>1, <2>1, NothingLess
    <2>3. CASE conn' = [conn EXCEPT ![c] = Closed] /\ UNCHANGED ps
      <3>1. PsLess
        BY <1>1, <2>3, NothingLess
      <3> QED
        BY <2>1, <2>2, <2>3, <3>1, CloseStep
    <2>4. CASE \E who : ps' = Drop(ps, {conn[c].pid}) /\ conn' = [Lost(conn, who) EXCEPT ![c] = Closed]
      <3>1. PICK who : ps' = Drop(ps, {conn[c].pid}) /\ conn' = [Lost(conn, who) EXCEPT ![c] = Closed]
        BY <2>4
      <3>2. PsLess
        BY <1>1, <3>1, DropLess
      <3>3. /\ Lost(conn, who) \in [Conns -> Connections]
            /\ \A d \in Conns : Flagged(conn[d], Lost(conn, who)[d])
        BY <1>1, LostDoes DEF TypeInv
      <3>4. Closed \in Connections /\ Fresh(Closed) /\ Closed.pc = "closed"
        BY FreshStates
      <3>5. /\ conn' \in [Conns -> Connections] /\ conn'[c] = Closed
            /\ \A d \in Conns : d # c => conn'[d] = Lost(conn, who)[d]
        BY <3>1, <3>3, <3>4
      <3>6. ASSUME NEW d \in Conns
            PROVE  /\ conn'[d].id = conn[d].id \/ conn'[d].id = 0
                   /\ OwnQuiet(conn[d], conn'[d]) /\ PipeQuiet(conn[d], conn'[d]) /\ WireQuiet(conn[d], conn'[d])
        <4>1. CASE d = c
          BY <3>4, <3>5, <4>1, FreshQuiet DEF Fresh
        <4>2. CASE d # c
          BY <3>3, <3>5, <4>2, FlaggedQuiet
        <4> QED
          BY <4>1, <4>2
      <3> QED
        BY <2>1, <2>2, <3>2, <3>5, <3>6, AllQuiet
    <2> QED
      BY <1>8, <2>3, <2>4 DEF PtyWait
  <1>9. CASE Connect(c)
    <2>1. UNCHANGED <<ps, spawns, reaper, map>> /\ conn[c].pc = "idle"
      BY <1>9 DEF Connect, procs, table
    <2>2. PsLess /\ TableLess
      BY <1>1, <2>1, NothingLess
    <2>3. /\ Only(c) /\ conn'[c].pc = "ack" /\ conn'[c].kind = "connect"
          /\ KeepsOwn(conn[c], conn'[c]) /\ KeepsWire(conn[c], conn'[c]) /\ conn'[c].pipe = conn[c].pipe
      BY <1>1, <1>9, ConnectDoes
    <2>4. OwnQuiet(conn[c], conn'[c]) /\ WireQuiet(conn[c], conn'[c]) /\ conn'[c].id = conn[c].id
      BY <2>1, <2>3 DEF OwnQuiet, WireQuiet, KeepsOwn
    <2>5. PipeAt(c)'
      <3>1. conn'[c].fw = All("none") /\ conn'[c].pipe = All(0) /\ conn'[c].id = 0
        BY <1>1, <2>1, <2>3 DEF PipeAt, KeepsWire, KeepsOwn
      <3>2. \A p \in DOMAIN ps' : ps'[p].id # 0
        BY <2>1, SMT DEF EnvdInv, IdsInv
      <3>3. \A k \in Outs : conn'[c].fw[k] = "none"
        BY <3>1 DEF All
      <3> QED
        BY <2>3, <3>1, <3>2, <3>3 DEF PipeAt
    <2>6. OwnAt(c)' /\ Framed(conn'[c])
      <3>1. OwnAt(c) /\ Framed(conn[c])
        BY DEF EnvdInv, OwnInv, WireInv
      <3> QED
        BY <2>2, <2>4, <3>1, OwnKept, WireKept
    <2> QED
      BY <2>1, <2>2, <2>3, <2>4, <2>5, <2>6, OneConnection
  <1>10. CASE TunnelUp(c)
    <2>1. UNCHANGED <<ps, spawns, reaper, map>>
      BY <1>10 DEF TunnelUp, procs, table
    <2>2. PsLess /\ TableLess
      BY <1>1, <2>1, NothingLess
    <2>3. \/ conn' = [conn EXCEPT ![c] = Closed]
          \/ conn[c].pc \in {"ack", "tunnel"} /\ \E pc \in {"tunnel", "down"} : Goto(c, pc)
      BY <1>10 DEF TunnelUp, Goto
    <2> QED
      BY <1>2, <1>3, <2>1, <2>2, <2>3, CloseStep, GotoStep
  <1> QED
    BY <1>4, <1>5, <1>6, <1>7, <1>8, <1>9, <1>10

\* A step of a connection that keeps its own command, and changes pipes or wire.
LEMMA OutputStep ==
  ASSUME EnvdInv, UNCHANGED <<procs, table>>, NEW c \in Conns, Only(c), KeepsOwn(conn[c], conn'[c]),
         conn'[c].pc = conn[c].pc, PipeAt(c)', Framed(conn'[c])
  PROVE  EnvdInv'
  <1> USE Zenon
  <1>1. TypeInv /\ OwnAt(c) /\ UNCHANGED <<ps, spawns, reaper, map>>
    BY DEF EnvdInv, OwnInv, procs, table
  <1>2. PsLess /\ TableLess
    BY <1>1, NothingLess
  <1>3. OwnQuiet(conn[c], conn'[c]) /\ conn'[c].id = conn[c].id
    BY DEF OwnQuiet, KeepsOwn
  <1>4. OwnAt(c)'
    BY <1>1, <1>2, <1>3, OwnKept
  <1> QED
    BY <1>1, <1>2, <1>3, <1>4, OneConnection

\* A chunk goes into a pipe: its reader cannot have seen the end.
LEMMA WritesStep ==
  ASSUME EnvdInv, NEW c \in Conns, NEW k \in Outs, Writes(c, k)
  PROVE  EnvdInv'
  <1> USE Zenon
  <1>1. TypeInv /\ PipeAt(c) /\ Framed(conn[c]) /\ UNCHANGED <<procs, table>>
    BY DEF EnvdInv, PipeInv, WireInv, Writes
  <1>2. /\ Only(c) /\ conn'[c].pc = conn[c].pc /\ conn'[c].kind = conn[c].kind
        /\ KeepsOwn(conn[c], conn'[c]) /\ KeepsWire(conn[c], conn'[c])
        /\ conn'[c].pipe = [conn[c].pipe EXCEPT ![k] = 1]
    BY <1>1, WritesDoes
  <1>3. PICK p \in DOMAIN ps : ps[p].id = conn[c].id /\ ps[p].root /\ ps[p].st = "run"
    BY DEF Writes
  <1>4. conn[c].pc # "idle"
    <2>1. ps[p].id # 0
      BY SMT DEF EnvdInv, IdsInv
    <2> QED
      BY <1>1, <1>3, <2>1 DEF PipeAt
  <1>5. \A j \in Outs : conn[c].fw[j] # "done"
    BY <1>1, <1>3 DEF PipeAt, PipesClosed
  <1>6. PipeAt(c)'
    <2>1. UNCHANGED ps
      BY <1>1 DEF procs
    <2>2. /\ conn'[c].fw = conn[c].fw /\ conn'[c].id = conn[c].id /\ conn'[c].host = conn[c].host
      BY <1>2 DEF KeepsOwn, KeepsWire
    <2> QED
      BY <1>1, <1>2, <1>4, <1>5, <2>1, <2>2 DEF PipeAt, Gone
  <1>7. Framed(conn'[c])
    BY <1>1, <1>2, WireKept DEF WireQuiet
  <1> QED
    BY <1>1, <1>2, <1>6, <1>7, OutputStep

\* A chunk is taken out of a pipe.
LEMMA FwReadStep ==
  ASSUME EnvdInv, NEW c \in Conns, NEW k \in Outs, FwRead(c, k)
  PROVE  EnvdInv'
  <1> USE Zenon
  <1>1. TypeInv /\ PipeAt(c) /\ Framed(conn[c]) /\ UNCHANGED <<procs, table>>
    BY DEF EnvdInv, PipeInv, WireInv, FwRead
  <1>2. /\ Only(c) /\ conn'[c].pc = conn[c].pc /\ conn'[c].kind = conn[c].kind
        /\ KeepsOwn(conn[c], conn'[c]) /\ KeepsWire(conn[c], conn'[c])
        /\ conn'[c].pipe = [conn[c].pipe EXCEPT ![k] = 0]
    BY <1>1, FwReadDoes
  <1>3. \A j \in Outs : conn[c].pipe[j] = 0 => conn'[c].pipe[j] = 0
    BY <1>1, <1>2 DEF TypeInv, Connections, Pipes
  <1>4. conn[c].pc # "idle"
    BY <1>1 DEF FwRead, PipeAt, All
  <1>5. PipeAt(c)'
    <2>1. UNCHANGED ps
      BY <1>1 DEF procs
    <2>2. /\ conn'[c].fw = conn[c].fw /\ conn'[c].id = conn[c].id /\ conn'[c].host = conn[c].host
      BY <1>2 DEF KeepsOwn, KeepsWire
    <2>3. \A j \in Outs : conn'[c].fw[j] = "done" => conn'[c].pipe[j] = 0 /\ PipesClosed(conn[c].id)'
      BY <1>1, <1>3, <2>1, <2>2, SMT DEF PipeAt, PipesClosed
    <2> QED
      BY <1>1, <1>2, <1>4, <2>1, <2>2, <2>3 DEF PipeAt, Gone
  <1>6. Framed(conn'[c])
    BY <1>1, <1>2, WireKept DEF WireQuiet
  <1> QED
    BY <1>1, <1>2, <1>5, <1>6, OutputStep

\* A reader sees the end of its pipe.
LEMMA FwEofStep ==
  ASSUME EnvdInv, NEW c \in Conns, NEW k \in Outs, FwEof(c, k)
  PROVE  EnvdInv'
  <1> USE Zenon
  <1>1. TypeInv /\ PipeAt(c) /\ Framed(conn[c]) /\ UNCHANGED <<procs, table>>
    BY DEF EnvdInv, PipeInv, WireInv, FwEof
  <1>2. /\ Only(c) /\ conn'[c].pc = conn[c].pc /\ conn'[c].kind = conn[c].kind
        /\ KeepsOwn(conn[c], conn'[c]) /\ conn'[c].pipe = conn[c].pipe
        /\ conn'[c].host = conn[c].host /\ conn'[c].wlock = conn[c].wlock /\ conn'[c].wire = conn[c].wire
        /\ conn'[c].fw = [conn[c].fw EXCEPT ![k] = "done"]
    BY <1>1, FwEofDoes
  <1>3. conn[c].fw \in Forwarders
    BY <1>1 DEF TypeInv, Connections
  <1>4. conn'[c].fw[k] = "done" /\ \A j \in Outs : j # k => conn'[c].fw[j] = conn[c].fw[j]
    BY <1>2, <1>3 DEF Forwarders
  <1>5. conn[c].fw[k] \in {"read", "discard"} /\ conn[c].pipe[k] = 0 /\ PipesClosed(conn[c].id)
    BY DEF FwEof, PipesClosed
  <1>6. conn[c].pc \notin {"idle", "ack"}
    BY <1>1, <1>5 DEF PipeAt, All
  <1>7. conn[c].fw # All("done")
    BY <1>5 DEF All
  <1>8. PipeAt(c)'
    <2>1. UNCHANGED ps /\ conn'[c].id = conn[c].id
      BY <1>1, <1>2 DEF procs, KeepsOwn
    <2>2. \A j \in Outs : conn'[c].fw[j] = "done" => conn'[c].pipe[j] = 0 /\ PipesClosed(conn[c].id)'
      BY <1>1, <1>2, <1>4, <1>5, <2>1, SMT DEF PipeAt, PipesClosed
    <2>3. \A j \in Outs : conn'[c].fw[j] # "none" => conn'[c].kind # "pty"
      BY <1>1, <1>2, <1>4, <1>5 DEF PipeAt
    <2> QED
      BY <1>1, <1>2, <1>6, <1>7, <2>1, <2>2, <2>3 DEF PipeAt, Gone
  <1>9. Framed(conn'[c])
    <2>1. \A j \in Outs : conn'[c].fw[j] = "len" <=> conn'[c].wlock = j
      BY <1>1, <1>2, <1>4, <1>5, SMT DEF Framed
    <2>2. \A i \in 1..Len(conn[c].wire) : conn[c].wire[i][1] # "exit"
      BY <1>1, <1>7 DEF Framed
    <2> QED
      BY <1>1, <1>2, <2>1, <2>2 DEF Framed
  <1> QED
    BY <1>1, <1>2, <1>8, <1>9, OutputStep

\* The wire before a frame, and the parity of its length.
LEMMA EmptyWire ==
  Whole(<<>>) /\ Len(<<>>) % 2 = 0 /\ \A i \in 1..Len(<<>>) : FALSE
  BY DEF Whole

\* A part more makes it odd or even.
LEMMA Parity ==
  ASSUME NEW n \in Nat
  PROVE  (n % 2 = 0 => (n + 1) % 2 = 1) /\ (n % 2 = 1 => (n + 1) % 2 = 0)
  OBVIOUS

\* A part that fits the wire: a length after whole frames, or the data of the
\* length before.
Fits(w, k, x) ==
    \/ x = "len" /\ Len(w) % 2 = 0
    \/ x = "data" /\ Len(w) % 2 = 1 /\ w[Len(w)][1] = k

Grown(w, v, k) ==
    /\ Whole(v) /\ Len(v) = Len(w) + 1 /\ v[Len(w) + 1][1] = k
    /\ \A i \in 1..Len(w) : v[i] = w[i]

\* Such a part keeps the wire in frames.
LEMMA WireGrows ==
  ASSUME NEW w \in Wires, Whole(w), NEW k, NEW x, Fits(w, k, x)
  PROVE  Grown(w, Append(w, <<k, x>>), k)
  <1> DEFINE v == Append(w, <<k, x>>)
  <1>1. Len(w) \in Nat
    BY DEF Wires
  <1>2. Len(v) = Len(w) + 1 /\ v[Len(w) + 1] = <<k, x>> /\ \A i \in 1..Len(w) : v[i] = w[i]
    BY DEF Wires
  <1> HIDE DEF v
  <1>3. ASSUME NEW i \in 1..Len(v)
        PROVE  /\ v[i][2] = IF i % 2 = 1 THEN "len" ELSE "data"
               /\ i % 2 = 0 => v[i - 1][1] = v[i][1]
    <2>1. CASE i = Len(w) + 1
      <3>1. v[i][1] = k /\ v[i][2] = x
        BY <1>2, <2>1
      <3>2. CASE x = "len" /\ Len(w) % 2 = 0
        BY <1>1, <2>1, <3>1, <3>2
      <3>3. CASE x = "data" /\ Len(w) % 2 = 1 /\ w[Len(w)][1] = k
        <4>1. i % 2 = 0 /\ i - 1 = Len(w) /\ Len(w) \in 1..Len(w)
          BY <1>1, <2>1, <3>3
        <4> QED
          BY <1>2, <3>1, <3>3, <4>1
      <3> QED
        BY <3>2, <3>3, Zenon DEF Fits
    <2>2. CASE i # Len(w) + 1
      <3>1. i \in 1..Len(w) /\ (i % 2 = 0 => i - 1 \in 1..Len(w))
        BY <1>1, <1>2, <2>2
      <3> QED
        BY <1>2, <3>1, Zenon DEF Whole
    <2> QED
      BY <2>1, <2>2, Zenon
  <1>4. Whole(v)
    BY <1>3, Zenon DEF Whole
  <1>5. v[Len(w) + 1][1] = k
    BY <1>2
  <1> QED
    BY <1>2, <1>4, <1>5, Zenon DEF Grown, v

\* A forwarder takes wlock and writes a length.
LEMMA FwFrameStep ==
  ASSUME EnvdInv, NEW c \in Conns, NEW k \in Outs, FwFrame(c, k)
  PROVE  EnvdInv'
  <1> USE Zenon
  <1>1. TypeInv /\ PipeAt(c) /\ Framed(conn[c]) /\ UNCHANGED <<procs, table>>
    BY DEF EnvdInv, PipeInv, WireInv, FwFrame
  <1>2. /\ Only(c) /\ conn'[c].pc = conn[c].pc /\ conn'[c].kind = conn[c].kind
        /\ KeepsOwn(conn[c], conn'[c]) /\ conn'[c].host = conn[c].host
        /\ conn'[c].pipe = [conn[c].pipe EXCEPT ![k] = 0]
        /\ conn'[c].wlock = k /\ conn'[c].fw = [conn[c].fw EXCEPT ![k] = "len"]
        /\ conn'[c].wire = IF Gone(c) THEN conn[c].wire ELSE Append(conn[c].wire, <<k, "len">>)
    BY <1>1, FwFrameDoes
  <1>3. conn[c].fw \in Forwarders /\ conn[c].pipe \in Pipes /\ conn[c].wire \in Wires /\ conn[c].host \in Hosts
    BY <1>1 DEF TypeInv, Connections
  <1>4. conn'[c].fw[k] = "len" /\ \A j \in Outs : j # k => conn'[c].fw[j] = conn[c].fw[j]
    BY <1>2, <1>3 DEF Forwarders
  <1>5. /\ conn[c].fw[k] = "read" /\ conn[c].kind = "stream" /\ conn[c].wlock = "free"
    BY DEF FwFrame
  <1>6. conn[c].pc \notin {"idle", "ack"} /\ conn[c].fw # All("done")
    BY <1>1, <1>5 DEF PipeAt, All
  <1>7. PipeAt(c)'
    <2>1. UNCHANGED ps /\ conn'[c].id = conn[c].id
      BY <1>1, <1>2 DEF procs, KeepsOwn
    <2>2. \A j \in Outs : conn'[c].fw[j] = "done" => conn'[c].pipe[j] = 0 /\ PipesClosed(conn[c].id)'
      BY <1>1, <1>2, <1>3, <1>4, <2>1, SMT DEF PipeAt, PipesClosed, Pipes
    <2>3. conn'[c].kind # "pty"
      BY <1>2, <1>5
    <2> QED
      BY <1>1, <1>2, <1>6, <2>1, <2>2, <2>3 DEF PipeAt, Gone
  <1>8. k # "free" /\ k # "exit" /\ "open" # "closed"
    BY DEF Outs
  <1>9. Framed(conn'[c])
    <2>1. \A j \in Outs : conn'[c].fw[j] = "len" <=> conn'[c].wlock = j
      BY <1>1, <1>2, <1>4, <1>5, SMT DEF Framed, Outs
    <2>2. \A i \in 1..Len(conn[c].wire) : conn[c].wire[i][1] # "exit"
      BY <1>1, <1>6 DEF Framed
    <2>3. CASE Gone(c)
      <3>1. conn'[c].wire = <<>> /\ conn'[c].host = "closed"
        BY <1>1, <1>2, <2>3 DEF Framed, Gone
      <3> QED
        BY <1>2, <1>8, <2>1, <3>1, EmptyWire DEF Framed
    <2>4. CASE ~Gone(c)
      <3>1. conn'[c].wire = Append(conn[c].wire, <<k, "len">>) /\ conn'[c].host = "open" /\ Len(conn[c].wire) \in Nat
        BY <1>2, <1>3, <2>4, SMT DEF Gone, Hosts, Wires
      <3>2. Whole(conn[c].wire) /\ Len(conn[c].wire) % 2 = 0
        BY <1>1, <1>5 DEF Framed
      <3>3. /\ Whole(conn'[c].wire) /\ Len(conn'[c].wire) = Len(conn[c].wire) + 1
            /\ conn'[c].wire[Len(conn[c].wire) + 1][1] = k
            /\ \A i \in 1..Len(conn[c].wire) : conn'[c].wire[i] = conn[c].wire[i]
        <4>1. Fits(conn[c].wire, k, "len")
          BY <3>2 DEF Fits
        <4>2. Grown(conn[c].wire, conn'[c].wire, k)
          BY <1>3, <3>1, <3>2, <4>1, WireGrows
        <4> QED
          BY <4>2 DEF Grown
      <3>4. Len(conn'[c].wire) % 2 = 1 /\ conn'[c].wire[Len(conn'[c].wire)][1] = conn'[c].wlock
        BY <1>2, <3>1, <3>2, <3>3, Parity
      <3>5. \A i \in 1..Len(conn'[c].wire) : conn'[c].wire[i][1] # "exit"
        BY <2>2, <3>1, <3>3, SMT DEF Outs
      <3>6. conn'[c].host # "closed" /\ conn'[c].wlock # "free"
        BY <1>2, <3>1 DEF Outs
      <3> QED
        BY <2>1, <3>3, <3>4, <3>5, <3>6 DEF Framed
    <2> QED
      BY <2>3, <2>4
  <1> QED
    BY <1>1, <1>2, <1>7, <1>9, OutputStep

\* It writes the data and lets go of wlock.
LEMMA FwDataStep ==
  ASSUME EnvdInv, NEW c \in Conns, NEW k \in Outs, FwData(c, k)
  PROVE  EnvdInv'
  <1> USE Zenon
  <1>1. TypeInv /\ PipeAt(c) /\ Framed(conn[c]) /\ UNCHANGED <<procs, table>>
    BY DEF EnvdInv, PipeInv, WireInv, FwData
  <1>2. /\ Only(c) /\ conn'[c].pc = conn[c].pc /\ conn'[c].kind = conn[c].kind
        /\ KeepsOwn(conn[c], conn'[c]) /\ conn'[c].host = conn[c].host /\ conn'[c].pipe = conn[c].pipe
        /\ conn'[c].wlock = "free"
        /\ conn'[c].fw = [conn[c].fw EXCEPT ![k] = IF Gone(c) THEN "discard" ELSE "read"]
        /\ conn'[c].wire = IF Gone(c) THEN conn[c].wire ELSE Append(conn[c].wire, <<k, "data">>)
    BY <1>1, FwDataDoes
  <1>3. conn[c].fw \in Forwarders /\ conn[c].wire \in Wires /\ conn[c].host \in Hosts
    BY <1>1 DEF TypeInv, Connections
  <1>4. conn'[c].fw[k] \in {"discard", "read"} /\ \A j \in Outs : j # k => conn'[c].fw[j] = conn[c].fw[j]
    BY <1>2, <1>3 DEF Forwarders
  <1>5. conn[c].fw[k] = "len" /\ conn[c].wlock = k
    BY <1>1 DEF FwData, Framed
  <1>6. conn[c].pc \notin {"idle", "ack"} /\ conn[c].fw # All("done")
    BY <1>1, <1>5 DEF PipeAt, All
  <1>7. PipeAt(c)'
    <2>1. UNCHANGED ps /\ conn'[c].id = conn[c].id
      BY <1>1, <1>2 DEF procs, KeepsOwn
    <2>2. \A j \in Outs : conn'[c].fw[j] = "done" => conn'[c].pipe[j] = 0 /\ PipesClosed(conn[c].id)'
      BY <1>1, <1>2, <1>4, <2>1, SMT DEF PipeAt, PipesClosed
    <2>3. conn'[c].kind # "pty"
      BY <1>1, <1>2, <1>5 DEF PipeAt
    <2> QED
      BY <1>1, <1>2, <1>6, <2>1, <2>2, <2>3 DEF PipeAt, Gone
  <1>8. k # "free" /\ k # "exit" /\ "open" # "closed"
    BY DEF Outs
  <1>9. Framed(conn'[c])
    <2>1. \A j \in Outs : conn'[c].fw[j] = "len" <=> conn'[c].wlock = j
      BY <1>1, <1>2, <1>4, <1>5, SMT DEF Framed, Outs
    <2>2. \A i \in 1..Len(conn[c].wire) : conn[c].wire[i][1] # "exit"
      BY <1>1, <1>6 DEF Framed
    <2>3. CASE Gone(c)
      <3>1. conn'[c].wire = <<>> /\ conn'[c].host = "closed"
        BY <1>1, <1>2, <2>3 DEF Framed, Gone
      <3> QED
        BY <1>2, <2>1, <3>1, EmptyWire DEF Framed
    <2>4. CASE ~Gone(c)
      <3>1. conn'[c].wire = Append(conn[c].wire, <<k, "data">>) /\ conn'[c].host = "open" /\ Len(conn[c].wire) \in Nat
        BY <1>2, <1>3, <2>4, SMT DEF Gone, Hosts, Wires
      <3>2. Whole(conn[c].wire) /\ Len(conn[c].wire) % 2 = 1 /\ conn[c].wire[Len(conn[c].wire)][1] = k
        BY <1>1, <1>2, <1>5, <1>8, <3>1 DEF Framed
      <3>3. /\ Whole(conn'[c].wire) /\ Len(conn'[c].wire) = Len(conn[c].wire) + 1
            /\ conn'[c].wire[Len(conn[c].wire) + 1][1] = k
            /\ \A i \in 1..Len(conn[c].wire) : conn'[c].wire[i] = conn[c].wire[i]
        <4>1. Fits(conn[c].wire, k, "data")
          BY <3>2 DEF Fits
        <4>2. Grown(conn[c].wire, conn'[c].wire, k)
          BY <1>3, <3>1, <3>2, <4>1, WireGrows
        <4> QED
          BY <4>2 DEF Grown
      <3>4. Len(conn'[c].wire) % 2 = 0
        BY <3>1, <3>2, <3>3, Parity
      <3>5. \A i \in 1..Len(conn'[c].wire) : conn'[c].wire[i][1] # "exit"
        BY <2>2, <3>1, <3>3, SMT DEF Outs
      <3>6. conn'[c].host # "closed"
        BY <3>1
      <3> QED
        BY <1>2, <2>1, <3>3, <3>4, <3>5, <3>6 DEF Framed
    <2> QED
      BY <2>3, <2>4
  <1> QED
    BY <1>1, <1>2, <1>7, <1>9, OutputStep

\* The answer Ok to a stream request, or the end of a child without a host.
LEMMA StreamAckStep ==
  ASSUME EnvdInv, NEW c \in Conns, StreamAck(c)
  PROVE  EnvdInv'
  <1> USE Zenon
  <1>1. /\ TypeInv /\ PipeAt(c) /\ Framed(conn[c]) /\ OwnAt(c)
        /\ conn[c].pc = "ack" /\ UNCHANGED <<spawns, reaper, map>>
    BY DEF EnvdInv, PipeInv, WireInv, OwnInv, StreamAck, Is, table
  <1>2. PsLess /\ TableLess
    <2>1. Kill(conn[c].pid) \/ UNCHANGED ps
      BY DEF StreamAck
    <2> QED
      BY <1>1, <2>1, KillLess, NothingLess
  <1>3. /\ Only(c) /\ KeepsOwn(conn[c], conn'[c]) /\ conn'[c].kind = "stream"
        /\ conn'[c].host = conn[c].host /\ conn'[c].wlock = conn[c].wlock /\ conn'[c].wire = conn[c].wire
        /\ conn'[c].pipe = conn[c].pipe
        /\ \/ Gone(c) /\ conn'[c].pc = "wait" /\ conn'[c].fw = conn[c].fw
           \/ conn'[c].pc = "drain" /\ conn'[c].fw = All("read")
    BY <1>1, StreamAckDoes
  <1>4. conn'[c].id = conn[c].id /\ conn'[c].pc \notin {"idle", "ack", "closed"} /\ conn[c].kind = "stream"
    BY <1>3 DEF KeepsOwn, StreamAck, Is
  <1>5. OwnQuiet(conn[c], conn'[c])
    BY <1>3, <1>4 DEF OwnQuiet, KeepsOwn
  <1>6. CASE Gone(c) /\ conn'[c].pc = "wait" /\ conn'[c].fw = conn[c].fw
    <2>1. PipeQuiet(conn[c], conn'[c])
      BY <1>3, <1>4, <1>6 DEF PipeQuiet, Gone
    <2>2. WireQuiet(conn[c], conn'[c])
      BY <1>1, <1>3, <1>6 DEF WireQuiet, KeepsWire
    <2> QED
      BY <1>1, <1>2, <1>3, <1>4, <1>5, <2>1, <2>2, QuietStep
  <1>7. CASE conn'[c].pc = "drain" /\ conn'[c].fw = All("read")
    <2>1. OwnAt(c)'
      BY <1>1, <1>2, <1>5, OwnKept
    <2>2. \A k \in Outs : conn'[c].fw[k] = "read" /\ conn[c].fw[k] = "none"
      BY <1>1, <1>7 DEF PipeAt, All
    <2>3. PipeAt(c)'
      <3>1. \A p \in DOMAIN ps' : ps'[p].id = conn'[c].id /\ ps'[p].root => ps'[p].pipe
        BY <1>1, <1>2, <1>4 DEF PipeAt, PsLess
      <3> QED
        BY <1>3, <1>7, <2>2, <3>1 DEF PipeAt
    <2>4. Framed(conn'[c])
      <3>1. \A k \in Outs : conn'[c].fw[k] = "len" <=> conn'[c].wlock = k
        BY <1>1, <1>3, <2>2, SMT DEF Framed
      <3>2. \A i \in 1..Len(conn[c].wire) : conn[c].wire[i][1] # "exit"
        BY <1>1 DEF Framed
      <3> QED
        BY <1>1, <1>3, <3>1, <3>2 DEF Framed
    <2> QED
      BY <1>1, <1>2, <1>3, <1>4, <2>1, <2>3, <2>4, OneConnection
  <1> QED
    BY <1>3, <1>6, <1>7

\* The exit frame is a length and its data.
LEMMA ExitFrame ==
  ASSUME NEW w \in Wires
  PROVE  \E v \in Wires : v = Append(w, <<"exit", "len">>) /\ w \o Frame("exit") = Append(v, <<"exit", "data">>)
  <1> DEFINE a == <<"exit", "len">>
             b == <<"exit", "data">>
             v == Append(w, a)
  <1>1. a \in Parts /\ b \in Parts
    BY Zenon DEF Parts
  <1> HIDE DEF a, b
  <1>2. v \in Wires
    BY <1>1 DEF Wires
  <1>3. w \o <<a, b>> = Append(v, b)
    <2>1. Len(w \o <<a, b>>) = Len(w) + 2 /\ Len(Append(v, b)) = Len(w) + 2 /\ Len(w) \in Nat
      BY <1>1 DEF Wires
    <2>2. w \o <<a, b>> \in Seq(Parts) /\ Append(v, b) \in Seq(Parts)
      BY <1>1 DEF Wires
    <2>3. \A i \in 1..Len(w) + 2 : (w \o <<a, b>>)[i] = Append(v, b)[i]
      BY <1>1 DEF Wires
    <2> QED
      BY <2>1, <2>2, <2>3
  <1> QED
    BY <1>2, <1>3, Zenon DEF Frame, a, b

\* The answer of run_exec, or the exit frame.
LEMMA ReplyStep ==
  ASSUME EnvdInv, NEW c \in Conns, Reply(c)
  PROVE  EnvdInv'
  <1> USE Zenon
  <1>1. /\ TypeInv /\ IdsInv /\ PipeAt(c) /\ Framed(conn[c]) /\ OwnAt(c)
        /\ conn[c].pc = "reply" /\ UNCHANGED <<ps, spawns, reaper, map>>
    BY DEF EnvdInv, PipeInv, WireInv, OwnInv, Reply, procs, table
  <1>2. PsLess /\ TableLess
    BY <1>1, NothingLess
  <1>3. /\ Only(c)
        /\ \/ Fresh(conn'[c]) /\ conn'[c].pc \in {"idle", "closed"}
           \/ /\ ~Gone(c) /\ conn'[c].id = 0 /\ conn'[c].pid = 0 /\ conn'[c].got = <<>>
              /\ conn'[c].pc = "closed" /\ conn'[c].kind = conn[c].kind /\ conn'[c].pipe = conn[c].pipe
              /\ conn'[c].host = conn[c].host /\ conn'[c].fw = conn[c].fw /\ conn'[c].wlock = conn[c].wlock
              /\ conn'[c].wire = conn[c].wire \o Frame("exit")
    BY <1>1, ReplyDoes
  <1>4. CASE Fresh(conn'[c]) /\ conn'[c].pc \in {"idle", "closed"}
    BY <1>1, <1>2, <1>3, <1>4, FreshQuiet, QuietStep DEF Fresh
  <1>5. CASE /\ ~Gone(c) /\ conn'[c].id = 0 /\ conn'[c].pid = 0 /\ conn'[c].got = <<>>
             /\ conn'[c].pc = "closed" /\ conn'[c].kind = conn[c].kind /\ conn'[c].pipe = conn[c].pipe
             /\ conn'[c].host = conn[c].host /\ conn'[c].fw = conn[c].fw /\ conn'[c].wlock = conn[c].wlock
             /\ conn'[c].wire = conn[c].wire \o Frame("exit")
    <2>1. OwnAt(c)'
      BY <1>1, <1>2, <1>5, OwnKept DEF OwnQuiet
    <2>2. PipeAt(c)'
      <3>1. PipeQuiet(conn[c], conn'[c])
        BY <1>5 DEF PipeQuiet, Waiting
      <3> QED
        BY <1>1, <1>2, <3>1, PipeKept
    <2>3. conn[c].fw = All("done") /\ conn[c].wlock \in Holders /\ conn[c].wire \in Wires /\ conn[c].host = "open"
      BY <1>1, <1>5 DEF PipeAt, TypeInv, Connections, Gone, Hosts
    <2>4. conn[c].wlock = "free" /\ \A k \in Outs : conn[c].fw[k] # "len"
      BY <1>1, <2>3 DEF Framed, Holders, All
    <2>5. \A i \in 1..Len(conn[c].wire) : conn[c].wire[i][1] # "exit"
      BY <1>1 DEF Framed
    <2>6. Whole(conn[c].wire) /\ Len(conn[c].wire) % 2 = 0 /\ Len(conn[c].wire) \in Nat
      <3>1. Len(conn[c].wire) \in Nat
        BY <2>3, SMT DEF Wires
      <3> QED
        BY <1>1, <2>4, <3>1 DEF Framed
    <2>7. PICK v \in Wires : v = Append(conn[c].wire, <<"exit", "len">>) /\ conn'[c].wire = Append(v, <<"exit", "data">>)
      BY <1>5, <2>3, ExitFrame
    <2>8. Grown(conn[c].wire, v, "exit")
      <3>1. Fits(conn[c].wire, "exit", "len")
        BY <2>6 DEF Fits
      <3> QED
        BY <2>3, <2>6, <2>7, <3>1, WireGrows
    <2>9. Grown(v, conn'[c].wire, "exit") /\ Len(v) % 2 = 1
      <3>1. Len(v) % 2 = 1
        BY <2>6, <2>8, Parity DEF Grown
      <3>2. Fits(v, "exit", "data") /\ Whole(v)
        BY <2>8, <3>1 DEF Fits, Grown
      <3> QED
        BY <2>7, <3>1, <3>2, WireGrows
    <2>10. /\ Whole(conn'[c].wire) /\ Len(conn'[c].wire) = Len(conn[c].wire) + 2 /\ Len(conn'[c].wire) % 2 = 0
           /\ \A i \in 1..Len(conn[c].wire) : conn'[c].wire[i] = conn[c].wire[i]
      <3>1. Len(v) \in Nat /\ Len(v) = Len(conn[c].wire) + 1 /\ Len(conn'[c].wire) = Len(v) + 1
        BY <2>6, <2>8, <2>9, SMT DEF Grown
      <3>2. Len(conn'[c].wire) % 2 = 0 /\ Whole(conn'[c].wire)
        BY <2>9, <3>1, Parity DEF Grown
      <3>3. Len(conn'[c].wire) = Len(conn[c].wire) + 2 /\ \A i \in 1..Len(conn[c].wire) : i \in 1..Len(v)
        BY <2>6, <3>1, SMT
      <3> QED
        BY <2>8, <2>9, <3>2, <3>3 DEF Grown
    <2>11. \A i \in 1..Len(conn'[c].wire) : conn'[c].wire[i][1] = "exit" => i > Len(conn'[c].wire) - 2
      <3> SUFFICES ASSUME NEW i \in 1..Len(conn'[c].wire), i \in 1..Len(conn[c].wire)
                   PROVE  conn'[c].wire[i][1] # "exit"
        BY <2>6, <2>10, SMT
      <3> QED
        BY <2>5, <2>10
    <2>12. conn'[c].host # "closed" /\ conn'[c].wlock = "free" /\ conn'[c].fw = All("done") /\ conn'[c].pc = "closed"
      BY <1>5, <2>3, <2>4
    <2>13. \A k \in Outs : conn'[c].fw[k] = "len" <=> conn'[c].wlock = k
      BY <1>5, <2>4 DEF Outs
    <2>14. Framed(conn'[c])
      BY <2>10, <2>11, <2>12, <2>13 DEF Framed
    <2> QED
      BY <1>1, <1>2, <1>3, <1>5, <2>1, <2>2, <2>14, OneConnection
  <1> QED
    BY <1>3, <1>4, <1>5

\* wait_reaped takes the status of its pid, or sleeps.
LEMMA WaitReapedStep ==
  ASSUME EnvdInv, NEW c \in Conns, WaitReaped(c)
  PROVE  EnvdInv'
  <1> USE Zenon
  <1>1. /\ TypeInv /\ PipeAt(c) /\ Framed(conn[c]) /\ OwnAt(c) /\ IdsInv
        /\ conn[c].pc = "wait" /\ UNCHANGED <<ps, spawns>>
    BY DEF EnvdInv, PipeInv, WireInv, OwnInv, WaitReaped, procs
  <1>2. PsLess
    BY <1>1, NothingLess
  <1>3. CASE conn[c].pid \in DOMAIN map /\ conn[c].pid # 0
    <2>1. /\ Only(c) /\ conn'[c].pc = "reply" /\ conn'[c].got = <<map[conn[c].pid]>>
          /\ conn'[c].id = conn[c].id /\ conn'[c].pid = conn[c].pid /\ conn'[c].clash = conn[c].clash
          /\ KeepsPipes(conn[c], conn'[c]) /\ KeepsWire(conn[c], conn'[c])
          /\ map' = Drop(map, {conn[c].pid}) /\ reaper' = reaper
      BY <1>1, <1>3, WaitReapedDoes
    <2>2. TableLess
      BY <1>1, <2>1 DEF TypeInv, TableLess, Drop
    <2>3. OwnAt(c)'
      <3>1. ASSUME Owned(conn[c]) PROVE Owned(conn[c])'
        <4>1. conn'[c].pid \notin DOMAIN map'
          BY <2>1 DEF Drop
        <4>2. conn'[c].got[1] = [id |-> conn'[c].id, root |-> TRUE]
          BY <1>3, <2>1, <3>1, SMT DEF Owned
        <4>3. /\ conn'[c].pid \in DOMAIN ps' => ps'[conn'[c].pid].id = conn'[c].id /\ ps'[conn'[c].pid].root
              /\ reaper' # <<>> /\ reaper'[1] = conn'[c].pid => reaper'[2] = [id |-> conn'[c].id, root |-> TRUE]
          BY <1>1, <2>1, <3>1 DEF Owned
        <4> QED
          BY <4>1, <4>2, <4>3 DEF Owned
      <3>2. conn'[c].pc # "idle"
        BY <2>1
      <3> QED
        BY <1>1, <1>3, <2>1, <3>1, <3>2 DEF OwnAt
    <2>4. PipeQuiet(conn[c], conn'[c]) /\ WireQuiet(conn[c], conn'[c])
      <3>1. "wait" \in Waiting /\ conn'[c].pc # "idle" /\ conn'[c].pc # "ack" /\ conn[c].pc # "closed"
        BY <1>1, <2>1 DEF Waiting
      <3> QED
        BY <1>1, <2>1, <3>1 DEF PipeQuiet, WireQuiet, KeepsPipes, KeepsWire
    <2>5. PipeAt(c)' /\ Framed(conn'[c])
      BY <1>1, <1>2, <2>4, PipeKept, WireKept
    <2> QED
      BY <1>1, <1>2, <2>1, <2>2, <2>3, <2>5, OneConnection
  <1>4. CASE conn[c].pid \notin DOMAIN map \/ conn[c].pid = 0
    <2>1. Goto(c, "asleep") /\ UNCHANGED <<reaper, map>>
      BY <1>1, <1>4, WaitSleeps DEF table
    <2>2. TableLess
      BY <1>1, <2>1, NothingLess
    <2>3. "asleep" \in Steps \ {"idle", "ack"} /\ "wait" \in Waiting /\ conn[c].pc # "closed"
      BY <1>1 DEF Steps, Waiting
    <2> QED
      BY <1>1, <1>2, <2>1, <2>2, <2>3, GotoStep
  <1> QED
    BY <1>3, <1>4

\* A status changes hands: who owned it before owns it after.
LEMMA HandedOn ==
  ASSUME EnvdInv, PsLess, spawns' = spawns, conn' \in [Conns -> Connections],
         reaper' = <<>> \/ reaper' \in Pids \X Whose,
         map' \in [DOMAIN map' -> Whose], DOMAIN map' \subseteq Pids,
         \A c \in Conns : Flagged(conn[c], conn'[c]) /\ (Owned(conn[c]) => Owned(conn[c])')
  PROVE  EnvdInv'
  <1> USE Zenon
  <1>1. TypeInv /\ IdsInv
    BY DEF EnvdInv
  <1>2. ASSUME NEW c \in Conns
        PROVE  OwnAt(c)' /\ PipeAt(c)' /\ Framed(conn'[c]) /\ conn'[c].id = conn[c].id
    <2>1. OwnAt(c) /\ PipeAt(c) /\ Framed(conn[c])
      BY DEF EnvdInv, OwnInv, PipeInv, WireInv
    <2>2. PipeQuiet(conn[c], conn'[c]) /\ WireQuiet(conn[c], conn'[c]) /\ conn'[c].id = conn[c].id
      BY FlaggedQuiet
    <2>3. "wait" # "idle"
      OBVIOUS
    <2>4. OwnAt(c)'
      BY <2>1, <2>3 DEF OwnAt, Flagged
    <2> QED
      BY <1>1, <2>1, <2>2, <2>4, PipeKept, WireKept
  <1>3. TypeInv' /\ IdsInv'
    BY <1>1, <1>2, TypeKept
  <1> QED
    BY <1>2, <1>3 DEF EnvdInv, OwnInv, PipeInv, WireInv

\* wait4: the status is with the reaper.
LEMMA Wait4Step ==
  ASSUME EnvdInv, NEW p, Wait4(p)
  PROVE  EnvdInv'
  <1> USE Zenon
  <1>1. /\ TypeInv /\ p \in DOMAIN ps /\ reaper = <<>> /\ reaper' = <<p, [id |-> ps[p].id, root |-> ps[p].root]>>
        /\ ps' = Drop(ps, {p}) /\ spawns' = spawns /\ map' = map /\ conn' = conn
    BY DEF EnvdInv, Wait4
  <1>2. PsLess
    BY <1>1, DropLess
  <1>3. p \in Pids /\ [id |-> ps[p].id, root |-> ps[p].root] \in Whose
    BY <1>1 DEF TypeInv, Whose, Processes
  <1>4. reaper' \in Pids \X Whose
    BY <1>1, <1>3
  <1>5. ASSUME NEW c \in Conns PROVE Flagged(conn[c], conn'[c]) /\ (Owned(conn[c]) => Owned(conn[c])')
    <2>1. Flagged(conn[c], conn'[c])
      BY <1>1 DEF Flagged, KeepsPipes, KeepsWire
    <2>2. ASSUME Owned(conn[c]) PROVE Owned(conn[c])'
      <3>1. conn[c].pid \in DOMAIN ps => ps[conn[c].pid].id = conn[c].id /\ ps[conn[c].pid].root
        BY <2>2 DEF Owned
      <3>2. conn[c].pid \in DOMAIN ps' => ps'[conn[c].pid].id = conn[c].id /\ ps'[conn[c].pid].root
        BY <1>2, <3>1 DEF PsLess
      <3>3. p = conn[c].pid => ps[p].root = TRUE
        BY <1>1, <3>1 DEF TypeInv, Processes
      <3>4. reaper'[1] = conn[c].pid => reaper'[2] = [id |-> conn[c].id, root |-> TRUE]
        <4>1. reaper'[1] = p /\ reaper'[2] = [id |-> ps[p].id, root |-> ps[p].root]
          BY <1>1
        <4> QED
          BY <1>1, <3>1, <3>3, <4>1
      <3> QED
        BY <1>1, <2>2, <3>2, <3>4 DEF Owned
    <2> QED
      BY <2>1, <2>2
  <1>6. /\ conn' \in [Conns -> Connections] /\ map' \in [DOMAIN map' -> Whose] /\ DOMAIN map' \subseteq Pids
    BY <1>1 DEF TypeInv
  <1> QED
    BY <1>1, <1>2, <1>4, <1>5, <1>6, HandedOn

\* The reaper puts it into the table, and the oldest entry may leave.
LEMMA ReapInsertStep ==
  ASSUME EnvdInv, ReapInsert
  PROVE  EnvdInv'
  <1> USE Zenon
  <1>1. TypeInv /\ UNCHANGED <<ps, spawns>> /\ reaper # <<>> /\ reaper' = <<>>
    BY DEF EnvdInv, ReapInsert, procs
  <1>2. PsLess
    BY <1>1, NothingLess
  <1>3. conn' \in [Conns -> Connections] /\ \A d \in Conns : Flagged(conn[d], conn'[d])
    BY <1>1, ReapInsertDoes
  <1>4. PICK out : map' = Drop(Bind(map, reaper[1], reaper[2]), out)
    BY <1>1, ReapInsertDoes
  <1>5. reaper[1] \in Pids /\ reaper[2] \in Whose
    BY <1>1 DEF TypeInv
  <1>6. \A q \in DOMAIN map' : \/ q = reaper[1] /\ map'[q] = reaper[2]
                               \/ q \in DOMAIN map /\ map'[q] = map[q]
    BY <1>4 DEF Drop, Bind
  <1>7. map' \in [DOMAIN map' -> Whose] /\ DOMAIN map' \subseteq Pids
    <2>1. map' = [q \in DOMAIN map' |-> map'[q]]
      BY <1>4 DEF Drop
    <2> QED
      BY <1>1, <1>5, <1>6, <2>1 DEF TypeInv
  <1>8. ASSUME NEW c \in Conns, Owned(conn[c]) PROVE Owned(conn[c])'
    <2>1. conn'[c].id = conn[c].id /\ conn'[c].pid = conn[c].pid /\ conn'[c].got = conn[c].got
      BY <1>3 DEF Flagged
    <2>2. conn[c].pid \in DOMAIN map' => map'[conn[c].pid] = [id |-> conn[c].id, root |-> TRUE]
      BY <1>1, <1>6, <1>8 DEF Owned
    <2> QED
      BY <1>1, <1>8, <2>1, <2>2 DEF Owned
  <1> QED
    BY <1>1, <1>2, <1>3, <1>7, <1>8, HandedOn

\* A process more, which no connection that knows its pid can rely on.
LEMMA ProcessMore ==
  ASSUME EnvdInv, NEW q, q \notin DOMAIN ps, DOMAIN ps' = DOMAIN ps \cup {q},
         \A p \in DOMAIN ps : /\ ps'[p].id = ps[p].id /\ ps'[p].root = ps[p].root /\ ps'[p].pipe = ps[p].pipe
                              /\ ps'[p].st = "run" => ps[p].st = "run",
         UNCHANGED <<reaper, map>>, NEW d \in Conns, Flagged(conn[d], conn'[d]),
         conn[d].pid = q => conn'[d].clash,
         ps'[q].id = conn[d].id => ~ps'[q].root /\ (ps'[q].pipe => ~PipesClosed(conn[d].id))
  PROVE  OwnAt(d)' /\ PipeAt(d)' /\ Framed(conn'[d])
  <1> USE Zenon
  <1>1. OwnAt(d) /\ PipeAt(d) /\ Framed(conn[d])
    BY DEF EnvdInv, OwnInv, PipeInv, WireInv
  <1>2. /\ conn'[d].id = conn[d].id /\ conn'[d].pid = conn[d].pid /\ conn'[d].got = conn[d].got
        /\ (conn[d].clash => conn'[d].clash)
        /\ conn'[d].pc = conn[d].pc \/ (conn[d].pc = "asleep" /\ conn'[d].pc = "wait")
        /\ conn'[d].kind = conn[d].kind /\ conn'[d].fw = conn[d].fw /\ conn'[d].pipe = conn[d].pipe
        /\ conn'[d].host = conn[d].host /\ conn'[d].wlock = conn[d].wlock /\ conn'[d].wire = conn[d].wire
    BY DEF Flagged, KeepsPipes, KeepsWire
  <1>3. Framed(conn'[d])
    BY <1>1, FlaggedQuiet, WireKept
  <1>4. OwnAt(d)'
    <2>1. ASSUME Owned(conn[d]), ~conn'[d].clash PROVE Owned(conn[d])'
      <3>1. conn[d].pid \in DOMAIN ps' => ps'[conn[d].pid].id = conn[d].id /\ ps'[conn[d].pid].root
        BY <2>1 DEF Owned
      <3> QED
        BY <1>2, <2>1, <3>1 DEF Owned
    <2>2. "wait" # "idle"
      OBVIOUS
    <2> QED
      BY <1>1, <1>2, <2>1, <2>2 DEF OwnAt
  <1>5. PipeAt(d)'
    <2>1. \A p \in DOMAIN ps' : ps'[p].id = conn[d].id /\ ps'[p].root /\ conn[d].kind # "pty" => ps'[p].pipe
      BY <1>1 DEF PipeAt
    <2>2. PipesClosed(conn[d].id) => PipesClosed(conn[d].id)'
      BY <1>2, SMT DEF PipesClosed
    <2>3. \A k \in Outs : conn'[d].fw[k] = "done" => conn'[d].pipe[k] = 0 /\ PipesClosed(conn[d].id)'
      BY <1>1, <1>2, <2>2 DEF PipeAt
    <2>4. "wait" # "idle" /\ "wait" # "ack" /\ "asleep" \in {"wait", "asleep", "reply"}
      OBVIOUS
    <2> QED
      BY <1>1, <1>2, <2>1, <2>3, <2>4, ZenonT(30) DEF PipeAt, Gone
  <1> QED
    BY <1>3, <1>4, <1>5

\* A command ends, and may leave a process behind.
LEMMA ExitsStep ==
  ASSUME EnvdInv, NEW p \in Pids, Exits(p)
  PROVE  EnvdInv'
  <1> USE Zenon
  <1>1. /\ TypeInv /\ IdsInv /\ p \in DOMAIN ps /\ ps[p].st = "run" /\ UNCHANGED <<spawns, reaper, map>>
    BY DEF EnvdInv, Exits, table
  <1>2. TableLess
    BY <1>1, NothingLess
  <1>3. CASE ps' = [ps EXCEPT ![p].st = "zombie"] /\ conn' = conn
    <2>1. PsLess
      BY <1>1, <1>3, ZombieLess
    <2>2. \A c \in Conns : /\ conn'[c].id = conn[c].id
                           /\ OwnQuiet(conn[c], conn'[c]) /\ PipeQuiet(conn[c], conn'[c]) /\ WireQuiet(conn[c], conn'[c])
      BY <1>3, Still
    <2>3. conn' \in [Conns -> Connections]
      BY <1>1, <1>3 DEF TypeInv
    <2> QED
      BY <1>1, <1>2, <2>1, <2>2, <2>3, AllQuiet
  <1>4. CASE \E pipe \in {FALSE, ps[p].pipe}, q \in Pids :
               /\ ps[p].root /\ FreePid(q) /\ last' = q
               /\ ps' = Bind([ps EXCEPT ![p].st = "zombie"], q, Process(ps[p].id, FALSE, pipe))
               /\ conn' = Clash(q)
    <2>1. PICK pipe \in {FALSE, ps[p].pipe}, q \in Pids :
            /\ FreePid(q) /\ conn' = Clash(q)
            /\ ps' = Bind([ps EXCEPT ![p].st = "zombie"], q, Process(ps[p].id, FALSE, pipe))
      BY <1>4
    <2> DEFINE z == Process(ps[p].id, FALSE, pipe)
               f == [ps EXCEPT ![p].st = "zombie"]
    <2>2. q \notin DOMAIN ps /\ ps[p] \in Processes
      BY <1>1, <2>1 DEF FreePid, TypeInv
    <2>3. z \in Processes /\ z.id = ps[p].id /\ z.root = FALSE /\ z.pipe = pipe
      <3>1. ps[p].id \in Nat /\ ps[p].pipe \in BOOLEAN
        BY <2>2 DEF Processes
      <3>2. pipe \in BOOLEAN
        BY <2>1, <3>1
      <3>3. z \in Processes
        BY <3>1, <3>2 DEF Process, Processes
      <3> QED
        BY <3>1, <3>2, <3>3 DEF Process
    <2>4. DOMAIN f = DOMAIN ps /\ f[p] = [ps[p] EXCEPT !.st = "zombie"] /\ \A r \in DOMAIN ps : r # p => f[r] = ps[r]
      BY <1>1 DEF TypeInv
    <2> HIDE DEF z, f
    <2>5. /\ DOMAIN ps' = DOMAIN ps \cup {q} /\ ps'[q] = z /\ \A r \in DOMAIN ps : ps'[r] = f[r]
          /\ ps' = [r \in DOMAIN ps' |-> ps'[r]]
      <3>1. ps' = Bind(f, q, z)
        BY <2>1 DEF f, z
      <3> QED
        BY <2>2, <2>4, <3>1 DEF Bind
    <2>6. ASSUME NEW r \in DOMAIN ps
          PROVE  /\ ps'[r] \in Processes
                 /\ ps'[r].id = ps[r].id /\ ps'[r].root = ps[r].root /\ ps'[r].pipe = ps[r].pipe
                 /\ ps'[r].st = "run" => ps[r].st = "run"
      <3>1. CASE r = p
        <4>1. ps'[r] = [ps[p] EXCEPT !.st = "zombie"]
          BY <2>4, <2>5, <3>1
        <4> QED
          BY <1>1, <2>2, <3>1, <4>1 DEF Processes
      <3>2. CASE r # p
        BY <1>1, <2>4, <2>5, <3>2 DEF TypeInv
      <3> QED
        BY <3>1, <3>2
    <2>7. /\ conn' \in [Conns -> Connections]
          /\ \A d \in Conns : Flagged(conn[d], conn'[d]) /\ (conn[d].pid = q => conn'[d].clash)
      BY <1>1, <2>1, ClashDoes
    <2>8. ASSUME NEW d \in Conns PROVE OwnAt(d)' /\ PipeAt(d)' /\ Framed(conn'[d])
      <3>1. z.pipe /\ z.id = conn[d].id => ~PipesClosed(conn[d].id)
        BY <1>1, <2>1, <2>3 DEF PipesClosed
      <3>2. ps'[q].id = conn[d].id => ~ps'[q].root /\ (ps'[q].pipe => ~PipesClosed(conn[d].id))
        BY <2>3, <2>5, <3>1
      <3> QED
        BY <1>1, <2>2, <2>5, <2>6, <2>7, <3>2, ProcessMore
    <2>9. TypeInv'
      <3>1. ps' \in [DOMAIN ps' -> Processes]
        BY <2>3, <2>5, <2>6
      <3>2. DOMAIN ps' \subseteq Pids
        BY <1>1, <2>5 DEF TypeInv
      <3> QED
        BY <1>1, <2>7, <3>1, <3>2 DEF TypeInv, Pids
    <2>10. IdsInv'
      <3>1. \A r \in DOMAIN ps' : ps'[r].id \in 1..spawns'
        BY <1>1, <2>3, <2>5, <2>6 DEF IdsInv
      <3>2. \A d \in Conns : conn'[d].id = conn[d].id
        BY <2>7 DEF Flagged
      <3> QED
        BY <1>1, <3>1, <3>2 DEF IdsInv
    <2> QED
      BY <2>8, <2>9, <2>10 DEF EnvdInv, OwnInv, PipeInv, WireInv
  <1> QED
    BY <1>3, <1>4 DEF Exits

\* A command or a shell is spawned for a connection.
LEMMA RequestStep ==
  ASSUME EnvdInv, NEW c \in Conns, NEW kind \in Kinds[c] \ {"connect"}, Request(c, kind)
  PROVE  EnvdInv'
  <1> USE Zenon
  <1>1. /\ TypeInv /\ IdsInv /\ OwnAt(c) /\ PipeAt(c) /\ Framed(conn[c]) /\ UNCHANGED <<reaper, map>>
    BY DEF EnvdInv, OwnInv, PipeInv, WireInv, Request, table
  <1>2. conn' \in [Conns -> Connections] /\ conn[c].pc = "idle"
    BY <1>1, RequestDoes
  <1>3. PICK p \in Pids \ DOMAIN ps :
          /\ ps' = Bind(ps, p, Process(spawns', TRUE, kind # "pty")) /\ spawns' = spawns + 1
          /\ \A d \in Conns : d # c => Flagged(conn[d], conn'[d]) /\ (conn[d].pid = p => conn'[d].clash)
          /\ conn'[c].id = spawns' /\ conn'[c].pid = p /\ conn'[c].got = conn[c].got
          /\ ~conn'[c].clash => ~InUse(p)
          /\ conn'[c].kind = kind /\ conn'[c].pc = (IF kind = "exec" THEN "drain" ELSE "ack")
          /\ conn'[c].pipe = conn[c].pipe
          /\ conn'[c].fw = All(IF kind = "exec" THEN "read" ELSE "none")
          /\ conn'[c].host = conn[c].host /\ conn'[c].wlock = conn[c].wlock /\ conn'[c].wire = conn[c].wire
    BY <1>1, RequestDoes
  <1>new. p \in Pids /\ p \notin DOMAIN ps /\ conn'[c].id = spawns' /\ spawns' = spawns + 1
    BY <1>3
  <1>4. spawns \in Nat /\ spawns' \in Nat
    BY <1>1, <1>new, SMT DEF TypeInv
  <1>5. PICK out \in BOOLEAN : out = (kind # "pty")
    OBVIOUS
  <1>6. /\ DOMAIN ps' = DOMAIN ps \cup {p} /\ ps'[p] = Process(spawns', TRUE, out)
        /\ \A r \in DOMAIN ps : ps'[r] = ps[r]
        /\ ps' = [r \in DOMAIN ps' |-> ps'[r]]
    <2>1. PICK z : z = Process(spawns', TRUE, out) /\ ps' = Bind(ps, p, z)
      BY <1>3, <1>5
    <2>2. /\ DOMAIN ps' = DOMAIN ps \cup {p} /\ ps'[p] = z /\ \A r \in DOMAIN ps : ps'[r] = ps[r]
          /\ ps' = [r \in DOMAIN ps' |-> ps'[r]]
      <3>1. ps' = Bind(ps, p, z)
        BY <2>1
      <3> QED
        BY <1>new, <3>1 DEF Bind
    <2> QED
      BY <2>1, <2>2
  <1>7. ps'[p] \in Processes /\ ps'[p].id = spawns' /\ ps'[p].root = TRUE /\ ps'[p].pipe = out
    BY <1>4, <1>6, SMT DEF Process, Processes
  <1>8. \A r \in DOMAIN ps : ps[r].id # spawns'
    BY <1>1, <1>new, <1>4, SMT DEF IdsInv
  <1>9. ASSUME NEW d \in Conns, d # c PROVE OwnAt(d)' /\ PipeAt(d)' /\ Framed(conn'[d])
    <2>1. conn[d].id # spawns'
      BY <1>1, <1>new, <1>4, SMT DEF IdsInv, TypeInv, Connections
    <2>2. ps'[p].id # conn[d].id
      BY <1>7, <2>1
    <2>3. \A r \in DOMAIN ps : /\ ps'[r].id = ps[r].id /\ ps'[r].root = ps[r].root /\ ps'[r].pipe = ps[r].pipe
                               /\ ps'[r].st = "run" => ps[r].st = "run"
      BY <1>6
    <2>4. Flagged(conn[d], conn'[d]) /\ (conn[d].pid = p => conn'[d].clash)
      BY <1>3, <1>9
    <2> QED
      BY <1>1, <1>new, <1>6, <2>2, <2>3, <2>4, ProcessMore
  <1>10. OwnAt(c)'
    <2>1. conn'[c].got = <<>> /\ conn'[c].pc # "idle" /\ conn'[c].pid = p
      BY <1>1, <1>2, <1>3 DEF OwnAt
    <2>2. ASSUME ~conn'[c].clash PROVE Owned(conn[c])'
      <3>1. p \notin DOMAIN map' /\ ~(reaper' # <<>> /\ reaper'[1] = p)
        BY <1>1, <1>3, <2>2 DEF InUse
      <3>2. ps'[p].id = conn'[c].id /\ ps'[p].root
        BY <1>new, <1>7
      <3> QED
        BY <2>1, <3>1, <3>2 DEF Owned
    <2> QED
      BY <2>1, <2>2, ZenonT(30) DEF OwnAt
  <1>11. conn[c].fw = All("none") /\ conn[c].wlock = "free" /\ conn[c].wire = <<>>
    BY <1>1, <1>2 DEF PipeAt
  <1>12. \A k \in Outs : /\ conn'[c].fw[k] \in {"read", "none"}
                         /\ conn'[c].fw[k] = "read" => conn'[c].kind # "pty"
    BY <1>3 DEF All
  <1>13. PipeAt(c)'
    <2>1. \A r \in DOMAIN ps' : ps'[r].id = conn'[c].id => r = p
      BY <1>new, <1>6, <1>8
    <2>2. conn'[c].kind # "pty" => ps'[p].pipe
      BY <1>3, <1>5, <1>7
    <2>3. \A r \in DOMAIN ps' : ps'[r].id = conn'[c].id /\ ps'[r].root /\ conn'[c].kind # "pty" => ps'[r].pipe
      BY <2>1, <2>2
    <2>4. conn'[c].pc \notin {"idle", "wait", "asleep", "reply"} /\ (conn'[c].pc = "ack" => conn'[c].fw = All("none"))
      BY <1>3
    <2> QED
      BY <1>12, <2>3, <2>4 DEF PipeAt
  <1>14. Framed(conn'[c])
    <2>1. conn'[c].wlock = "free" /\ conn'[c].wire = <<>>
      BY <1>3, <1>11
    <2>2. \A k \in Outs : conn'[c].fw[k] # "len" /\ k # "free"
      BY <1>12 DEF Outs
    <2> QED
      BY <2>1, <2>2, EmptyWire DEF Framed
  <1>15. TypeInv'
    <2>1. ps' \in [DOMAIN ps' -> Processes] /\ DOMAIN ps' \subseteq Pids
      <3>1. \A r \in DOMAIN ps' : ps'[r] \in Processes /\ r \in Pids
        BY <1>1, <1>new, <1>6, <1>7 DEF TypeInv
      <3>2. ps' = [r \in DOMAIN ps' |-> ps'[r]]
        BY <1>6
      <3> QED
        BY <3>1, <3>2
    <2> QED
      BY <1>1, <1>2, <1>4, <2>1 DEF TypeInv, Pids
  <1>16. IdsInv'
    <2>1. \A r \in DOMAIN ps' : ps'[r].id \in 1..spawns'
      <3>1. ASSUME NEW r \in DOMAIN ps PROVE ps'[r].id \in 1..spawns'
        BY <1>1, <1>new, <1>4, <1>6, SMT DEF IdsInv
      <3>2. ps'[p].id \in 1..spawns'
        BY <1>new, <1>4, <1>7, SMT
      <3> QED
        BY <1>6, <3>1, <3>2
    <2>2. ASSUME NEW d \in Conns PROVE conn'[d].id <= spawns'
      <3>1. CASE d = c
        BY <1>new, <1>4, <3>1, SMT
      <3>2. CASE d # c
        <4>1. conn'[d].id = conn[d].id
          BY <1>3, <3>2 DEF Flagged
        <4>2. conn[d].id \in Nat /\ conn[d].id <= spawns
          BY <1>1 DEF TypeInv, Connections, IdsInv
        <4> QED
          BY <1>new, <1>4, <4>1, <4>2, SMT
      <3> QED
        BY <3>1, <3>2
    <2> QED
      BY <2>1, <2>2 DEF IdsInv
  <1>17. ASSUME NEW d \in Conns PROVE OwnAt(d)' /\ PipeAt(d)' /\ Framed(conn'[d])
    BY <1>9, <1>10, <1>13, <1>14
  <1> QED
    BY <1>15, <1>16, <1>17 DEF EnvdInv, OwnInv, PipeInv, WireInv
-----------------------------------------------------------------------------
(***************************************************************************)
(* The invariant, and what it implies.                                     *)
(***************************************************************************)
\* At the start there are no processes and no requests.
LEMMA EnvdStart == Init => EnvdInv
  <1> USE Zenon
  <1> SUFFICES ASSUME Init PROVE EnvdInv
    OBVIOUS
  <1>1. /\ ps = EmptyMap /\ spawns = 0 /\ reaper = <<>> /\ map = EmptyMap
        /\ conn = [c \in Conns |-> Ready("open")]
    BY DEF Init
  <1>2. Ready("open") \in Connections /\ Fresh(Ready("open")) /\ Ready("open").pc = "idle"
    BY FreshStates
  <1>3. DOMAIN ps = {} /\ DOMAIN map = {} /\ \A c \in Conns : conn[c] = Ready("open")
    BY <1>1 DEF EmptyMap
  <1>4. TypeInv
    <2>1. conn \in [Conns -> Connections]
      BY <1>1, <1>2
    <2>2. ps \in [DOMAIN ps -> Processes] /\ map \in [DOMAIN map -> Whose]
      BY <1>1 DEF EmptyMap
    <2> QED
      BY <1>1, <1>3, <2>1, <2>2 DEF TypeInv
  <1>5. ASSUME NEW c \in Conns PROVE OwnAt(c) /\ PipeAt(c) /\ Framed(conn[c]) /\ conn[c].id = 0
    <2>1. /\ conn[c].id = 0 /\ conn[c].pid = 0 /\ conn[c].got = <<>> /\ conn[c].kind = "none"
          /\ conn[c].fw = All("none") /\ conn[c].pipe = All(0) /\ conn[c].wlock = "free"
          /\ conn[c].wire = <<>> /\ conn[c].pc = "idle"
      BY <1>2, <1>3 DEF Fresh
    <2>2. OwnAt(c)
      BY <2>1 DEF OwnAt
    <2>3. \A k \in Outs : conn[c].fw[k] = "none" /\ k # "free"
      BY <2>1 DEF All, Outs
    <2>4. PipeAt(c)
      BY <1>3, <2>1, <2>3 DEF PipeAt
    <2>5. Framed(conn[c])
      <3>1. "none" # "len"
        OBVIOUS
      <3> QED
        BY <2>1, <2>3, <3>1, EmptyWire DEF Framed
    <2> QED
      BY <2>1, <2>2, <2>4, <2>5
  <1>6. IdsInv
    BY <1>1, <1>3, <1>5, SMT DEF IdsInv
  <1> QED
    BY <1>4, <1>5, <1>6 DEF EnvdInv, OwnInv, PipeInv, WireInv

\* Nothing happens.
LEMMA EnvdStutters == EnvdInv /\ UNCHANGED vars => EnvdInv'
  <1> USE Zenon
  <1> SUFFICES ASSUME EnvdInv, UNCHANGED vars PROVE EnvdInv'
    OBVIOUS
  <1>1. UNCHANGED <<ps, spawns, reaper, map, conn>> /\ TypeInv
    BY DEF vars, procs, table, EnvdInv
  <1>2. PsLess /\ TableLess /\ conn' \in [Conns -> Connections]
    BY <1>1, NothingLess DEF TypeInv
  <1>3. \A c \in Conns : /\ conn'[c].id = conn[c].id
                         /\ OwnQuiet(conn[c], conn'[c]) /\ PipeQuiet(conn[c], conn'[c]) /\ WireQuiet(conn[c], conn'[c])
    BY <1>1, Still
  <1> QED
    BY <1>1, <1>2, <1>3, AllQuiet

\* Every step keeps the invariant.
LEMMA EnvdStep == EnvdInv /\ Next => EnvdInv'
  <1> USE Zenon
  <1> SUFFICES ASSUME EnvdInv, Next PROVE EnvdInv'
    OBVIOUS
  <1>1. CASE \E p \in Pids : Exits(p)
    BY <1>1, ExitsStep
  <1>2. CASE Reaper
    BY <1>2, ReapInsertStep, Wait4Step DEF Reaper
  <1>3. ASSUME NEW c \in Conns, HostCloses(c) \/ Ends(c) \/ Thread(c) \/ Connect(c) \/ TunnelDown(c)
        PROVE  EnvdInv'
    BY <1>3, HostClosesStep, ThreadStep, StreamAckStep, WaitReapedStep, ReplyStep DEF Thread
  <1>4. ASSUME NEW c \in Conns, NEW kind \in Kinds[c] \ {"connect"}, Request(c, kind) PROVE EnvdInv'
    BY <1>4, RequestStep
  <1>5. ASSUME NEW c \in Conns, NEW k \in Outs, Writes(c, k) \/ Forwarder(c, k) PROVE EnvdInv'
    BY <1>5, WritesStep, FwReadStep, FwFrameStep, FwDataStep, FwEofStep DEF Forwarder
  <1> QED
    BY <1>1, <1>2, <1>3, <1>4, <1>5 DEF Next

\* The invariant holds of the guest agent.
LEMMA EnvdHolds == Spec => []EnvdInv
  BY EnvdStart, EnvdStutters, EnvdStep, PTL DEF Spec

\* A thread that waits for its command gets that command's exit status, or
\* its pid was given to another process while somebody still used it:
\* whatever the reaper, the other threads and the evictions of the table do
\* in between.
THEOREM OwnStatus == Spec => []ExitOwnOrReused
  <1> USE Zenon
  <1>1. EnvdInv => ExitOwnOrReused
    <2> SUFFICES ASSUME EnvdInv, NEW c \in Conns, conn[c].got # <<>>
                 PROVE  conn[c].got[1] = [id |-> conn[c].id, root |-> TRUE] \/ conn[c].clash
      BY DEF ExitOwnOrReused
    <2> QED
      BY DEF EnvdInv, OwnInv, OwnAt, Owned
  <1> QED
    BY <1>1, EnvdHolds, PTL

\* What the host reads in stream mode are whole frames, the outputs never cut
\* into each other, and the exit frame comes after both pipes were drained:
\* for any interleaving of the forwarders, the command and the host's hang-up.
THEOREM WholeFrames == Spec => []FramesWhole
  <1> USE Zenon
  <1>1. EnvdInv => FramesWhole
    <2> SUFFICES ASSUME EnvdInv, NEW c \in Conns
                 PROVE  /\ \A i \in 1..Len(conn[c].wire) :
                             /\ conn[c].wire[i][2] = IF i % 2 = 1 THEN "len" ELSE "data"
                             /\ i % 2 = 0 => conn[c].wire[i - 1][1] = conn[c].wire[i][1]
                             /\ conn[c].wire[i][1] = "exit" => i > Len(conn[c].wire) - 2
                        /\ (\E i \in 1..Len(conn[c].wire) : conn[c].wire[i][1] = "exit") =>
                             conn[c].pipe = All(0) /\ conn[c].fw = All("done")
      BY DEF FramesWhole
    <2>1. PipeAt(c) /\ Framed(conn[c]) /\ conn[c].pipe \in Pipes
      BY DEF EnvdInv, PipeInv, WireInv, TypeInv, Connections
    <2>2. conn[c].fw = All("done") => conn[c].pipe = All(0)
      BY <2>1 DEF PipeAt, All, Pipes
    <2> QED
      BY <2>1, <2>2 DEF Framed, Whole
  <1> QED
    BY <1>1, EnvdHolds, PTL
=============================================================================
