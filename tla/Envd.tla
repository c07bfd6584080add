-------------------------------- MODULE Envd --------------------------------
(***************************************************************************)
(* sl-envd, process 1 of the guest: a thread per connection of the host, a *)
(* thread that reaps all children, and the table through which it hands    *)
(* their status to the threads that wait for one.                          *)
(*                                                                         *)
(*   ps      processes: [id, root, st, pipe] by pid.  id is the spawn they *)
(*           come from, root the command itself and not a process it left  *)
(*           behind, pipe whether it holds the ends of the output pipes    *)
(*   last    the pid given last; spawns counts commands and shells         *)
(*   reaper  <<pid, whose>> between wait4 and the table, or <<>>           *)
(*   map, order  REAPED: whose status is kept for a pid, and since when    *)
(*   conn    connections: thread, its command, and the host's side         *)
(* The history of a connection's command: lost, its status was evicted or *)
(* taken by waitpid; clash, its pid was given to one process while the     *)
(* table, the reaper or a thread still used it for another.                *)
(* The data of an exit status is whose it is; a pipe holds one chunk.      *)
(***************************************************************************)
EXTENDS Naturals, Sequences, Maps

CONSTANTS Conns,
          Kinds,       \* what the host asks for on each: "exec", "stream", "pty", "connect"
          MaxPid,      \* pids are 1..MaxPid, given out in a circle
          REAPED_CAP,
          Chunks,      \* bound: chunks a command of each writes to either output
          MaxSpawns    \* bound: commands and shells

ASSUME EnvdAssumption ==
    /\ Kinds \in [Conns -> SUBSET {"exec", "stream", "pty", "connect"}]
    /\ MaxPid \in Nat \ {0} /\ REAPED_CAP \in Nat \ {0}
    /\ Chunks \in [Conns -> Nat] /\ MaxSpawns \in Nat

VARIABLES ps, last, spawns, reaper, map, order, conn

procs == <<ps, last, spawns>>
table == <<reaper, map, order>>
vars == <<procs, table, conn>>

Outs == {"stdout", "stderr"}
All(x) == [k \in Outs |-> x]

\* The state of handle_conn before a request: host is its end of the
\* connection, wire what went to it in stream mode; fw the forwarders.
Ready(host) ==
    [pc |-> "idle", kind |-> "none", host |-> host, id |-> 0, pid |-> 0, got |-> <<>>,
     lost |-> FALSE, clash |-> FALSE, left |-> All(0), pipe |-> All(0), fw |-> All("none"), wlock |-> "free", wire |-> <<>>]

Closed == [Ready("closed") EXCEPT !.pc = "closed"]

Init ==
    /\ ps = EmptyMap /\ last = 0 /\ spawns = 0
    /\ reaper = <<>> /\ map = EmptyMap /\ order = <<>>
    /\ conn = [c \in Conns |-> Ready("open")]

Is(c, kind, pc) == conn[c].kind = kind /\ conn[c].pc = pc
Goto(c, pc) == conn' = [conn EXCEPT ![c].pc = pc]
Gone(c) == conn[c].host = "closed"
-----------------------------------------------------------------------------
\* The kernel gives the next pid that is free.
Pids == 1..MaxPid
After(p, q) == (q + MaxPid - p - 1) % MaxPid
FreePid(q) == /\ q \in Pids \ DOMAIN ps
              /\ \A r \in Pids \ DOMAIN ps : After(last, q) <= After(last, r)

\* Who still means an earlier process by this pid.
InUse(p) ==
    \/ p \in DOMAIN map
    \/ reaper # <<>> /\ reaper[1] = p
    \/ \E c \in Conns : conn[c].pid = p

\* Whoever had the pid before now shares it.
Clash(p) == [c \in Conns |-> [conn[c] EXCEPT !.clash = @ \/ conn[c].pid = p]]

\* The status of the command <<id, TRUE>> is out of reach for its thread.
Lost(f, who) == [c \in Conns |-> [f[c] EXCEPT !.lost = @ \/ [id |-> f[c].id, root |-> TRUE] \in who]]

Process(id, root, pipe) == [id |-> id, root |-> root, st |-> "run", pipe |-> pipe]

\* fork: of a command with two pipes, or of a shell.
Spawn(p, pipe) ==
    /\ spawns < MaxSpawns /\ FreePid(p)
    /\ spawns' = spawns + 1 /\ last' = p
    /\ ps' = Bind(ps, p, Process(spawns', TRUE, pipe))

\* A command or shell ends, once it has written what it has to write, and may
\* leave a process behind, with the pipes or without.
Exits(p) ==
    /\ p \in DOMAIN ps /\ ps[p].st = "run"
    /\ \A c \in Conns : conn[c].id = ps[p].id /\ ps[p].root => conn[c].left = All(0)
    /\ \/ ps' = [ps EXCEPT ![p].st = "zombie"] /\ UNCHANGED <<last, conn>>
       \/ \E pipe \in {FALSE, ps[p].pipe}, q \in Pids :
            /\ ps[p].root /\ FreePid(q) /\ last' = q
            /\ ps' = Bind([ps EXCEPT ![p].st = "zombie"], q, Process(ps[p].id, FALSE, pipe))
            /\ conn' = Clash(q)
    /\ UNCHANGED <<spawns, table>>

\* kill(pid, SIGKILL): whoever has that pid now.
Kill(p) == ps' = IF p \in DOMAIN ps THEN [ps EXCEPT ![p].st = "zombie"] ELSE ps

\* The command writes a chunk, when the pipe has room.
Writes(c, k) ==
    /\ conn[c].left[k] > 0 /\ conn[c].pipe[k] = 0
    /\ \E p \in DOMAIN ps : ps[p].id = conn[c].id /\ ps[p].root /\ ps[p].st = "run"
    /\ conn' = [conn EXCEPT ![c].left[k] = @ - 1, ![c].pipe[k] = 1]
    /\ UNCHANGED <<procs, table>>
-----------------------------------------------------------------------------
\* spawn_reaper: wait4(-1) frees the pid, ...
Wait4(p) ==
    /\ reaper = <<>> /\ p \in DOMAIN ps /\ ps[p].st = "zombie"
    /\ reaper' = <<p, [id |-> ps[p].id, root |-> ps[p].root]>>
    /\ ps' = Drop(ps, {p})
    /\ UNCHANGED <<last, spawns, map, order, conn>>

\* Mutant of Woken: nobody is told.
WokenNever(c) == FALSE

\* notify_all.
Woken(c) == conn[c].pc = "asleep"

\* ... then the status goes into the table, the oldest beyond the cap leave
\* it, and the waiters are woken.
ReapInsert ==
    /\ reaper # <<>>
    /\ \E p \in {reaper[1]} :
       \E all \in {IF p \in DOMAIN map THEN order ELSE Append(order, p)} :
       \E out \in {IF Len(all) > REAPED_CAP THEN {all[1]} ELSE {}} :
       \E full \in {Bind(map, p, reaper[2])} :
        /\ order' = SelectSeq(all, LAMBDA q : q \notin out)
        /\ map' = Drop(full, out)
        /\ conn' = Lost([c \in Conns |-> IF Woken(c) THEN [conn[c] EXCEPT !.pc = "wait"] ELSE conn[c]],
                        {full[q] : q \in out})
    /\ reaper' = <<>>
    /\ UNCHANGED procs

\* Mutant of Status: the oldest entry is taken, whatever its pid.
StatusOldest(p) == IF order = <<>> THEN 0 ELSE order[1]

\* The entry a waiter for p takes, or 0.
Status(p) == IF p \in DOMAIN map THEN p ELSE 0

\* wait_reaped, under the lock of the table.
WaitReaped(c) ==
    /\ conn[c].pc = "wait"
    /\ IF Status(conn[c].pid) = 0
       THEN Goto(c, "asleep") /\ UNCHANGED table
       ELSE \E q \in {Status(conn[c].pid)} :
            /\ conn' = [conn EXCEPT ![c].pc = "reply", ![c].got = <<map[q]>>]
            /\ map' = Drop(map, {q}) /\ order' = SelectSeq(order, LAMBDA p : p # q)
            /\ UNCHANGED reaper
    /\ UNCHANGED procs
-----------------------------------------------------------------------------
\* The host closes its end: the caller is served, or gone.  run_exec looks at
\* the connection when it answers.
HostCloses(c) ==
    /\ conn[c].host # "closed" /\ (conn[c].kind = "exec" => conn[c].pc = "reply")
    /\ conn' = [conn EXCEPT ![c] = IF conn[c].pc = "closed" THEN Closed
                                   ELSE [@ EXCEPT !.host = "closed", !.wire = <<>>]]
    /\ UNCHANGED <<procs, table>>

\* handle_conn: the end of the stream, or a request dispatched at once: Ping,
\* Reinit, WipeKeys, a spawn or a dial that fails (the stream requests end the
\* connection with that).
Ends(c) ==
    /\ conn[c].pc = "idle"
    /\ conn' = [conn EXCEPT ![c] = Closed]
    /\ UNCHANGED <<procs, table>>

\* run_exec, handle_exec_stream and handle_pty: the child is there.
Request(c, kind) ==
    /\ conn[c].pc = "idle" /\ ~Gone(c)
    /\ \E p \in Pids :
        /\ Spawn(p, kind # "pty")
        /\ conn' = [Clash(p) EXCEPT ![c] =
                [conn[c] EXCEPT !.kind = kind, !.id = spawns', !.pid = p, !.clash = InUse(p),
                                !.left = All(IF kind = "pty" THEN 0 ELSE Chunks[c]),
                                !.pc = IF kind = "exec" THEN "drain" ELSE "ack",
                                !.fw = All(IF kind = "exec" THEN "read" ELSE "none")]]
    /\ UNCHANGED table

\* handle_exec_stream: the answer Ok; without a host the child is killed.
StreamAck(c) ==
    /\ Is(c, "stream", "ack")
    /\ IF Gone(c) THEN Kill(conn[c].pid) /\ conn' = [conn EXCEPT ![c].pc = "wait", ![c].left = All(0)]
       ELSE conn' = [conn EXCEPT ![c].pc = "drain", ![c].fw = All("read")] /\ UNCHANGED ps
    /\ UNCHANGED <<last, spawns, table>>

\* The readers of run_exec and the forwarders of a stream take a chunk; after
\* a failed write ("discard") it is dropped.
FwRead(c, k) ==
    /\ conn[c].pipe[k] = 1
    /\ conn[c].fw[k] = "discard" \/ (conn[c].fw[k] = "read" /\ conn[c].kind = "exec")
    /\ conn' = [conn EXCEPT ![c].pipe[k] = 0]
    /\ UNCHANGED <<procs, table>>

\* Mutant of FwFrame: the frame is written without the lock.
FwFrameNoLock(c, k) ==
    /\ conn[c].pipe[k] = 1 /\ conn[c].fw[k] = "read" /\ conn[c].kind = "stream"
    /\ conn' = [conn EXCEPT ![c].pipe[k] = 0, ![c].wlock = "free", ![c].fw[k] = "len",
                            ![c].wire = Append(@, <<k, "len">>)]
    /\ UNCHANGED <<procs, table>>

\* A forwarder has read a chunk and has wlock; write_frame_fd writes first
\* the length, ...
FwFrame(c, k) ==
    /\ conn[c].pipe[k] = 1 /\ conn[c].fw[k] = "read" /\ conn[c].kind = "stream"
    /\ conn[c].wlock = "free"
    /\ conn' = [conn EXCEPT ![c].pipe[k] = 0, ![c].wlock = k, ![c].fw[k] = "len",
                            ![c].wire = IF Gone(c) THEN @ ELSE Append(@, <<k, "len">>)]
    /\ UNCHANGED <<procs, table>>

\* ... then the payload.
FwData(c, k) ==
    /\ conn[c].fw[k] = "len"
    /\ conn' = [conn EXCEPT ![c].wlock = "free",
            ![c].fw[k] = IF Gone(c) THEN "discard" ELSE "read",
            ![c].wire = IF Gone(c) THEN @ ELSE Append(@, <<k, "data">>)]
    /\ UNCHANGED <<procs, table>>

\* The end of the pipe: no process holds its other end.
FwEof(c, k) ==
    /\ conn[c].fw[k] \in {"read", "discard"} /\ conn[c].pipe[k] = 0
    /\ ~\E p \in DOMAIN ps : ps[p].id = conn[c].id /\ ps[p].pipe /\ ps[p].st = "run"
    /\ conn' = [conn EXCEPT ![c].fw[k] = "done"]
    /\ UNCHANGED <<procs, table>>

\* Both readers are joined.
Drained(c) == conn[c].pc = "drain" /\ conn[c].fw = All("done")

Join(c) == Drained(c) /\ Goto(c, "wait") /\ UNCHANGED <<procs, table>>

\* write_frame: the length, then the bytes.
Frame(k) == <<<<k, "len">>, <<k, "data">>>>

\* The answer of run_exec, and the next request; or the exit frame.
Reply(c) ==
    /\ conn[c].pc = "reply"
    /\ conn' = [conn EXCEPT ![c] =
            IF Gone(c) THEN Closed
            ELSE IF conn[c].kind = "exec" THEN Ready("open")
            ELSE [@ EXCEPT !.pc = "closed", !.id = 0, !.pid = 0, !.got = <<>>,
                           !.wire = conn[c].wire \o Frame("exit")]]
    /\ UNCHANGED <<procs, table>>
-----------------------------------------------------------------------------
\* handle_pty: the answer Ok; the session lasts until the host's end closes.
PtyEnds(c) ==
    /\ conn[c].kind = "pty" /\ conn[c].pc \in {"ack", "pty"}
    /\ IF Gone(c) THEN Goto(c, "pkill") ELSE conn[c].pc = "ack" /\ Goto(c, "pty")
    /\ UNCHANGED <<procs, table>>

\* Then the shell is killed, by its pid, ...
PtyKill(c) ==
    /\ conn[c].pc = "pkill"
    /\ Kill(conn[c].pid) /\ Goto(c, "pwait")
    /\ UNCHANGED <<last, spawns, table>>

\* ... and waited for: in a race with the reaper, which may have it already.
PtyWait(c) ==
    /\ conn[c].pc = "pwait"
    /\ \/ /\ conn[c].pid \notin DOMAIN ps
          /\ conn' = [conn EXCEPT ![c] = Closed] /\ UNCHANGED ps
       \/ /\ conn[c].pid \in DOMAIN ps /\ ps[conn[c].pid].st = "zombie"
          /\ ps' = Drop(ps, {conn[c].pid})
          /\ conn' = [Lost(conn, {[id |-> ps[conn[c].pid].id, root |-> ps[conn[c].pid].root]})
                        EXCEPT ![c] = Closed]
    /\ UNCHANGED <<last, spawns, table>>
-----------------------------------------------------------------------------
\* handle_connect: a connection to a port of the guest (dial_loopback tries
\* again for a second) and the answer Ok.
Connect(c) ==
    /\ "connect" \in Kinds[c] /\ conn[c].pc = "idle" /\ ~Gone(c)
    /\ conn' = [conn EXCEPT ![c].kind = "connect", ![c].pc = "ack"]
    /\ UNCHANGED <<procs, table>>

\* splice_bidi: the thread from the host to the service ends with the host's
\* data, and leaves the service's side alone.
TunnelUp(c) ==
    /\ conn[c].kind = "connect"
    /\ \/ conn[c].pc = "ack" /\ conn' = [conn EXCEPT ![c] = IF Gone(c) THEN Closed ELSE [@ EXCEPT !.pc = "tunnel"]]
       \/ conn[c].pc = "tunnel" /\ Gone(c) /\ Goto(c, "down")
    /\ UNCHANGED <<procs, table>>

\* The service closes, or sends something to a host that is gone: both ends
\* are shut down, the other thread joined and the descriptors closed.
TunnelDown(c) ==
    /\ conn[c].kind = "connect" /\ conn[c].pc \in {"tunnel", "down"}
    /\ conn' = [conn EXCEPT ![c] = Closed]
    /\ UNCHANGED <<procs, table>>
-----------------------------------------------------------------------------
Thread(c) ==
    \/ StreamAck(c) \/ Join(c) \/ WaitReaped(c) \/ Reply(c)
    \/ PtyEnds(c) \/ PtyKill(c) \/ PtyWait(c) \/ TunnelUp(c)
Forwarder(c, k) == FwRead(c, k) \/ FwFrame(c, k) \/ FwData(c, k) \/ FwEof(c, k)
Reaper == ReapInsert \/ \E p \in Pids : Wait4(p)

Next ==
    \/ \E p \in Pids : Exits(p)
    \/ \E c \in Conns :
        \/ HostCloses(c) \/ Ends(c) \/ Thread(c) \/ Connect(c) \/ TunnelDown(c)
        \/ \E kind \in Kinds[c] \ {"connect"} : Request(c, kind)
        \/ \E k \in Outs : Writes(c, k) \/ Forwarder(c, k)
    \/ Reaper

Spec == Init /\ [][Next]_vars

\* The reaper runs on, and of the threads of a connection one that can;
\* commands need not.
Fairness ==
    /\ WF_vars(Reaper)
    /\ \A c \in Conns : WF_vars(Thread(c) \/ \E k \in Outs : Forwarder(c, k))

FairSpec == Spec /\ Fairness
-----------------------------------------------------------------------------
\* wait_reaped hands a thread the status of its own command, unless the pid
\* was given away while somebody still used it for an earlier process.
ExitOwnOrReused ==
    \A c \in Conns : conn[c].got # <<>> =>
        \/ conn[c].got[1] = [id |-> conn[c].id, root |-> TRUE]
        \/ conn[c].clash

\* What the host reads in stream mode are whole frames, in which neither
\* output cuts into the other's, and the exit frame comes after all output.
FramesWhole ==
    \A c \in Conns : LET w == conn[c].wire IN
        /\ \A i \in 1..Len(w) :
            /\ w[i][2] = IF i % 2 = 1 THEN "len" ELSE "data"
            /\ i % 2 = 0 => w[i - 1][1] = w[i][1]
            /\ w[i][1] = "exit" => i > Len(w) - 2
        /\ (\E i \in 1..Len(w) : w[i][1] = "exit") =>
            conn[c].pipe = All(0) /\ conn[c].fw = All("done")

\* A command whose processes are gone is answered, and its connection goes
\* on: no output is left in a pipe nobody reads, no waiter sleeps through its
\* status.  Excepted is a status the table evicted or waitpid took, and a pid
\* that was given away too early.
Alive(c) == \E p \in DOMAIN ps : ps[p].id = conn[c].id /\ ps[p].st = "run"
Excused(c) == conn[c].lost \/ conn[c].clash
Waits(c) == conn[c].id # 0 /\ conn[c].kind # "pty"
Served == \A c \in Conns : (Waits(c) /\ ~Alive(c)) ~> (~Waits(c) \/ Excused(c))
=============================================================================
