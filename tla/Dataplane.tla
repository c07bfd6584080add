----------------------------- MODULE Dataplane -----------------------------
(***************************************************************************)
(* The data plane (dataplane.rs, with the gateway listener of api.rs): the *)
(* agent of a node keeps connections to the stand-alone gateway, which     *)
(* parks them; a client's request is verified, routed to the node of its   *)
(* sandbox over a parked connection, executed there and answered.  The     *)
(* daemon's own gateway executes a verified request in place.              *)
(*                                                                         *)
(*   conn   connections: [n node, g gateway's end, nd node's end, msg the  *)
(*          ticket sent with OPEN, ran it was executed, old, dead]         *)
(*   pool   NodePool of the gateway: the parked connections, oldest first  *)
(*   slot   dialling threads of the agents, <<node, i>>: [pc, c]           *)
(*   streams   connections served by a thread of their own                 *)
(*   inflight  the agents' counters of such threads                        *)
(*   req    requests of clients: [pc, door, t, seen the clock verify read, *)
(*          lease of the nonce, c]; "done" is answered, whatever the code  *)
(*   ran    how often the request of a ticket was executed                 *)
(*   late   nonces consumed after their ticket had expired                 *)
(*   drops  connections that died without a sign to either end             *)
(***************************************************************************)
EXTENDS Tickets, Sequences, FiniteSets, Functions

CONSTANTS Gw,            \* the process sandlocker-gw; all others are nodes
          Slots,         \* --gw-pool, as the set of its indices
          MaxStreams,    \* --gw-max-streams
          MaxConns,      \* bound: connections at a time
          MaxReqs,       \* bound: requests of clients
          Owner,         \* node of the sandbox a ticket is for
          NoTicket,
          MaxDrops       \* bound on silent deaths of connections

ASSUME DataplaneAssumption ==
    /\ Gw \in Procs /\ MaxStreams \in Nat \ {0}
    /\ MaxConns \in Nat /\ MaxReqs \in Nat /\ MaxDrops \in Nat
    /\ Owner \in [TicketIds -> Procs \ {Gw}]
    /\ IsFiniteSet(Slots) /\ NoTicket \notin TicketIds

VARIABLES conn, pool, slot, streams, inflight, req, ran, late, drops

wire == <<conn, pool, slot, streams, inflight, drops>>
dvars == <<wire, req, ran, late>>
vars == <<tvars, dvars>>

Nodes == Procs \ {Gw}
AllSlots == Nodes \X Slots
Conns == 1..MaxConns    \* a new one takes the first free number
NoConn == 0
Reqs == 1..MaxReqs      \* numbered as they come

Dialling == [pc |-> "dial", c |-> NoConn]
Idle == [pc |-> "idle", door |-> Gw, t |-> NoTicket, seen |-> 0, lease |-> 0, c |-> NoConn]

Init ==
    /\ TicketsInit
    /\ conn = EmptyMap /\ pool = <<>> /\ slot = [s \in AllSlots |-> Dialling]
    /\ streams = {} /\ inflight = [n \in Nodes |-> 0]
    /\ req = [r \in Reqs |-> Idle]
    /\ ran = [t \in TicketIds |-> 0] /\ late = [t \in TicketIds |-> 0] /\ drops = 0
-----------------------------------------------------------------------------
\* One end of the connections C is closed; what is closed at both is gone.
CloseGw(f, C) ==
    [c \in {x \in DOMAIN f : ~(x \in C /\ f[x].nd = "closed")} |->
        IF c \in C THEN [f[c] EXCEPT !.g = "closed", !.old = FALSE] ELSE f[c]]

CloseNode(f, C) ==
    [c \in {x \in DOMAIN f : ~(x \in C /\ f[x].g = "closed")} |->
        IF c \in C THEN [f[c] EXCEPT !.nd = "closed"] ELSE f[c]]

\* start_node_agent, dial_once: connect, handshake, send the greeting.
Dial(s) ==
    /\ shared /\ Ready(s[1]) /\ Ready(Gw) /\ slot[s].pc = "dial"
    /\ \E c \in Conns \ DOMAIN conn :
        /\ 1..(c - 1) \subseteq DOMAIN conn
        /\ conn' = Bind(conn, c, [n |-> s[1], g |-> "greet", nd |-> "open", msg |-> NoTicket,
                                  ran |-> FALSE, old |-> FALSE, dead |-> FALSE])
        /\ slot' = [slot EXCEPT ![s] = [pc |-> "wait", c |-> c]]
    /\ UNCHANGED <<tvars, pool, streams, inflight, req, ran, late, drops>>

\* accept_node: the greeting parks the connection; a failed handshake or a
\* greeting that does not come within 10 s closes it.
Greet(c) ==
    /\ c \in DOMAIN conn /\ conn[c].g = "greet"
    /\ \/ conn' = [conn EXCEPT ![c].g = "parked"] /\ pool' = Append(pool, c)
       \/ conn' = CloseGw(conn, {c}) /\ UNCHANGED pool
    /\ UNCHANGED <<tvars, slot, streams, inflight, req, ran, late, drops>>

\* A parked connection passes max_idle.
Age(c) ==
    /\ c \in Range(pool) /\ ~conn[c].old
    /\ \A i \in 1..Len(pool) : pool[i] = c => \A j \in 1..(i - 1) : conn[pool[j]].old
    /\ conn' = [conn EXCEPT ![c].old = TRUE]
    /\ UNCHANGED <<tvars, pool, slot, streams, inflight, req, ran, late, drops>>

\* A middlebox forgets a connection that waits; neither end is told.
SilentDrop(c) ==
    /\ drops < MaxDrops /\ c \in Range(pool) /\ ~conn[c].dead
    /\ drops' = drops + 1 /\ conn' = [conn EXCEPT ![c].dead = TRUE]
    /\ UNCHANGED <<tvars, pool, slot, streams, inflight, req, ran, late>>
-----------------------------------------------------------------------------
\* serve_one: a line arrives, or the end of the stream (what was sent before
\* a reset may be lost).
SlotReads(s) ==
    /\ slot[s].pc = "wait" /\ ~conn[slot[s].c].dead /\ conn[slot[s].c].msg # NoTicket
    /\ slot' = [slot EXCEPT ![s].pc = "load"]
    /\ UNCHANGED <<tvars, conn, pool, streams, inflight, req, ran, late, drops>>

SlotEof(s) ==
    /\ slot[s].pc = "wait" /\ ~conn[slot[s].c].dead /\ conn[slot[s].c].g = "closed"
    /\ slot' = [slot EXCEPT ![s] = Dialling]
    /\ conn' = CloseNode(conn, {slot[s].c})
    /\ UNCHANGED <<tvars, pool, streams, inflight, req, ran, late, drops>>

\* inflight.load: at the limit the request is served by this thread.
SlotLoad(s) ==
    /\ slot[s].pc = "load"
    /\ slot' = [slot EXCEPT ![s].pc = IF inflight[s[1]] >= MaxStreams THEN "serve" ELSE "add"]
    /\ UNCHANGED <<tvars, conn, pool, streams, inflight, req, ran, late, drops>>

SlotAdd(s) ==
    /\ slot[s].pc = "add"
    /\ inflight' = [inflight EXCEPT ![s[1]] = @ + 1]
    /\ slot' = [slot EXCEPT ![s].pc = "spawn"]
    /\ UNCHANGED <<tvars, conn, pool, streams, req, ran, late, drops>>

\* Mutant of SlotSpawn: the counter is not taken back.
SlotSpawnLeak(s) ==
    /\ slot[s].pc = "spawn"
    /\ \/ streams' = streams \cup {slot[s].c} /\ UNCHANGED <<conn, inflight>>
       \/ conn' = CloseNode(conn, {slot[s].c}) /\ UNCHANGED <<streams, inflight>>
    /\ slot' = [slot EXCEPT ![s] = Dialling]
    /\ UNCHANGED <<tvars, pool, req, ran, late, drops>>

\* A thread takes over; or there is none to be had and the stream is lost.
SlotSpawn(s) ==
    /\ slot[s].pc = "spawn"
    /\ \/ streams' = streams \cup {slot[s].c} /\ UNCHANGED <<conn, inflight>>
       \/ /\ inflight' = [inflight EXCEPT ![s[1]] = @ - 1]
          /\ conn' = CloseNode(conn, {slot[s].c})
          /\ UNCHANGED streams
    /\ slot' = [slot EXCEPT ![s] = Dialling]
    /\ UNCHANGED <<tvars, pool, req, ran, late, drops>>

InPlace == {s \in AllSlots : slot[s].pc = "serve"}

\* The handler of serve: read_request, serve_gw_ticket.
Execute(c) ==
    /\ c \in streams \cup {slot[s].c : s \in InPlace}
    /\ ~conn[c].ran
    /\ ran' = [ran EXCEPT ![conn[c].msg] = @ + 1]
    /\ conn' = [conn EXCEPT ![c].ran = TRUE]
    /\ UNCHANGED <<tvars, pool, slot, streams, inflight, req, late, drops>>

\* The answer is written, the sending side shut down, the connection
\* dropped; without an answer when the gateway went before the request came.
Finished(c) ==
    /\ conn[c].ran \/ conn[c].g = "closed"
    /\ conn' = CloseNode(conn, {c})

FinishInPlace(s) ==
    /\ s \in InPlace /\ Finished(slot[s].c)
    /\ slot' = [slot EXCEPT ![s] = Dialling]
    /\ UNCHANGED <<tvars, pool, streams, inflight, req, ran, late, drops>>

FinishStream(c) ==
    /\ c \in streams /\ Finished(c)
    /\ streams' = streams \ {c}
    /\ inflight' = [inflight EXCEPT ![conn[c].n] = @ - 1]
    /\ UNCHANGED <<tvars, pool, slot, req, ran, late, drops>>
-----------------------------------------------------------------------------
Step(r, pc) == req' = [req EXCEPT ![r] = [@ EXCEPT !.pc = pc, !.seen = 0, !.lease = 0]]

\* The answer is written and the thread ends.
Answer(r) == req' = [req EXCEPT ![r] = [Idle EXCEPT !.pc = "done"]]

\* A client presents a ticket, perhaps again, at the gateway or at a daemon;
\* verify reads the clock and checks signature and expiry.
Present(r, t, door) ==
    /\ req[r].pc = "idle" /\ \A q \in 1..(r - 1) : req[q].pc # "idle"
    /\ t \in DOMAIN ticket /\ Ready(door) /\ (door = Gw => shared)
    /\ req' = [req EXCEPT ![r] =
            IF Signed(door, t) THEN [Idle EXCEPT !.pc = "nonce", !.door = door, !.t = t, !.seen = now]
            ELSE [Idle EXCEPT !.pc = "done"]]
    /\ UNCHANGED <<tvars, wire, ran, late>>

\* NonceGuard::Local: one insertion under the lock.
NonceLocal(r) ==
    /\ req[r].pc = "nonce" /\ ~shared
    /\ IF req[r].t \in proc[req[r].door].used THEN Answer(r) /\ UNCHANGED proc
       ELSE Step(r, "serve") /\ proc' = [proc EXCEPT ![req[r].door].used = @ \cup {req[r].t}]
    /\ UNCHANGED <<shared, gwSecret, ticket, nonce, now, wire, ran, late>>

\* NonceGuard::Shared: a lease of the life the ticket had when the clock was
\* read; the server counts it from now.
NonceLease(r) ==
    /\ req[r].pc = "nonce" /\ shared
    /\ \/ req' = [req EXCEPT ![r] = [@ EXCEPT !.pc = "cas", !.lease = now + NonceTtl(req[r].t, req[r].seen)]]
       \/ Answer(r)
    /\ UNCHANGED <<tvars, wire, ran, late>>

\* The compare_and_swap: refused, or an error (the lease is gone, the answer
\* lost after it was applied), or the ticket is consumed.
NonceCas(r) ==
    LET t == req[r].t IN
    /\ req[r].pc = "cas"
    /\ \/ /\ NonceFree(t) /\ now < req[r].lease
          /\ nonce' = Bind(nonce, t, req[r].lease)
          /\ \/ /\ Step(r, IF req[r].door = Gw THEN "route" ELSE "serve")
                /\ late' = [late EXCEPT ![t] = IF now < ticket[t].exp THEN @ ELSE @ + 1]
             \/ Answer(r) /\ UNCHANGED late
       \/ Answer(r) /\ UNCHANGED <<nonce, late>>
    /\ UNCHANGED <<shared, gwSecret, proc, ticket, now, wire, ran>>

\* handle_gw_conn: the daemon's own gateway serves it at once.
ServeLocal(r) ==
    /\ req[r].pc = "serve"
    /\ ran' = [ran EXCEPT ![req[r].t] = IF Owner[req[r].t] = req[r].door THEN @ + 1 ELSE @]
    /\ Answer(r)
    /\ UNCHANGED <<tvars, wire, late>>

\* handle_client: the owner's key, or the node named by a create ticket; the
\* sandbox may be gone by now, or the store not answer.
Route(r) ==
    /\ req[r].pc = "route"
    /\ Answer(r) \/ Step(r, "take")
    /\ UNCHANGED <<tvars, wire, ran, late>>

\* NodePool::take: old connections of the node are closed and the first
\* fresh one is taken.  With none the thread waits for a connection to be
\* parked, or gives up at its deadline.
Mine(r) == SelectSeq(pool, LAMBDA c : conn[c].n = Owner[req[r].t])
Old(r) == {c \in Range(Mine(r)) : conn[c].old}
Fresh(r) == SelectSeq(Mine(r), LAMBDA c : ~conn[c].old)

TakeFrom(r, got) ==
    /\ pool' = SelectSeq(pool, LAMBDA c : c \notin Old(r) \cup got)
    /\ conn' = CloseGw([c \in DOMAIN conn |-> IF c \in got THEN [conn[c] EXCEPT !.g = "held"]
                                              ELSE conn[c]], Old(r))
    /\ UNCHANGED <<tvars, slot, streams, inflight, ran, late, drops>>

\* Mutant of Take: no deadline.
TakeForever(r) ==
    /\ req[r].pc = "take" /\ Fresh(r) # <<>>
    /\ TakeFrom(r, {Fresh(r)[1]}) /\ req' = [req EXCEPT ![r] = [@ EXCEPT !.pc = "write", !.c = Fresh(r)[1]]]

Take(r) ==
    /\ req[r].pc = "take"
    /\ IF Fresh(r) # <<>>
       THEN TakeFrom(r, {Fresh(r)[1]}) /\ req' = [req EXCEPT ![r] = [@ EXCEPT !.pc = "write", !.c = Fresh(r)[1]]]
       ELSE TakeFrom(r, {}) /\ Answer(r)

TakeWait(r) ==
    /\ req[r].pc = "take" /\ Fresh(r) = <<>> /\ Old(r) # {} /\ TakeFrom(r, {}) /\ UNCHANGED req

Close(r) ==
    /\ Answer(r)
    /\ conn' = CloseGw(conn, {req[r].c})
    /\ UNCHANGED <<tvars, pool, slot, streams, inflight, ran, late, drops>>

\* OPEN and the request are written.  An error is told when the node's end is
\* gone; bytes into a connection that died silently are lost.
Write(r) ==
    /\ req[r].pc = "write"
    /\ \/ conn[req[r].c].nd = "closed" /\ Close(r)
       \/ /\ Step(r, "relay")
          /\ conn' = [conn EXCEPT ![req[r].c].msg = req[r].t]
          /\ UNCHANGED <<tvars, pool, slot, streams, inflight, ran, late, drops>>

\* relay: until the node's end is closed, after an answer or without one.
Relay(r) ==
    /\ req[r].pc = "relay"
    /\ conn[req[r].c].nd = "closed" \/ conn[req[r].c].dead
    /\ Close(r)
-----------------------------------------------------------------------------
\* A process dies with its threads, connections and pool.
Die(p) ==
    /\ Ready(p) /\ proc[p].gen < MaxStarts[p]
    /\ proc' = [proc EXCEPT ![p] = Starting(proc[p].gen + 1)]
    /\ req' = [r \in Reqs |-> IF req[r].door = p /\ req[r].pc # "idle"
                              THEN [Idle EXCEPT !.pc = "done"] ELSE req[r]]
    /\ conn' = IF p = Gw THEN CloseGw(conn, DOMAIN conn)
               ELSE CloseNode(conn, {c \in DOMAIN conn : conn[c].n = p})
    /\ pool' = IF p = Gw THEN <<>> ELSE pool
    /\ slot' = [s \in AllSlots |-> IF s[1] = p THEN Dialling ELSE slot[s]]
    /\ streams' = {c \in streams : conn[c].n # p}
    /\ inflight' = [n \in Nodes |-> IF n = p THEN 0 ELSE inflight[n]]
    /\ UNCHANGED <<shared, gwSecret, ticket, nonce, now, ran, late, drops>>

\* The threads of the processes: they run on.
ProcStep(p) == StartLocal(p) \/ SecretRead(p) \/ SecretCas(p)
SlotStep(s) ==
    \/ Dial(s) \/ SlotReads(s) \/ SlotEof(s) \/ SlotLoad(s) \/ SlotAdd(s) \/ SlotSpawn(s)
    \/ FinishInPlace(s)
ConnStep(c) == Greet(c) \/ Execute(c) \/ FinishStream(c)
ReqStep(r) ==
    \/ NonceLocal(r) \/ NonceLease(r) \/ NonceCas(r) \/ ServeLocal(r)
    \/ Route(r) \/ Take(r) \/ Write(r) \/ Relay(r)

Next ==
    \/ \E p \in Procs :
        \/ (SecretRead(p) \/ SecretCas(p) \/ StartFails(p)) /\ UNCHANGED dvars
        \/ p # Gw /\ StartLocal(p) /\ UNCHANGED dvars
        \/ p # Gw /\ \E t \in TicketIds : Mint(p, t) /\ UNCHANGED dvars
        \/ Die(p)
    \/ \E t \in TicketIds : NonceExpires(t) /\ UNCHANGED dvars
    \/ Clock /\ UNCHANGED dvars
    \/ \E s \in AllSlots : SlotStep(s)
    \/ \E c \in Conns : ConnStep(c) \/ Age(c) \/ SilentDrop(c)
    \/ \E r \in Reqs : ReqStep(r) \/ TakeWait(r) \/ \E t \in TicketIds, door \in Procs : Present(r, t, door)

Spec == Init /\ [][Next]_vars

Fairness ==
    /\ \A p \in Procs : WF_vars(ProcStep(p) /\ UNCHANGED dvars)
    /\ \A s \in AllSlots : WF_vars(SlotStep(s))
    /\ \A c \in Conns : WF_vars(ConnStep(c))
    /\ \A r \in Reqs : WF_vars(ReqStep(r))

FairSpec == Spec /\ Fairness
-----------------------------------------------------------------------------
\* A ticket is good for one execution: whatever is presented twice, at the
\* gateway and at a daemon, whichever process dies in between and whichever
\* answer is lost.  Only an attempt that stalls between its look at the clock
\* and its compare_and_swap until the ticket has expired can add another.
TicketOnce == \A t \in TicketIds : ran[t] <= 1 + late[t]

\* The agent's counter is the number of threads it stands for, and the
\* requests in work stay bounded: the limit is read before it is taken, so
\* that each slot may add one on top of it, and serve one itself.
StreamsBounded ==
    \A n \in Nodes :
        LET own == {c \in streams : conn[c].n = n}
        IN  /\ inflight[n] = Cardinality(own) + Cardinality({i \in Slots : slot[<<n, i>>].pc = "spawn"})
            /\ Cardinality(own) + Cardinality({s \in InPlace : s[1] = n})
                  <= MaxStreams - 1 + 2 * Cardinality(Slots)

\* Every request is answered in the end, if only by 502, 503 or an empty
\* answer: nobody waits for a connection, a node or a nonce for ever.
Answered == \A r \in Reqs : req[r].pc # "idle" ~> req[r].pc = "done"
=============================================================================
