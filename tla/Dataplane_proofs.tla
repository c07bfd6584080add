-------------------------- MODULE Dataplane_proofs --------------------------
(***************************************************************************)
(* Secrets and streams of the data plane, for any number of processes,     *)
(* tickets, requests, connections and slots, any ticket life and any       *)
(* number of restarts and silently dropped connections:                    *)
(*   - everyone who is up has the same secret (SecretsAgree);              *)
(*   - the streams of a node stay bounded (StreamsBounded);                *)
(*   - a ticket runs once, and once more for each consumption that came    *)
(*     late (TicketOnce).                                                  *)
(***************************************************************************)
EXTENDS Dataplane, FiniteSetTheorems, TLAPS

Secrets == (Procs \X Nat) \cup {NoSecret}

Proc == [pc : {"start", "cas", "reread", "ready"}, gen : Nat, secret : Secrets,
         used : SUBSET TicketIds]

\* ensure_gw_secret: who is up has the secret of the store, which is written
\* once; a process alone has the value of its present start.
SecretInv ==
    /\ shared \in BOOLEAN /\ proc \in [Procs -> Proc] /\ gwSecret \in Secrets
    /\ \A p \in Procs : proc[p].pc \in {"cas", "reread"} => shared
    /\ shared => \A p \in Procs : Ready(p) => proc[p].secret = gwSecret /\ gwSecret # NoSecret
    /\ ~shared => \A p \in Procs : Ready(p) => proc[p].secret = Random(p)

\* The request holds a ticket it has consumed and not passed on yet.
Consumed == {"serve", "route", "take", "write"}

ReqPcs == {"idle", "done", "nonce", "cas", "relay"} \cup Consumed

Request(c) == [pc : ReqPcs, door : Procs, t : TicketIds \cup {NoTicket}, seen : Nat, lease : Nat, c : {c}]

\* Tickets of a daemon alone are signed with a value it had at some start.
SignedBy(t, p, g) == t \in DOMAIN ticket /\ ticket[t].secret = <<p, g>>

TicketInv ==
    /\ now \in Nat
    /\ DOMAIN ticket \subseteq TicketIds /\ \A t \in DOMAIN ticket : ticket[t].exp \in Nat
    /\ DOMAIN nonce \subseteq DOMAIN ticket
    /\ \A t \in DOMAIN nonce : nonce[t] \in Nat /\ nonce[t] >= ticket[t].exp

\* What a request knows: a lease that outlives its ticket; at a daemon alone,
\* a ticket of this very start.
ReqOk(q) ==
    /\ q.pc \in {"nonce", "cas"} \cup Consumed => q.t \in DOMAIN ticket
    /\ q.pc = "nonce" => q.seen <= now
    /\ q.pc = "cas" => shared /\ q.lease >= ticket[q.t].exp
    /\ q.pc = "nonce" /\ ~shared => Ready(q.door) /\ SignedBy(q.t, q.door, proc[q.door].gen)

ReqInv == 
    /\ DOMAIN req = Reqs
    /\ \A r \in Reqs : req[r] \in Request(req[r].c) /\ ReqOk(req[r])

\* The connections a ticket waits on for its execution.
Sent(f, t) == {c \in DOMAIN f : f[c].msg = t /\ ~f[c].ran}

\* The connection a thread of the agent serves is its own and open.
Conn == [n : Nodes, g : {"greet", "parked", "held", "closed"}, nd : {"open", "closed"},
         msg : TicketIds \cup {NoTicket}, ran : BOOLEAN, old : BOOLEAN, dead : BOOLEAN]

SlotPcs == {"dial", "wait", "load", "add", "spawn", "serve"}

Slot == [pc : SlotPcs, c : Conns \cup {NoConn}]

Open(f, c, n) == c \in DOMAIN f /\ f[c].n = n /\ f[c].nd = "open"

WireInv ==
    /\ DOMAIN conn \subseteq Conns /\ \A c \in DOMAIN conn : conn[c] \in Conn
    /\ slot \in [AllSlots -> Slot]
    /\ \A s \in AllSlots : slot[s].pc # "dial" => Open(conn, slot[s].c, s[1]) /\ slot[s].c \notin streams
    /\ \A s, u \in AllSlots : slot[s].pc # "dial" /\ slot[u].pc # "dial" /\ slot[s].c = slot[u].c => s = u
    /\ \A c \in streams : \E n \in Nodes : Open(conn, c, n)

At(f, n, pc) == {i \in Slots : f[<<n, i>>].pc = pc}

Own(S, f, n) == {c \in S : f[c].n = n}

CountOk(k, S, f, g, n) ==
    /\ k = Cardinality(Own(S, f, n)) + Cardinality(At(g, n, "spawn"))
    /\ k + Cardinality(At(g, n, "add")) <= MaxStreams - 1 + Cardinality(Slots)

CountInv ==
    inflight \in [Nodes -> Nat] /\ \A n \in Nodes : CountOk(inflight[n], streams, conn, slot, n)

-----------------------------------------------------------------------------
\* What the fields of a process are.
LEMMA ProcFields ==
  ASSUME NEW x \in Proc
  PROVE  /\ x.pc \in {"start", "cas", "reread", "ready"} /\ x.gen \in Nat
         /\ x.secret \in Secrets /\ x.used \in SUBSET TicketIds
  BY Zenon DEF Proc

\* A process that starts over has neither a secret nor nonces.
LEMMA StartingProc ==
  ASSUME NEW g \in Nat
  PROVE  /\ Starting(g) \in Proc /\ Starting(g).pc = "start" /\ Starting(g).gen = g
  BY Zenon DEF Starting, Proc, Secrets

\* Adopting a secret makes a process ready and changes nothing else.
LEMMA Adopted ==
  ASSUME proc \in [Procs -> Proc], NEW p \in Procs, NEW s \in Secrets, Adopt(p, s)
  PROVE  /\ proc' \in [Procs -> Proc]
         /\ proc'[p].pc = "ready" /\ proc'[p].secret = s
         /\ proc'[p].gen = proc[p].gen /\ proc'[p].used = proc[p].used
         /\ \A q \in Procs \ {p} : proc'[q] = proc[q]
  <1> USE Zenon
  <1>1. PICK x : x = [proc[p] EXCEPT !.pc = "ready", !.secret = s]
    OBVIOUS
  <1>2. proc' = [proc EXCEPT ![p] = x]
    BY <1>1 DEF Adopt
  <1>3. proc[p] \in Proc
    OBVIOUS
  <1>4. x \in Proc /\ x.pc = "ready" /\ x.secret = s /\ x.gen = proc[p].gen /\ x.used = proc[p].used
    BY <1>1, <1>3 DEF Proc
  <1> QED
    BY <1>2, <1>4

\* ... and so for the other assignment to pc.
LEMMA Gone ==
  ASSUME proc \in [Procs -> Proc], NEW p \in Procs, NEW l \in {"cas", "reread"},
         proc' = [proc EXCEPT ![p].pc = l]
  PROVE  /\ proc' \in [Procs -> Proc]
         /\ proc'[p].pc = l
         /\ proc'[p].gen = proc[p].gen /\ proc'[p].used = proc[p].used
         /\ \A q \in Procs \ {p} : proc'[q] = proc[q]
  <1> USE Zenon
  <1>1. PICK x : x = [proc[p] EXCEPT !.pc = l]
    OBVIOUS
  <1>2. proc' = [proc EXCEPT ![p] = x]
    BY <1>1
  <1>3. proc[p] \in Proc
    OBVIOUS
  <1>4. x \in Proc /\ x.pc = l /\ x.gen = proc[p].gen /\ x.used = proc[p].used
    <2>1. l \in {"start", "cas", "reread", "ready"}
      OBVIOUS
    <2> QED  BY <1>1, <1>3, <2>1 DEF Proc
  <1> QED
    BY <1>2, <1>4

\* host_random gives a secret.
LEMMA RandomSecret ==
  ASSUME proc \in [Procs -> Proc], NEW p \in Procs
  PROVE  Random(p) \in Secrets /\ Random(p) # NoSecret
  <1>1. proc[p].gen \in Nat
    BY ProcFields, Zenon
  <1> QED
    BY <1>1, TicketsAssumption DEF Random, Secrets

\* The nonce set of a daemon takes no part in the secrets.
LEMMA NonceAdded ==
  ASSUME proc \in [Procs -> Proc], NEW p \in Procs, NEW t \in TicketIds,
         proc' = [proc EXCEPT ![p].used = @ \cup {t}]
  PROVE  /\ proc' \in [Procs -> Proc]
         /\ proc'[p].pc = proc[p].pc /\ proc'[p].secret = proc[p].secret
         /\ proc'[p].gen = proc[p].gen /\ proc'[p].used = proc[p].used \cup {t}
         /\ \A q \in Procs \ {p} : proc'[q] = proc[q]
  <1> USE Zenon
  <1>1. PICK x : x = [proc[p] EXCEPT !.used = proc[p].used \cup {t}]
    OBVIOUS
  <1>2. proc' = [proc EXCEPT ![p] = x]
    BY <1>1
  <1>3. proc[p] \in Proc /\ proc[p].used \cup {t} \in SUBSET TicketIds
    BY ProcFields
  <1>4. /\ x \in Proc /\ x.pc = proc[p].pc /\ x.secret = proc[p].secret /\ x.gen = proc[p].gen
        /\ x.used = proc[p].used \cup {t}
    BY <1>1, <1>3 DEF Proc
  <1>5. proc' \in [Procs -> Proc] /\ proc'[p] = x /\ \A q \in Procs \ {p} : proc'[q] = proc[q]
    BY <1>2, <1>4
  <1> QED
    BY <1>4, <1>5

\* A step of one process: the others keep the secret of the store, since it
\* is only written when there is none.
LEMMA OneProc ==
  ASSUME SecretInv, NEW p \in Procs, proc' \in [Procs -> Proc], UNCHANGED shared,
         \A q \in Procs \ {p} : proc'[q] = proc[q],
         gwSecret' \in Secrets, gwSecret' = gwSecret \/ gwSecret = NoSecret,
         proc'[p].pc \in {"cas", "reread"} => shared,
         proc'[p].pc = "ready" => IF shared THEN proc'[p].secret = gwSecret' /\ gwSecret' # NoSecret
                                  ELSE proc'[p].secret = <<p, proc'[p].gen>>
  PROVE  SecretInv'
  <1> USE Zenon
  <1>1. ASSUME NEW q \in Procs
        PROVE  /\ proc'[q].pc \in {"cas", "reread"} => shared
               /\ proc'[q].pc = "ready" => IF shared THEN proc'[q].secret = gwSecret' /\ gwSecret' # NoSecret
                                           ELSE proc'[q].secret = <<q, proc'[q].gen>>
    BY DEF SecretInv, Ready, Random
  <1> QED
    BY <1>1 DEF SecretInv, Ready, Random

\* Starting: what a process does until it has its secret.
Starts(p) == StartLocal(p) \/ SecretRead(p) \/ SecretCas(p) \/ StartFails(p)

\* A start: whoever reads a secret takes it, whoever finds none offers its
\* own by compare_and_swap, and the loser reads again.
LEMMA StartSteps ==
  ASSUME SecretInv, NEW p \in Procs, Starts(p)
  PROVE  /\ SecretInv' /\ UNCHANGED <<shared, ticket, nonce, now>>
         /\ ~Ready(p) /\ \A q \in Procs \ {p} : proc'[q] = proc[q]
         /\ \/ proc'[p].gen = proc[p].gen /\ proc'[p].used = proc[p].used
            \/ shared /\ proc'[p].gen > proc[p].gen
  <1> USE Zenon
  <1>0. proc \in [Procs -> Proc] /\ Random(p) \in Secrets /\ Random(p) # NoSecret /\ proc[p].gen \in Nat /\ gwSecret \in Secrets
    BY RandomSecret, ProcFields DEF SecretInv
  <1>1. CASE StartLocal(p)
    <2>1. Adopt(p, Random(p)) /\ ~shared /\ UNCHANGED <<shared, gwSecret, ticket, nonce, now>> /\ ~Ready(p)
      BY <1>1 DEF StartLocal, Ready
    <2>2. /\ proc' \in [Procs -> Proc] /\ proc'[p].pc = "ready" /\ proc'[p].secret = Random(p)
          /\ proc'[p].gen = proc[p].gen /\ proc'[p].used = proc[p].used
          /\ \A q \in Procs \ {p} : proc'[q] = proc[q]
      BY <1>0, <2>1, Adopted
    <2>3. SecretInv'
      BY <1>0, <2>1, <2>2, OneProc DEF Random
    <2> QED  BY <2>1, <2>2, <2>3
  <1>2. ASSUME NEW s \in Secrets, s # NoSecret, Adopt(p, s), shared, UNCHANGED shared, ~Ready(p), gwSecret' = s,
               gwSecret = s \/ gwSecret = NoSecret, UNCHANGED <<ticket, nonce, now>>
        PROVE  /\ SecretInv' /\ proc'[p].gen = proc[p].gen /\ proc'[p].used = proc[p].used
               /\ \A q \in Procs \ {p} : proc'[q] = proc[q]
    <2>2. /\ proc' \in [Procs -> Proc] /\ proc'[p].pc = "ready" /\ proc'[p].secret = s
          /\ proc'[p].gen = proc[p].gen /\ proc'[p].used = proc[p].used
          /\ \A q \in Procs \ {p} : proc'[q] = proc[q]
      BY <1>0, <1>2, Adopted
    <2>3. SecretInv'
      BY <1>2, <2>2, OneProc
    <2> QED  BY <2>2, <2>3
  <1>3. ASSUME NEW l \in {"cas", "reread"}, proc' = [proc EXCEPT ![p].pc = l], shared,
               UNCHANGED <<shared, gwSecret>>
        PROVE  /\ SecretInv' /\ proc'[p].gen = proc[p].gen /\ proc'[p].used = proc[p].used
               /\ \A q \in Procs \ {p} : proc'[q] = proc[q]
    <2>1. /\ proc' \in [Procs -> Proc] /\ proc'[p].pc = l
          /\ proc'[p].gen = proc[p].gen /\ proc'[p].used = proc[p].used
          /\ \A q \in Procs \ {p} : proc'[q] = proc[q]
      BY <1>0, <1>3, Gone
    <2>2. SecretInv'
      BY <1>0, <1>3, <2>1, OneProc
    <2> QED  BY <2>1, <2>2
  <1>4. CASE SecretRead(p)
    <2>1. shared /\ UNCHANGED <<shared, gwSecret, ticket, nonce, now>> /\ ~Ready(p)
      BY <1>4 DEF SecretRead, Ready
    <2>2. CASE gwSecret # NoSecret
      <3>1. Adopt(p, gwSecret)
        BY <1>4, <2>2 DEF SecretRead
      <3>2. gwSecret \in Secrets
        BY DEF SecretInv
      <3> QED  BY <1>2, <2>1, <2>2, <3>1, <3>2
    <2>3. CASE gwSecret = NoSecret
      <3>1. proc' = [proc EXCEPT ![p].pc = "cas"]
        BY <1>4, <2>3 DEF SecretRead
      <3> QED  BY <1>3, <2>1, <3>1
    <2> QED  BY <2>2, <2>3
  <1>5. CASE SecretCas(p)
    <2>1. shared /\ UNCHANGED <<shared, ticket, nonce, now>> /\ ~Ready(p)
      BY <1>5 DEF SecretCas, SecretInv, Ready
    <2>2. CASE gwSecret = NoSecret
      <3>1. Adopt(p, Random(p)) /\ gwSecret' = Random(p)
        BY <1>5, <2>2 DEF SecretCas
      <3> QED  BY <1>0, <1>2, <2>1, <2>2, <3>1
    <2>3. CASE gwSecret # NoSecret
      <3>1. proc' = [proc EXCEPT ![p].pc = "reread"] /\ UNCHANGED gwSecret
        BY <1>5, <2>3 DEF SecretCas
      <3> QED  BY <1>3, <2>1, <3>1
    <2> QED  BY <2>2, <2>3
  <1>6. CASE StartFails(p)
    <2>1. /\ shared /\ UNCHANGED <<shared, ticket, nonce, now>> /\ ~Ready(p)
          /\ gwSecret' \in Secrets /\ (gwSecret' = gwSecret \/ gwSecret = NoSecret)
          /\ proc' = [proc EXCEPT ![p] = Starting(proc[p].gen + 1)]
      BY <1>0, <1>6 DEF StartFails, Ready, SecretInv
    <2>2. Starting(proc[p].gen + 1) \in Proc /\ Starting(proc[p].gen + 1).pc = "start" /\ Starting(proc[p].gen + 1).gen = proc[p].gen + 1
      BY <1>0, StartingProc, SMT
    <2>3. /\ proc' \in [Procs -> Proc] /\ proc'[p].pc = "start" /\ proc'[p].gen = proc[p].gen + 1
          /\ \A q \in Procs \ {p} : proc'[q] = proc[q]
      BY <1>0, <2>1, <2>2
    <2>4. SecretInv'
      BY <2>1, <2>3, OneProc
    <2> QED  BY <1>0, <2>1, <2>3, <2>4, SMT
  <1> QED
    BY <1>1, <1>4, <1>5, <1>6 DEF Starts

-----------------------------------------------------------------------------
\* The steps that touch connections, slots and streams only.
Wiring ==
    \/ \E s \in AllSlots : SlotStep(s)
    \/ \E c \in Conns : Greet(c) \/ FinishStream(c) \/ Age(c) \/ SilentDrop(c)

\* The agents' threads and the gateway's listener touch neither tickets nor
\* requests.
LEMMA WiringFrame ==
  ASSUME Wiring
  PROVE  UNCHANGED <<tvars, req, ran, late>>
  <1> USE Zenon
  <1>1. ASSUME NEW s \in AllSlots, SlotStep(s) PROVE UNCHANGED <<tvars, req, ran, late>>
    BY <1>1 DEF SlotStep, Dial, SlotReads, SlotEof, SlotLoad, SlotAdd, SlotSpawn, FinishInPlace
  <1>2. ASSUME NEW c, Greet(c) \/ FinishStream(c) \/ Age(c) \/ SilentDrop(c)
        PROVE  UNCHANGED <<tvars, req, ran, late>>
    BY <1>2 DEF Greet, FinishStream, Age, SilentDrop
  <1> QED
    BY <1>1, <1>2 DEF Wiring

\* A step of a request with what it does to the rest.
Attempt(r) ==
    \/ \E t \in TicketIds, door \in Procs : Present(r, t, door)
    \/ NonceLocal(r) \/ NonceLease(r) \/ NonceCas(r)

Delivery(r) == ServeLocal(r) \/ Route(r) \/ Take(r) \/ TakeWait(r) \/ Write(r) \/ Relay(r)

\* The steps by what they touch.
LEMMA NextCases ==
  ASSUME [Next]_vars
  PROVE  \/ \E p \in Procs : Starts(p) /\ UNCHANGED dvars
         \/ \E p \in Procs, t \in TicketIds : Mint(p, t) /\ UNCHANGED dvars
         \/ \E t \in TicketIds : NonceExpires(t) /\ UNCHANGED dvars
         \/ Clock /\ UNCHANGED dvars
         \/ \E p \in Procs : Die(p)
         \/ Wiring
         \/ \E c \in Conns : Execute(c)
         \/ \E r \in Reqs : Attempt(r) \/ Delivery(r)
         \/ UNCHANGED vars
  BY Zenon DEF Next, ConnStep, ReqStep, Starts, Wiring, Attempt, Delivery

\* handle_client behind the nonce leaves the tickets and the agents alone.
LEMMA DeliveryFrame ==
  ASSUME NEW r \in Reqs, Delivery(r)
  PROVE  UNCHANGED <<tvars, late, slot, streams, inflight, drops>>
  BY Zenon DEF Delivery, ServeLocal, Route, Take, TakeWait, Write, Relay, Close, TakeFrom, wire

\* The secrets survive every step.
LEMMA SecretSteps ==
  ASSUME SecretInv, ReqInv, TicketInv, [Next]_vars
  PROVE  SecretInv'
  <1> USE Zenon
  <1>1. CASE UNCHANGED <<shared, gwSecret, proc>>
    BY <1>1 DEF SecretInv, Ready, Random
  <1>2. ASSUME NEW p \in Procs, Die(p) PROVE SecretInv'
    <2>1. /\ UNCHANGED <<shared, gwSecret>>
          /\ proc' = [proc EXCEPT ![p] = Starting(proc[p].gen + 1)]
      BY <1>2 DEF Die
    <2>2. proc \in [Procs -> Proc] /\ proc[p].gen \in Nat /\ gwSecret \in Secrets
      BY ProcFields DEF SecretInv
    <2>3. Starting(proc[p].gen + 1) \in Proc /\ Starting(proc[p].gen + 1).pc = "start"
      BY <2>2, StartingProc, SMT
    <2>4. proc' \in [Procs -> Proc] /\ proc'[p].pc = "start" /\ \A q \in Procs \ {p} : proc'[q] = proc[q]
      BY <2>1, <2>2, <2>3
    <2> QED  BY <2>1, <2>2, <2>4, OneProc
  <1>3. ASSUME NEW r \in Reqs, NonceLocal(r) PROVE SecretInv'
    <2>1. req[r].door \in Procs /\ req[r].t \in TicketIds
      BY <1>3 DEF NonceLocal, ReqInv, ReqOk, Request, TicketInv
    <2>2. UNCHANGED <<shared, gwSecret>> /\ ~shared
      BY <1>3 DEF NonceLocal
    <2>3. CASE proc' = [proc EXCEPT ![req[r].door].used = @ \cup {req[r].t}]
      <3>1. PICK p \in Procs, t \in TicketIds : p = req[r].door /\ t = req[r].t
        BY <2>1
      <3>2. /\ proc' \in [Procs -> Proc] /\ proc'[p].pc = proc[p].pc /\ proc'[p].secret = proc[p].secret
            /\ proc'[p].gen = proc[p].gen /\ \A q \in Procs \ {p} : proc'[q] = proc[q]
        <4>1. proc' = [proc EXCEPT ![p].used = @ \cup {t}] /\ proc \in [Procs -> Proc]
          BY <2>3, <3>1 DEF SecretInv
        <4> QED  BY <4>1, NonceAdded
      <3> QED  BY <2>2, <3>2 DEF SecretInv, Ready, Random
    <2> QED  BY <1>1, <1>3, <2>2, <2>3 DEF NonceLocal
  <1>4. ASSUME NEW r \in Reqs, Attempt(r) PROVE SecretInv'
    <2>1. CASE ~NonceLocal(r)
      <3>1. UNCHANGED <<shared, gwSecret, proc>>
        BY <1>4, <2>1 DEF Attempt, Present, NonceLease, NonceCas, tvars
      <3> QED  BY <1>1, <3>1
    <2> QED  BY <1>3, <2>1
  <1>5. ASSUME \/ Wiring \/ UNCHANGED vars \/ Clock
               \/ \E c \in Conns : Execute(c)
               \/ \E r \in Reqs : Delivery(r)
               \/ \E t \in TicketIds : NonceExpires(t)
               \/ \E p \in Procs, t \in TicketIds : Mint(p, t)
        PROVE  UNCHANGED <<shared, gwSecret, proc>>
    BY <1>5, WiringFrame, DeliveryFrame DEF Execute, vars, tvars, Clock, NonceExpires, Mint
  <1>6. ASSUME NEW p \in Procs, Starts(p) PROVE SecretInv'
    BY <1>6, StartSteps
  <1> QED
    BY <1>1, <1>2, <1>4, <1>5, <1>6, NextCases

-----------------------------------------------------------------------------
\* What the fields of a request are.
LEMMA ReqFields ==
  ASSUME NEW c, NEW q \in Request(c)
  PROVE  /\ q.pc \in ReqPcs /\ q.door \in Procs /\ q.t \in TicketIds \cup {NoTicket}
         /\ q.seen \in Nat /\ q.lease \in Nat /\ q.c = c
  BY Zenon DEF Request

Moves(r, x) == x \in Request(x.c) /\ req' = [req EXCEPT ![r] = x]

\* A request before its ticket is looked at, and one that is answered.
LEMMA IdleReq == Idle \in Request(Idle.c) /\ Idle.pc = "idle"
  BY DataplaneAssumption, Zenon DEF Idle, Request, ReqPcs

\* A request that is answered.
LEMMA DoneReq ==
  LET x == [Idle EXCEPT !.pc = "done"] IN x \in Request(x.c) /\ x.pc = "done"
  BY DataplaneAssumption, Zenon DEF Idle, Request, ReqPcs

\* Answering is a move to done.
LEMMA AnswerStep ==
  ASSUME NEW r \in Reqs, Answer(r)
  PROVE  \E x : Moves(r, x) /\ x.pc = "done"
  BY DoneReq, Zenon DEF Answer, Moves

\* What a thread that goes on to l keeps.
Goes(x, r, l) == x.pc = l /\ x.t = req[r].t /\ x.door = req[r].door

\* The thread goes on with the ticket and at the door it has.
LEMMA GoesOn ==
  ASSUME ReqInv, NEW r \in Reqs, NEW l \in ReqPcs, Step(r, l)
  PROVE  \E x : Moves(r, x) /\ Goes(x, r, l)
  <1> USE Zenon
  <1>1. PICK x : x = [req[r] EXCEPT !.pc = l, !.seen = 0, !.lease = 0]
    OBVIOUS
  <1>2. req[r] \in Request(req[r].c) /\ 0 \in Nat
    BY DEF ReqInv
  <1>3. x.c = req[r].c /\ x.pc = l /\ x.t = req[r].t /\ x.door = req[r].door /\ x \in Request(x.c)
    BY <1>1, <1>2 DEF Request
  <1>4. req' = [req EXCEPT ![r] = x]
    BY <1>1 DEF Step
  <1> QED
    BY <1>3, <1>4 DEF Moves, Goes

\* The lease is noted for the compare_and_swap.
LEMMA LeaseStep ==
  ASSUME ReqInv, NEW r \in Reqs, NEW n \in Nat,
         req' = [req EXCEPT ![r] = [@ EXCEPT !.pc = "cas", !.lease = n]]
  PROVE  \E x : Moves(r, x) /\ x.pc = "cas" /\ x.lease = n /\ x.t = req[r].t
  <1> USE Zenon
  <1>1. PICK x : x = [req[r] EXCEPT !.pc = "cas", !.lease = n]
    OBVIOUS
  <1>2. req[r] \in Request(req[r].c) /\ "cas" \in ReqPcs
    BY DEF ReqInv, ReqPcs
  <1>3. x.c = req[r].c /\ x.pc = "cas" /\ x.t = req[r].t /\ x.lease = n /\ x \in Request(x.c)
    BY <1>1, <1>2 DEF Request
  <1> QED
    BY <1>1, <1>3 DEF Moves

\* NodePool::take hands a connection to the thread.
LEMMA TakenStep ==
  ASSUME ReqInv, NEW r \in Reqs, NEW c,
         req' = [req EXCEPT ![r] = [@ EXCEPT !.pc = "write", !.c = c]]
  PROVE  \E x : Moves(r, x) /\ x.pc = "write" /\ x.t = req[r].t
  <1> USE Zenon
  <1>1. PICK x : x = [req[r] EXCEPT !.pc = "write", !.c = c]
    OBVIOUS
  <1>2. req[r] \in Request(req[r].c) /\ "write" \in ReqPcs
    BY DEF ReqInv, ReqPcs, Consumed
  <1>3. x.c = c /\ x.pc = "write" /\ x.t = req[r].t /\ x \in Request(x.c)
    BY <1>1, <1>2 DEF Request
  <1> QED
    BY <1>1, <1>3 DEF Moves

\* What verify makes of a request: it is answered, or it goes on with a
\* ticket that the door's secret signs.
Verified(x, t, door) ==
    \/ x.pc = "done"
    \/ /\ x.pc = "nonce" /\ x.t = t /\ x.door = door /\ x.seen = now
       /\ t \in DOMAIN ticket /\ Ready(door) /\ ticket[t].secret = proc[door].secret

\* verify lets a ticket through that the door's secret signs.
LEMMA PresentStep ==
  ASSUME TicketInv, NEW r \in Reqs, NEW t \in TicketIds, NEW door \in Procs, Present(r, t, door)
  PROVE  \E x : Moves(r, x) /\ Verified(x, t, door)
  <1> USE Zenon
  <1>1. CASE ~Signed(door, t)
    <2>1. Answer(r)
      BY <1>1 DEF Present, Answer
    <2> QED  BY <2>1, AnswerStep DEF Verified
  <1>2. CASE Signed(door, t)
    <2>1. PICK x : x = [Idle EXCEPT !.pc = "nonce", !.door = door, !.t = t, !.seen = now]
      OBVIOUS
    <2>2. req' = [req EXCEPT ![r] = x]
      BY <1>2, <2>1 DEF Present
    <2>3. "nonce" \in ReqPcs /\ now \in Nat /\ t \in TicketIds \cup {NoTicket}
      BY DEF ReqPcs, TicketInv
    <2>4. x \in Request(x.c) /\ x.pc = "nonce" /\ x.t = t /\ x.door = door /\ x.seen = now
      BY <2>1, <2>3, IdleReq DEF Request
    <2>5. t \in DOMAIN ticket /\ Ready(door) /\ ticket[t].secret = proc[door].secret
      BY <1>2 DEF Present, Signed, Verifies
    <2> QED  BY <2>2, <2>4, <2>5 DEF Moves, Verified
  <1> QED
    BY <1>1, <1>2

\* Time goes on and minted tickets stay as they are.
Persist ==
    /\ UNCHANGED shared /\ now' \in Nat /\ now' >= now
    /\ \A t \in DOMAIN ticket : t \in DOMAIN ticket' /\ ticket'[t] = ticket[t]

\* The start of the daemon that a request came to goes on.
DoorKept(q) ==
    ~shared /\ Ready(q.door) => proc'[q.door].pc = "ready" /\ proc'[q.door].gen = proc[q.door].gen

\* What a request knows stays true.
LEMMA ReqKept ==
  ASSUME TicketInv, Persist, NEW q, q \in Request(q.c), ReqOk(q), DoorKept(q)
  PROVE  ReqOk(q)'
  <1> USE Zenon
  <1>1. q.seen \in Nat /\ q.lease \in Nat /\ now \in Nat
    BY ReqFields DEF TicketInv
  <1>2. q.pc \in {"nonce", "cas"} \cup Consumed => q.t \in DOMAIN ticket'
    BY DEF ReqOk, Persist
  <1>3. q.pc = "nonce" => q.seen <= now'
    BY <1>1, SMT DEF ReqOk, Persist
  <1>4. q.pc = "cas" => shared' /\ q.lease >= ticket'[q.t].exp
    BY DEF ReqOk, Persist
  <1>5. q.pc = "nonce" /\ ~shared' => Ready(q.door)' /\ SignedBy(q.t, q.door, proc[q.door].gen)'
    BY DEF ReqOk, Persist, DoorKept, Ready, SignedBy
  <1> QED
    BY <1>2, <1>3, <1>4, <1>5 DEF ReqOk

\* One request moves: the others know what they knew.
LEMMA OneReq ==
  ASSUME TicketInv, ReqInv, Persist, NEW r \in Reqs, NEW x, Moves(r, x), ReqOk(x)',
         \A q \in Reqs \ {r} : DoorKept(req[q])
  PROVE  ReqInv'
  <1> USE Zenon
  <1>1. DOMAIN req' = Reqs /\ req'[r] = x /\ \A q \in Reqs \ {r} : req'[q] = req[q]
    BY DEF Moves, ReqInv
  <1>2. ASSUME NEW q \in Reqs, NEW y, y = req'[q] PROVE y \in Request(y.c) /\ ReqOk(y)'
    <2>1. CASE q = r
      BY <1>1, <1>2, <2>1 DEF Moves
    <2>2. CASE q # r
      <3>1. y = req[q]
        BY <1>1, <1>2, <2>2
      <3>2. y \in Request(y.c) /\ ReqOk(y) /\ DoorKept(y)
        BY <2>2, <3>1 DEF ReqInv
      <3> QED  BY <3>2, ReqKept
    <2> QED  BY <2>1, <2>2
  <1>3. ASSUME NEW q \in Reqs PROVE (req[q] \in Request(req[q].c) /\ ReqOk(req[q]))'
    <2>1. PICK y : y = req'[q]
      OBVIOUS
    <2>2. y \in Request(y.c) /\ ReqOk(y)'
      BY <1>2, <2>1
    <2> QED  BY <2>1, <2>2 DEF ReqOk
  <1> QED
    BY <1>1, <1>3 DEF ReqInv

\* No request moves.
LEMMA ReqsStay ==
  ASSUME TicketInv, ReqInv, Persist, UNCHANGED req, \A q \in Reqs : DoorKept(req[q])
  PROVE  ReqInv'
  <1> USE Zenon
  <1>1. ASSUME NEW q \in Reqs PROVE (req[q] \in Request(req[q].c) /\ ReqOk(req[q]))'
    <2>1. PICK y : y = req[q]
      OBVIOUS
    <2>2. y \in Request(y.c) /\ ReqOk(y) /\ DoorKept(y)
      BY <2>1 DEF ReqInv
    <2>3. ReqOk(y)'
      BY <2>2, ReqKept
    <2> QED  BY <2>1, <2>2, <2>3 DEF ReqOk
  <1> QED
    BY <1>1 DEF ReqInv

-----------------------------------------------------------------------------
\* handle_client and relay: a request passes its ticket on or gives it up.
LEMMA DeliveryStep ==
  ASSUME ReqInv, NEW r \in Reqs, Delivery(r)
  PROVE  \/ UNCHANGED req
         \/ \E x : /\ Moves(r, x) /\ req[r].pc \in Consumed \cup {"relay"}
                   /\ \/ x.pc \in {"done", "relay"}
                      \/ x.pc \in {"take", "write"} /\ x.t = req[r].t /\ req[r].pc \in Consumed
  <1> USE Zenon
  <1>0. {"take", "relay"} \subseteq ReqPcs
    BY DEF ReqPcs, Consumed
  <1>1. CASE ServeLocal(r) \/ (Route(r) /\ Answer(r)) \/ Relay(r)
    <2>1. Answer(r) /\ req[r].pc \in Consumed \cup {"relay"}
      BY <1>1 DEF ServeLocal, Route, Relay, Close, Consumed
    <2> QED  BY <2>1, AnswerStep
  <1>2. CASE Route(r) /\ Step(r, "take")
    <2>1. req[r].pc \in Consumed
      BY <1>2 DEF Route, Consumed
    <2>2. PICK x : Moves(r, x) /\ Goes(x, r, "take")
      <3>1. "take" \in ReqPcs
        BY <1>0
      <3> QED  BY <1>2, <3>1, GoesOn
    <2> QED  BY <2>1, <2>2 DEF Goes
  <1>3. CASE Take(r)
    <2>1. req[r].pc \in Consumed /\ Consumed \subseteq Consumed \cup {"relay"}
      BY <1>3 DEF Take, Consumed
    <2>2. CASE Answer(r)
      BY <2>1, <2>2, AnswerStep
    <2>3. CASE ~Answer(r)
      <3>1. PICK c : req' = [req EXCEPT ![r] = [@ EXCEPT !.pc = "write", !.c = c]]
        BY <1>3, <2>3 DEF Take
      <3>2. PICK x : Moves(r, x) /\ x.pc = "write" /\ x.t = req[r].t
        BY <3>1, TakenStep
      <3> QED  BY <2>1, <3>2
    <2> QED  BY <2>2, <2>3
  <1>4. CASE TakeWait(r)
    BY <1>4 DEF TakeWait
  <1>5. CASE Write(r)
    <2>1. req[r].pc \in Consumed \cup {"relay"}
      BY <1>5 DEF Write, Consumed
    <2>2. CASE Answer(r)
      BY <2>1, <2>2, AnswerStep
    <2>3. CASE Step(r, "relay")
      <3>1. "relay" \in ReqPcs
        BY <1>0
      <3>2. PICK x : Moves(r, x) /\ Goes(x, r, "relay")
        BY <2>3, <3>1, GoesOn
      <3> QED  BY <2>1, <3>2 DEF Goes
    <2> QED  BY <1>5, <2>2, <2>3 DEF Write, Close
  <1> QED
    BY <1>1, <1>2, <1>3, <1>4, <1>5 DEF Delivery, Route

\* A lease granted for the rest of a ticket's life outlives the ticket: the
\* clock was read before the grant.
LEMMA LeaseOutlives ==
  ASSUME TicketInv, NEW t \in DOMAIN ticket, NEW seen \in Nat, seen <= now
  PROVE  now + NonceTtl(t, seen) \in Nat /\ now + NonceTtl(t, seen) >= ticket[t].exp
  BY DEF TicketInv, NonceTtl, Larger

\* The daemon's own nonce set or the store's compare_and_swap decides.
LEMMA TicketSteps ==
  ASSUME TicketInv, ReqInv, SecretInv, [Next]_vars
  PROVE  TicketInv' /\ Persist
  <1> USE Zenon
  <1>0. now \in Nat
    BY DEF TicketInv
  <1>1. ASSUME UNCHANGED <<shared, ticket, nonce, now>> PROVE TicketInv' /\ Persist
    BY <1>0, <1>1, SMT DEF TicketInv, Persist
  <1>2. ASSUME NEW p \in Procs, NEW t \in TicketIds, Mint(p, t) PROVE TicketInv' /\ Persist
    <2>1. PICK ttl \in Ttls : ticket' = Bind(ticket, t, [secret |-> proc[p].secret, exp |-> now + ttl])
      BY <1>2 DEF Mint
    <2>2. t \notin DOMAIN ticket /\ UNCHANGED <<shared, nonce, now>> /\ now + ttl \in Nat
      BY <1>0, <1>2, TicketsAssumption, SMT DEF Mint
    <2>3. /\ DOMAIN ticket' = DOMAIN ticket \cup {t} /\ ticket'[t].exp = now + ttl
          /\ \A u \in DOMAIN ticket : ticket'[u] = ticket[u]
      BY <2>1, <2>2 DEF Bind
    <2>4. Persist
      BY <1>0, <2>2, <2>3, SMT DEF Persist
    <2>5. TicketInv'
      BY <1>0, <2>2, <2>3 DEF TicketInv
    <2> QED  BY <2>4, <2>5
  <1>3. ASSUME NEW t \in TicketIds, NonceExpires(t) PROVE TicketInv' /\ Persist
    <2>1. /\ UNCHANGED <<shared, ticket, now>> /\ DOMAIN nonce' \subseteq DOMAIN nonce
          /\ \A u \in DOMAIN nonce' : nonce'[u] = nonce[u]
      BY <1>3 DEF NonceExpires, Drop
    <2> QED  BY <1>0, <2>1, SMT DEF TicketInv, Persist
  <1>4. ASSUME Clock PROVE TicketInv' /\ Persist
    BY <1>0, <1>4, SMT DEF Clock, TicketInv, Persist
  <1>5. ASSUME NEW r \in Reqs, NonceCas(r) PROVE TicketInv' /\ Persist
    <2>1. UNCHANGED <<shared, ticket, now>> /\ req[r].pc = "cas"
      BY <1>5 DEF NonceCas
    <2>2. req[r].t \in DOMAIN ticket /\ req[r].lease \in Nat /\ req[r].lease >= ticket[req[r].t].exp
      BY <2>1, ReqFields DEF ReqInv, ReqOk
    <2>3. CASE nonce' = Bind(nonce, req[r].t, req[r].lease)
      <3>1. /\ DOMAIN nonce' = DOMAIN nonce \cup {req[r].t}
            /\ \A u \in DOMAIN nonce' : nonce'[u] = IF u = req[r].t THEN req[r].lease ELSE nonce[u]
        BY <2>3 DEF Bind
      <3> QED  BY <1>0, <2>1, <2>2, <3>1, SMT DEF TicketInv, Persist
    <2> QED  BY <1>1, <1>5, <2>1, <2>3 DEF NonceCas
  <1>6. ASSUME NEW r \in Reqs, Attempt(r), ~NonceCas(r) PROVE UNCHANGED <<shared, ticket, nonce, now>>
    BY <1>6 DEF Attempt, Present, NonceLease, NonceLocal, tvars
  <1>7. ASSUME \/ Wiring \/ UNCHANGED vars
               \/ \E p \in Procs : Starts(p) \/ Die(p)
               \/ \E c \in Conns : Execute(c)
               \/ \E r \in Reqs : Delivery(r)
        PROVE  UNCHANGED <<shared, ticket, nonce, now>>
    <2>1. ASSUME NEW p \in Procs, Starts(p) PROVE UNCHANGED <<shared, ticket, nonce, now>>
      BY <2>1, StartSteps
    <2> QED
      BY <1>7, <2>1, WiringFrame, DeliveryFrame DEF Execute, Die, vars, tvars
  <1>8. ASSUME NEW r \in Reqs, Attempt(r) PROVE TicketInv' /\ Persist
    BY <1>1, <1>5, <1>6, <1>8
  <1> QED
    BY <1>1, <1>2, <1>3, <1>4, <1>7, <1>8, NextCases

\* The attempts to consume a ticket, by what becomes of the request.
LEMMA AttemptStep ==
  ASSUME TicketInv, ReqInv, SecretInv, NEW r \in Reqs, Attempt(r)
  PROVE  \E x : /\ Moves(r, x)
                /\ \/ x.pc = "done"
                   \/ /\ x.pc = "nonce" /\ x.t \in DOMAIN ticket /\ x.seen = now
                      /\ Ready(x.door) /\ ticket[x.t].secret = proc[x.door].secret
                   \/ x.pc = "cas" /\ shared /\ x.t \in DOMAIN ticket /\ x.lease >= ticket[x.t].exp
                   \/ /\ x.pc \in {"serve", "route"} /\ x.t = req[r].t /\ (NonceLocal(r) \/ NonceCas(r))
                      /\ req[r].pc \in {"nonce", "cas"}
  <1> USE Zenon
  <1>0. {"serve", "route"} \subseteq ReqPcs
    BY DEF ReqPcs, Consumed
  <1>1. CASE Answer(r)
    BY <1>1, AnswerStep
  <1>2. ASSUME NEW t \in TicketIds, NEW door \in Procs, Present(r, t, door)
        PROVE  \E x : /\ Moves(r, x)
                      /\ \/ x.pc = "done"
                         \/ /\ x.pc = "nonce" /\ x.t \in DOMAIN ticket /\ x.seen = now
                            /\ Ready(x.door) /\ ticket[x.t].secret = proc[x.door].secret
    <2>1. PICK x : Moves(r, x) /\ Verified(x, t, door)
      BY <1>2, PresentStep
    <2> QED  BY <2>1 DEF Verified
  <1>3. CASE NonceLease(r) /\ ~Answer(r)
    <2>1. /\ req[r].pc = "nonce" /\ shared
          /\ req' = [req EXCEPT ![r] = [@ EXCEPT !.pc = "cas", !.lease = now + NonceTtl(req[r].t, req[r].seen)]]
      BY <1>3 DEF NonceLease
    <2>2. req[r].t \in DOMAIN ticket /\ req[r].seen \in Nat /\ req[r].seen <= now
      BY <2>1, ReqFields DEF ReqInv, ReqOk
    <2>3. PICK n \in Nat : n = now + NonceTtl(req[r].t, req[r].seen) /\ n >= ticket[req[r].t].exp
      BY <2>2, LeaseOutlives
    <2>4. PICK x : Moves(r, x) /\ x.pc = "cas" /\ x.lease = n /\ x.t = req[r].t
      BY <2>1, <2>3, LeaseStep
    <2> QED  BY <2>1, <2>2, <2>3, <2>4
  <1>4. CASE (NonceLocal(r) \/ NonceCas(r)) /\ ~Answer(r)
    <2>1. req[r].pc \in {"nonce", "cas"}
      BY <1>4 DEF NonceLocal, NonceCas
    <2>2. PICK l \in {"serve", "route"} : Step(r, l)
      BY <1>4 DEF NonceLocal, NonceCas
    <2>3. PICK x : Moves(r, x) /\ Goes(x, r, l)
      BY <1>0, <2>2, GoesOn
    <2> QED  BY <1>4, <2>1, <2>3 DEF Goes
  <1> QED
    BY <1>1, <1>2, <1>3, <1>4 DEF Attempt

\* An attempt leaves the processes as they are, up to the nonce it notes.
LEMMA AttemptProcs ==
  ASSUME TicketInv, ReqInv, SecretInv, NEW r \in Reqs, Attempt(r)
  PROVE  \A p \in Procs : /\ proc'[p].pc = proc[p].pc /\ proc'[p].gen = proc[p].gen
                          /\ proc[p].used \subseteq proc'[p].used
  <1> USE Zenon
  <1>1. CASE UNCHANGED proc
    BY <1>1
  <1>2. CASE NonceLocal(r) /\ ~UNCHANGED proc
    <2>1. /\ req[r].pc = "nonce"
          /\ proc' = [proc EXCEPT ![req[r].door].used = @ \cup {req[r].t}]
      BY <1>2 DEF NonceLocal
    <2>2. req[r].door \in Procs /\ req[r].t \in TicketIds
      BY <2>1, ReqFields DEF ReqInv, ReqOk, TicketInv
    <2>3. PICK p \in Procs, t \in TicketIds : p = req[r].door /\ t = req[r].t
      BY <2>2
    <2>4. proc' = [proc EXCEPT ![p].used = @ \cup {t}] /\ proc \in [Procs -> Proc]
      BY <2>1, <2>3 DEF SecretInv
    <2>5. /\ proc'[p].pc = proc[p].pc /\ proc'[p].gen = proc[p].gen /\ proc'[p].used = proc[p].used \cup {t}
          /\ \A q \in Procs \ {p} : proc'[q] = proc[q]
      BY <2>4, NonceAdded
    <2> QED  BY <2>5
  <1> QED
    BY <1>1, <1>2 DEF Attempt, Present, NonceLease, NonceCas, tvars

\* What a request knows stays true in every step.
LEMMA ReqSteps ==
  ASSUME TicketInv, ReqInv, SecretInv, [Next]_vars
  PROVE  ReqInv'
  <1> USE Zenon
  <1>0. Persist
    BY TicketSteps
  <1>1. ASSUME NEW p \in Procs, Starts(p), UNCHANGED dvars PROVE ReqInv'
    <2>1. ~Ready(p) /\ \A q \in Procs \ {p} : proc'[q] = proc[q]
      BY <1>1, StartSteps
    <2>2. \A q \in Reqs : DoorKept(req[q])
      BY <2>1, ReqFields DEF ReqInv, DoorKept, Ready
    <2> QED  BY <1>0, <1>1, <2>2, ReqsStay DEF dvars
  <1>2. CASE UNCHANGED <<proc, req>>
    <2>1. \A q \in Reqs : DoorKept(req[q])
      BY <1>2 DEF DoorKept, Ready
    <2> QED  BY <1>0, <1>2, <2>1, ReqsStay
  <1>3. ASSUME NEW p \in Procs, Die(p) PROVE ReqInv'
    <2>1. PICK d : d \in Request(d.c) /\ d.pc = "done" /\ d = [Idle EXCEPT !.pc = "done"]
      BY DoneReq
    <2>2. ReqOk(d)'
      BY <2>1 DEF ReqOk, Consumed
    <2>3. /\ DOMAIN req' = Reqs
          /\ \A q \in Reqs : req'[q] = IF req[q].door = p /\ req[q].pc # "idle" THEN d ELSE req[q]
      BY <1>3, <2>1 DEF Die
    <2>4. proc' = [proc EXCEPT ![p] = Starting(proc[p].gen + 1)]
      BY <1>3 DEF Die
    <2>5. \A o \in Procs \ {p} : proc'[o] = proc[o]
      BY <2>4 DEF SecretInv
    <2>6. ASSUME NEW q \in Reqs PROVE (req[q] \in Request(req[q].c) /\ ReqOk(req[q]))'
      <3>1. PICK y : y = req[q]
        OBVIOUS
      <3>2. y \in Request(y.c) /\ ReqOk(y) /\ y.door \in Procs
        BY <3>1, ReqFields DEF ReqInv
      <3>3. CASE y.door = p /\ y.pc # "idle"
        <4>1. req'[q] = d
          BY <2>3, <3>1, <3>3
        <4> QED  BY <2>1, <2>2, <4>1 DEF ReqOk
      <3>4. CASE y.door # p
        <4>1. DoorKept(y)
          BY <2>5, <3>2, <3>4 DEF DoorKept, Ready
        <4>2. ReqOk(y)' /\ req'[q] = y
          BY <1>0, <2>3, <3>1, <3>2, <3>4, <4>1, ReqKept
        <4> QED  BY <3>2, <4>2 DEF ReqOk
      <3>5. CASE y.pc = "idle"
        <4>1. ReqOk(y)' /\ req'[q] = y
          BY <2>3, <3>1, <3>5 DEF ReqOk, Consumed
        <4> QED  BY <3>2, <4>1 DEF ReqOk
      <3> QED  BY <3>3, <3>4, <3>5
    <2> QED  BY <2>3, <2>6 DEF ReqInv
  <1>4. ASSUME NEW r \in Reqs, Attempt(r) PROVE ReqInv'
    <2>1. PICK x : /\ Moves(r, x)
                   /\ \/ x.pc = "done"
                      \/ /\ x.pc = "nonce" /\ x.t \in DOMAIN ticket /\ x.seen = now
                         /\ Ready(x.door) /\ ticket[x.t].secret = proc[x.door].secret
                      \/ x.pc = "cas" /\ shared /\ x.t \in DOMAIN ticket /\ x.lease >= ticket[x.t].exp
                      \/ /\ x.pc \in {"serve", "route"} /\ x.t = req[r].t /\ (NonceLocal(r) \/ NonceCas(r))
                         /\ req[r].pc \in {"nonce", "cas"}
      BY <1>4, AttemptStep
    <2>2. \A p \in Procs : proc'[p].pc = proc[p].pc /\ proc'[p].gen = proc[p].gen
      BY <1>4, AttemptProcs
    <2>3. \A q \in Reqs : DoorKept(req[q])
      BY <2>2, ReqFields DEF ReqInv, DoorKept, Ready
    <2>4. now \in Nat /\ now' \in Nat /\ now <= now'
      BY <1>0 DEF TicketInv, Persist
    <2>5. ReqOk(x)'
      <3>1. CASE x.pc = "done"
        BY <3>1 DEF ReqOk, Consumed
      <3>2. CASE /\ x.pc = "nonce" /\ x.t \in DOMAIN ticket /\ x.seen = now
                 /\ Ready(x.door) /\ ticket[x.t].secret = proc[x.door].secret
        <4>1. x.t \in DOMAIN ticket' /\ ticket'[x.t] = ticket[x.t] /\ x.door \in Procs
          BY <1>0, <2>1, <3>2, ReqFields DEF Persist, Moves
        <4>2. ~shared => Ready(x.door)' /\ SignedBy(x.t, x.door, proc[x.door].gen)'
          BY <2>2, <3>2, <4>1 DEF SecretInv, Ready, Random, SignedBy
        <4> QED  BY <1>0, <2>4, <3>2, <4>1, <4>2 DEF ReqOk, Persist
      <3>3. CASE x.pc = "cas" /\ shared /\ x.t \in DOMAIN ticket /\ x.lease >= ticket[x.t].exp
        BY <1>0, <3>3 DEF ReqOk, Persist
      <3>4. CASE x.pc \in {"serve", "route"} /\ x.t = req[r].t /\ req[r].pc \in {"nonce", "cas"}
        <4>1. req[r].t \in DOMAIN ticket'
          BY <1>0, <3>4 DEF ReqInv, ReqOk, Persist
        <4> QED  BY <3>4, <4>1 DEF ReqOk
      <3> QED  BY <2>1, <3>1, <3>2, <3>3, <3>4
    <2> QED  BY <1>0, <2>1, <2>3, <2>5, OneReq
  <1>5. ASSUME NEW r \in Reqs, Delivery(r) PROVE ReqInv'
    <2>1. UNCHANGED proc
      BY <1>5, DeliveryFrame DEF tvars
    <2>2. CASE UNCHANGED req
      BY <1>2, <2>1, <2>2
    <2>3. ASSUME NEW x, Moves(r, x), req[r].pc \in Consumed \cup {"relay"},
                 \/ x.pc \in {"done", "relay"}
                 \/ x.pc \in {"take", "write"} /\ x.t = req[r].t /\ req[r].pc \in Consumed
          PROVE  ReqInv'
      <3>1. req[r].pc \in Consumed => req[r].t \in DOMAIN ticket'
        BY <1>0 DEF ReqInv, ReqOk, Persist
      <3>2. ReqOk(x)'
        BY <2>3, <3>1 DEF ReqOk, Consumed
      <3>3. \A q \in Reqs : DoorKept(req[q])
        BY <2>1 DEF DoorKept, Ready
      <3> QED  BY <1>0, <2>3, <3>2, <3>3, OneReq
    <2> QED  BY <1>5, <2>2, <2>3, DeliveryStep
  <1>6. ASSUME \/ Wiring \/ UNCHANGED vars
               \/ \E p \in Procs, t \in TicketIds : Mint(p, t) /\ UNCHANGED dvars
               \/ \E t \in TicketIds : NonceExpires(t) /\ UNCHANGED dvars
               \/ Clock /\ UNCHANGED dvars
               \/ \E c \in Conns : Execute(c)
        PROVE  UNCHANGED <<proc, req>>
    BY <1>6, WiringFrame DEF Execute, vars, tvars, dvars, Mint, NonceExpires, Clock
  <1> QED
    BY <1>1, <1>2, <1>3, <1>4, <1>5, <1>6, NextCases

-----------------------------------------------------------------------------
\* Connections of f after steps that open none.
Later(f, g) ==
    \A c \in DOMAIN g : c \in DOMAIN f /\ g[c] \in Conn /\ g[c].n = f[c].n

\* ... and neither send nor execute anything.
Silent(f, g) == \A c \in DOMAIN g : g[c].msg = f[c].msg /\ g[c].ran = f[c].ran

\* ... and close the nodes' end of those in C at most.
KeepsOpen(f, g, C) == \A c \in DOMAIN f \ C : f[c].nd = "open" => c \in DOMAIN g /\ g[c].nd = "open"

ConnType(f) == \A c \in DOMAIN f : f[c] \in Conn

GwClosed(x) == [x EXCEPT !.g = "closed", !.old = FALSE]

\* The gateway's end is closed: the node's stays as it is.
LEMMA CloseGwStep ==
  ASSUME NEW f, ConnType(f), NEW C
  PROVE  Later(f, CloseGw(f, C)) /\ Silent(f, CloseGw(f, C)) /\ KeepsOpen(f, CloseGw(f, C), {})
  <1> USE Zenon
  <1>1. PICK g : g = CloseGw(f, C)
    OBVIOUS
  <1>2. /\ DOMAIN g = {x \in DOMAIN f : ~(x \in C /\ f[x].nd = "closed")}
        /\ \A c \in DOMAIN g : g[c] = IF c \in C THEN GwClosed(f[c]) ELSE f[c]
    BY <1>1 DEF CloseGw, GwClosed
  <1>3. ASSUME NEW c \in DOMAIN g
        PROVE  /\ c \in DOMAIN f /\ g[c] \in Conn /\ g[c].n = f[c].n /\ g[c].msg = f[c].msg
               /\ g[c].ran = f[c].ran /\ g[c].nd = f[c].nd
    <2>1. c \in DOMAIN f /\ f[c] \in Conn
      BY <1>2 DEF ConnType
    <2>2. CASE c \in C
      <3>1. g[c] = GwClosed(f[c])
        BY <1>2, <2>2
      <3>2. "closed" \in {"greet", "parked", "held", "closed"} /\ FALSE \in BOOLEAN
        OBVIOUS
      <3> QED  BY <2>1, <3>1, <3>2 DEF Conn, GwClosed
    <2>3. CASE c \notin C
      BY <1>2, <2>1, <2>3
    <2> QED  BY <2>2, <2>3
  <1>4. \A c \in DOMAIN f : f[c].nd = "open" => c \in DOMAIN g
    BY <1>2
  <1> QED
    BY <1>1, <1>3, <1>4 DEF Later, Silent, KeepsOpen

\* The node's end is closed.
LEMMA CloseNodeStep ==
  ASSUME NEW f, ConnType(f), NEW C
  PROVE  Later(f, CloseNode(f, C)) /\ Silent(f, CloseNode(f, C)) /\ KeepsOpen(f, CloseNode(f, C), C)
  <1> USE Zenon
  <1>1. PICK g : g = CloseNode(f, C)
    OBVIOUS
  <1>2. /\ DOMAIN g = {x \in DOMAIN f : ~(x \in C /\ f[x].g = "closed")}
        /\ \A c \in DOMAIN g : g[c] = IF c \in C THEN [f[c] EXCEPT !.nd = "closed"] ELSE f[c]
    BY <1>1 DEF CloseNode
  <1>3. ASSUME NEW c \in DOMAIN g
        PROVE  /\ c \in DOMAIN f /\ g[c] \in Conn /\ g[c].n = f[c].n /\ g[c].msg = f[c].msg
               /\ g[c].ran = f[c].ran
    <2>1. c \in DOMAIN f /\ f[c] \in Conn
      BY <1>2 DEF ConnType
    <2>2. CASE c \in C
      <3>1. g[c] = [f[c] EXCEPT !.nd = "closed"]
        BY <1>2, <2>2
      <3>2. "closed" \in {"open", "closed"}
        OBVIOUS
      <3> QED  BY <2>1, <3>1, <3>2 DEF Conn
    <2>3. CASE c \notin C
      BY <1>2, <2>1, <2>3
    <2> QED  BY <2>2, <2>3
  <1>4. \A c \in DOMAIN f \ C : c \in DOMAIN g /\ g[c] = f[c]
    BY <1>2
  <1> QED
    BY <1>1, <1>3, <1>4 DEF Later, Silent, KeepsOpen

\* One connection is marked.
LEMMA OneConn ==
  ASSUME NEW f, ConnType(f), NEW c, NEW x, c \in DOMAIN f => x \in Conn /\ x.n = f[c].n /\ x.nd = f[c].nd,
         NEW g, g = [f EXCEPT ![c] = x]
  PROVE  /\ Later(f, g) /\ KeepsOpen(f, g, {})
         /\ (c \in DOMAIN f => x.msg = f[c].msg /\ x.ran = f[c].ran) => Silent(f, g)
  <1> USE Zenon
  <1>1. DOMAIN g = DOMAIN f /\ (c \in DOMAIN f => g[c] = x) /\ \A d \in DOMAIN f \ {c} : g[d] = f[d]
    OBVIOUS
  <1> QED
    BY <1>1 DEF Later, Silent, KeepsOpen, ConnType

\* Connections that stay as they are.
LEMMA SameConns ==
  ASSUME ConnType(conn), UNCHANGED conn
  PROVE  Later(conn, conn') /\ Silent(conn, conn') /\ KeepsOpen(conn, conn', {})
  BY Zenon DEF Later, Silent, KeepsOpen, ConnType

\* accept_node and the idle time of a parked connection.
LEMMA MarkStep ==
  ASSUME WireInv, NEW c, Greet(c) \/ Age(c) \/ SilentDrop(c)
  PROVE  /\ Later(conn, conn') /\ Silent(conn, conn') /\ KeepsOpen(conn, conn', {})
         /\ UNCHANGED <<slot, streams, inflight>>
  <1> USE Zenon
  <1>0. ConnType(conn)
    BY DEF WireInv, ConnType
  <1>1. UNCHANGED <<slot, streams, inflight>>
    BY DEF Greet, Age, SilentDrop
  <1>2. CASE conn' = CloseGw(conn, {c})
    BY <1>0, <1>1, <1>2, CloseGwStep
  <1>3. ASSUME NEW x, conn' = [conn EXCEPT ![c] = x],
               c \in DOMAIN conn => x \in Conn /\ x.n = conn[c].n /\ x.nd = conn[c].nd /\ x.msg = conn[c].msg /\ x.ran = conn[c].ran
        PROVE  Later(conn, conn') /\ Silent(conn, conn') /\ KeepsOpen(conn, conn', {})
    BY <1>0, <1>3, OneConn
  <1>4. CASE conn' = [conn EXCEPT ![c].g = "parked"]
    <2>1. PICK x : x = [conn[c] EXCEPT !.g = "parked"]
      OBVIOUS
    <2>2. "parked" \in {"greet", "parked", "held", "closed"}
      OBVIOUS
    <2>3. c \in DOMAIN conn => x \in Conn /\ x.n = conn[c].n /\ x.nd = conn[c].nd /\ x.msg = conn[c].msg /\ x.ran = conn[c].ran
      BY <1>0, <2>1, <2>2 DEF Conn, ConnType
    <2> QED  BY <1>1, <1>3, <1>4, <2>1, <2>3
  <1>5. CASE conn' = [conn EXCEPT ![c].old = TRUE]
    <2>1. PICK x : x = [conn[c] EXCEPT !.old = TRUE]
      OBVIOUS
    <2>3. c \in DOMAIN conn => x \in Conn /\ x.n = conn[c].n /\ x.nd = conn[c].nd /\ x.msg = conn[c].msg /\ x.ran = conn[c].ran
      BY <1>0, <2>1 DEF Conn, ConnType
    <2> QED  BY <1>1, <1>3, <1>5, <2>1, <2>3
  <1>6. CASE conn' = [conn EXCEPT ![c].dead = TRUE]
    <2>1. PICK x : x = [conn[c] EXCEPT !.dead = TRUE]
      OBVIOUS
    <2>3. c \in DOMAIN conn => x \in Conn /\ x.n = conn[c].n /\ x.nd = conn[c].nd /\ x.msg = conn[c].msg /\ x.ran = conn[c].ran
      BY <1>0, <2>1 DEF Conn, ConnType
    <2> QED  BY <1>1, <1>3, <1>6, <2>1, <2>3
  <1> QED
    BY <1>2, <1>4, <1>5, <1>6 DEF Greet, Age, SilentDrop

\* NodePool::take holds one connection and closes the old ones.
LEMMA TakeFromStep ==
  ASSUME WireInv, NEW r, NEW got, TakeFrom(r, got)
  PROVE  /\ Later(conn, conn') /\ Silent(conn, conn') /\ KeepsOpen(conn, conn', {})
         /\ UNCHANGED <<slot, streams, inflight>>
  <1> USE Zenon
  <1>0. ConnType(conn)
    BY DEF WireInv, ConnType
  <1>1. PICK h : h = [c \in DOMAIN conn |-> IF c \in got THEN [conn[c] EXCEPT !.g = "held"] ELSE conn[c]]
    OBVIOUS
  <1>2. conn' = CloseGw(h, Old(r)) /\ UNCHANGED <<slot, streams, inflight>>
    BY <1>1 DEF TakeFrom
  <1>3. DOMAIN h = DOMAIN conn
    BY <1>1
  <1>4. ASSUME NEW c \in DOMAIN conn
        PROVE  /\ h[c] \in Conn /\ h[c].n = conn[c].n /\ h[c].nd = conn[c].nd
               /\ h[c].msg = conn[c].msg /\ h[c].ran = conn[c].ran
    <2>1. h[c] = IF c \in got THEN [conn[c] EXCEPT !.g = "held"] ELSE conn[c]
      BY <1>1
    <2>2. CASE c \in got
      <3>1. h[c] = [conn[c] EXCEPT !.g = "held"]
        BY <2>1, <2>2
      <3>2. "held" \in {"greet", "parked", "held", "closed"} /\ conn[c] \in Conn
        BY <1>0 DEF ConnType
      <3> QED  BY <3>1, <3>2 DEF Conn
    <2>3. CASE c \notin got
      BY <1>0, <2>1, <2>3 DEF ConnType
    <2> QED  BY <2>2, <2>3
  <1>5. ConnType(h)
    BY <1>3, <1>4 DEF ConnType
  <1>6. Later(h, conn') /\ Silent(h, conn') /\ KeepsOpen(h, conn', {})
    BY <1>2, <1>5, CloseGwStep
  <1>7. Later(conn, conn')
    BY <1>3, <1>4, <1>6 DEF Later
  <1>8. Silent(conn, conn')
    BY <1>3, <1>4, <1>6 DEF Later, Silent
  <1>9. KeepsOpen(conn, conn', {})
    BY <1>3, <1>4, <1>6 DEF KeepsOpen
  <1> QED
    BY <1>2, <1>7, <1>8, <1>9

-----------------------------------------------------------------------------
\* A dialling thread goes to its next statement, ...
LEMMA SlotMoved ==
  ASSUME WireInv, NEW s \in AllSlots, NEW l \in SlotPcs, slot' = [slot EXCEPT ![s].pc = l]
  PROVE  /\ slot' \in [AllSlots -> Slot] /\ slot'[s].pc = l /\ slot'[s].c = slot[s].c
         /\ \A u \in AllSlots \ {s} : slot'[u] = slot[u]
  <1> USE Zenon
  <1>1. PICK x : x = [slot[s] EXCEPT !.pc = l]
    OBVIOUS
  <1>2. slot[s] \in Slot /\ slot \in [AllSlots -> Slot]
    BY DEF WireInv
  <1>3. x \in Slot /\ x.pc = l /\ x.c = slot[s].c
    BY <1>1, <1>2 DEF Slot
  <1>4. slot' = [slot EXCEPT ![s] = x]
    BY <1>1
  <1>5. slot' \in [AllSlots -> Slot] /\ slot'[s] = x /\ \A u \in AllSlots \ {s} : slot'[u] = slot[u]
    BY <1>2, <1>3, <1>4
  <1> QED
    BY <1>3, <1>5

\* ... or dials again.
LEMMA SlotFreed ==
  ASSUME WireInv, NEW s \in AllSlots, slot' = [slot EXCEPT ![s] = Dialling]
  PROVE  /\ slot' \in [AllSlots -> Slot] /\ slot'[s].pc = "dial"
         /\ \A u \in AllSlots \ {s} : slot'[u] = slot[u]
  <1> USE Zenon
  <1>1. Dialling \in Slot /\ Dialling.pc = "dial"
    BY DEF Dialling, Slot, SlotPcs
  <1>2. slot \in [AllSlots -> Slot]
    BY DEF WireInv
  <1> QED
    BY <1>1, <1>2

\* What the threads serve stays theirs when the connections that a step
\* closes at the node are no longer served after it.
LEMMA WireKept ==
  ASSUME WireInv, NEW C, Later(conn, conn'), KeepsOpen(conn, conn', C), slot' \in [AllSlots -> Slot],
         \A s \in AllSlots : slot'[s].pc # "dial" =>
            slot[s].pc # "dial" /\ slot'[s].c = slot[s].c /\ slot[s].c \notin C /\ slot[s].c \notin streams',
         \A c \in streams' : c \notin C /\ \E n \in Nodes : Open(conn, c, n)
  PROVE  WireInv'
  <1> USE Zenon
  <1>1. \A c, n : Open(conn, c, n) /\ c \notin C => Open(conn', c, n)
    BY DEF Open, Later, KeepsOpen
  <1>2. DOMAIN conn' \subseteq Conns /\ \A c \in DOMAIN conn' : conn'[c] \in Conn
    BY DEF WireInv, Later
  <1>3. \A s \in AllSlots : slot'[s].pc # "dial" => Open(conn', slot'[s].c, s[1]) /\ slot'[s].c \notin streams'
    BY <1>1 DEF WireInv
  <1>4. \A s, u \in AllSlots : slot'[s].pc # "dial" /\ slot'[u].pc # "dial" /\ slot'[s].c = slot'[u].c => s = u
    BY DEF WireInv
  <1>5. \A c \in streams' : \E n \in Nodes : Open(conn', c, n)
    BY <1>1
  <1> QED
    BY <1>2, <1>3, <1>4, <1>5 DEF WireInv, Open

\* A thread of the agent answers or gives up, and dials again.
LEMMA SlotEnds ==
  ASSUME WireInv, NEW s \in AllSlots, slot[s].pc # "dial", conn' = CloseNode(conn, {slot[s].c}),
         slot' = [slot EXCEPT ![s] = Dialling], UNCHANGED streams
  PROVE  WireInv' /\ Later(conn, conn') /\ Silent(conn, conn')
  <1> USE Zenon
  <1>1. Later(conn, conn') /\ Silent(conn, conn') /\ KeepsOpen(conn, conn', {slot[s].c})
    <2>1. ConnType(conn)
      BY DEF WireInv, ConnType
    <2> QED  BY <2>1, CloseNodeStep
  <1>2. /\ slot' \in [AllSlots -> Slot] /\ slot'[s].pc = "dial"
        /\ \A u \in AllSlots \ {s} : slot'[u] = slot[u]
    BY SlotFreed
  <1>3. slot[s].c \notin streams /\ \A u \in AllSlots \ {s} : slot[u].pc # "dial" => slot[u].c # slot[s].c /\ slot[u].c \notin streams
    BY DEF WireInv
  <1>4. \A c \in streams : \E n \in Nodes : Open(conn, c, n)
    BY DEF WireInv
  <1> QED
    BY <1>1, <1>2, <1>3, <1>4, WireKept, SMT

\* Nothing is sent.
LEMMA NothingSent ==
  ASSUME Later(conn, conn'), Silent(conn, conn')
  PROVE  \A t : Sent(conn', t) \subseteq Sent(conn, t)
  BY Zenon DEF Later, Silent, Sent

\* dial_once opens a connection nobody serves yet.
LEMMA DialStep ==
  ASSUME WireInv, NEW s \in AllSlots, Dial(s)
  PROVE  WireInv' /\ \A t \in TicketIds : Sent(conn', t) \subseteq Sent(conn, t)
  <1> USE Zenon
  <1>1. PICK c \in Conns \ DOMAIN conn :
          /\ conn' = Bind(conn, c, [n |-> s[1], g |-> "greet", nd |-> "open", msg |-> NoTicket,
                                    ran |-> FALSE, old |-> FALSE, dead |-> FALSE])
          /\ slot' = [slot EXCEPT ![s] = [pc |-> "wait", c |-> c]]
    BY DEF Dial
  <1>2. PICK x : x = [n |-> s[1], g |-> "greet", nd |-> "open", msg |-> NoTicket,
                      ran |-> FALSE, old |-> FALSE, dead |-> FALSE]
    OBVIOUS
  <1>3. s[1] \in Nodes
    BY DEF AllSlots
  <1>4. x \in Conn /\ x.n = s[1] /\ x.nd = "open" /\ x.msg = NoTicket
    BY <1>2, <1>3 DEF Conn
  <1>5. /\ DOMAIN conn' = DOMAIN conn \cup {c} /\ conn'[c] = x
        /\ \A d \in DOMAIN conn : conn'[d] = conn[d]
    <2>1. conn' = Bind(conn, c, x)
      BY <1>1, <1>2
    <2> QED  BY <1>1, <2>1 DEF Bind
  <1>6. [pc |-> "wait", c |-> c] \in Slot
    BY DEF Slot, SlotPcs
  <1>7. /\ slot' \in [AllSlots -> Slot] /\ slot'[s].pc = "wait" /\ slot'[s].c = c
        /\ \A u \in AllSlots \ {s} : slot'[u] = slot[u]
    BY <1>1, <1>6 DEF WireInv
  <1>8. UNCHANGED streams /\ slot[s].pc = "dial"
    BY DEF Dial
  <1>9. \A d, n : Open(conn, d, n) => Open(conn', d, n) /\ d # c
    BY <1>5 DEF Open
  <1>10. Open(conn', c, s[1]) /\ c \notin streams
    BY <1>1, <1>4, <1>5 DEF Open, WireInv
  <1>11. DOMAIN conn' \subseteq Conns /\ \A d \in DOMAIN conn' : conn'[d] \in Conn
    BY <1>4, <1>5 DEF WireInv
  <1>12. \A u \in AllSlots : slot'[u].pc # "dial" => Open(conn', slot'[u].c, u[1]) /\ slot'[u].c \notin streams'
    BY <1>7, <1>8, <1>9, <1>10 DEF WireInv
  <1>13. \A v, u \in AllSlots : slot'[v].pc # "dial" /\ slot'[u].pc # "dial" /\ slot'[v].c = slot'[u].c => v = u
    BY <1>7, <1>9, SMT DEF WireInv
  <1>14. \A d \in streams' : \E n \in Nodes : Open(conn', d, n)
    BY <1>8, <1>9 DEF WireInv
  <1>15. WireInv'
    BY <1>7, <1>11, <1>12, <1>13, <1>14 DEF WireInv, Open
  <1>16. \A t \in TicketIds : Sent(conn', t) \subseteq Sent(conn, t)
    BY <1>4, <1>5, DataplaneAssumption DEF Sent
  <1> QED
    BY <1>15, <1>16

\* Dialling, parking, serving and closing: every thread keeps its connection
\* and nothing is sent.
LEMMA WiringStep ==
  ASSUME WireInv, Wiring
  PROVE  WireInv' /\ \A t \in TicketIds : Sent(conn', t) \subseteq Sent(conn, t)
  <1> USE Zenon
  <1>0. ConnType(conn) /\ slot \in [AllSlots -> Slot] /\ \A c \in streams : \E n \in Nodes : Open(conn, c, n)
    BY DEF WireInv, ConnType
  <1>1. ASSUME NEW s \in AllSlots, SlotReads(s) \/ SlotLoad(s) \/ SlotAdd(s)
        PROVE  WireInv' /\ \A t \in TicketIds : Sent(conn', t) \subseteq Sent(conn, t)
    <2>1. PICK l \in SlotPcs : slot' = [slot EXCEPT ![s].pc = l]
      BY <1>1 DEF SlotReads, SlotLoad, SlotAdd, SlotPcs
    <2>2. slot[s].pc # "dial" /\ UNCHANGED <<conn, streams>>
      BY <1>1 DEF SlotReads, SlotLoad, SlotAdd
    <2>3. /\ slot' \in [AllSlots -> Slot] /\ slot'[s].c = slot[s].c
          /\ \A u \in AllSlots \ {s} : slot'[u] = slot[u]
      BY <2>1, SlotMoved
    <2>4. Later(conn, conn') /\ Silent(conn, conn') /\ KeepsOpen(conn, conn', {})
      BY <1>0, <2>2, SameConns
    <2>5. \A u \in AllSlots : slot'[u].pc # "dial" =>
            slot[u].pc # "dial" /\ slot'[u].c = slot[u].c /\ slot[u].c \notin {} /\ slot[u].c \notin streams'
      BY <2>2, <2>3 DEF WireInv
    <2>6. WireInv'
      BY <1>0, <2>2, <2>3, <2>4, <2>5, WireKept, SMT
    <2> QED  BY <2>4, <2>6, NothingSent
  <1>2. ASSUME NEW s \in AllSlots,
               \/ SlotEof(s) \/ FinishInPlace(s)
               \/ SlotSpawn(s) /\ conn' = CloseNode(conn, {slot[s].c}) /\ UNCHANGED streams
        PROVE  WireInv' /\ \A t \in TicketIds : Sent(conn', t) \subseteq Sent(conn, t)
    <2>1. slot[s].pc # "dial" /\ slot' = [slot EXCEPT ![s] = Dialling]
      BY <1>2 DEF SlotEof, FinishInPlace, SlotSpawn, InPlace
    <2>2. UNCHANGED streams /\ conn' = CloseNode(conn, {slot[s].c})
      BY <1>2 DEF SlotEof, FinishInPlace, Finished
    <2>3. WireInv' /\ Later(conn, conn') /\ Silent(conn, conn')
      BY <2>1, <2>2, SlotEnds
    <2> QED  BY <2>3, NothingSent
  <1>3. ASSUME NEW s \in AllSlots, SlotSpawn(s), streams' = streams \cup {slot[s].c}, UNCHANGED conn
        PROVE  WireInv' /\ \A t \in TicketIds : Sent(conn', t) \subseteq Sent(conn, t)
    <2>1. slot[s].pc # "dial" /\ slot' = [slot EXCEPT ![s] = Dialling]
      BY <1>3 DEF SlotSpawn
    <2>2. /\ slot' \in [AllSlots -> Slot] /\ slot'[s].pc = "dial"
          /\ \A u \in AllSlots \ {s} : slot'[u] = slot[u]
      BY <2>1, SlotFreed
    <2>3. Later(conn, conn') /\ Silent(conn, conn') /\ KeepsOpen(conn, conn', {})
      BY <1>0, <1>3, SameConns
    <2>4. \A u \in AllSlots : slot'[u].pc # "dial" =>
            slot[u].pc # "dial" /\ slot'[u].c = slot[u].c /\ slot[u].c \notin {} /\ slot[u].c \notin streams'
      BY <1>3, <2>1, <2>2 DEF WireInv
    <2>5. \A c \in streams' : c \notin {} /\ \E n \in Nodes : Open(conn, c, n)
      <3>1. Open(conn, slot[s].c, s[1]) /\ s[1] \in Nodes
        BY <2>1 DEF WireInv, AllSlots
      <3> QED  BY <1>0, <1>3, <3>1
    <2>6. WireInv'
      BY <2>2, <2>3, <2>4, <2>5, WireKept, SMT
    <2> QED  BY <2>3, <2>6, NothingSent
  <1>4. ASSUME NEW c \in Conns, Greet(c) \/ Age(c) \/ SilentDrop(c)
        PROVE  WireInv' /\ \A t \in TicketIds : Sent(conn', t) \subseteq Sent(conn, t)
    <2>1. /\ Later(conn, conn') /\ Silent(conn, conn') /\ KeepsOpen(conn, conn', {})
          /\ UNCHANGED <<slot, streams, inflight>>
      BY <1>4, MarkStep
    <2>2. \A u \in AllSlots : slot'[u].pc # "dial" =>
            slot[u].pc # "dial" /\ slot'[u].c = slot[u].c /\ slot[u].c \notin {} /\ slot[u].c \notin streams'
      BY <2>1 DEF WireInv
    <2>3. WireInv'
      BY <1>0, <2>1, <2>2, WireKept, SMT
    <2> QED  BY <2>1, <2>3, NothingSent
  <1>5. ASSUME NEW c \in Conns, FinishStream(c)
        PROVE  WireInv' /\ \A t \in TicketIds : Sent(conn', t) \subseteq Sent(conn, t)
    <2>1. c \in streams /\ conn' = CloseNode(conn, {c}) /\ streams' = streams \ {c} /\ UNCHANGED slot
      BY <1>5 DEF FinishStream, Finished
    <2>2. Later(conn, conn') /\ Silent(conn, conn') /\ KeepsOpen(conn, conn', {c})
      BY <1>0, <2>1, CloseNodeStep
    <2>3. \A u \in AllSlots : slot'[u].pc # "dial" =>
            slot[u].pc # "dial" /\ slot'[u].c = slot[u].c /\ slot[u].c \notin {c} /\ slot[u].c \notin streams'
      BY <2>1 DEF WireInv
    <2>4. WireInv'
      BY <1>0, <2>1, <2>2, <2>3, WireKept
    <2> QED  BY <2>2, <2>4, NothingSent
  <1>6. ASSUME NEW s \in AllSlots, SlotStep(s)
        PROVE  WireInv' /\ \A t \in TicketIds : Sent(conn', t) \subseteq Sent(conn, t)
    <2>1. CASE SlotSpawn(s)
      BY <1>2, <1>3, <2>1 DEF SlotSpawn
    <2> QED  BY <1>1, <1>2, <1>6, <2>1, DialStep DEF SlotStep
  <1> QED
    BY <1>4, <1>5, <1>6 DEF Wiring

\* The node executes what it was sent, once: ran marks the connection.
LEMMA ExecuteStep ==
  ASSUME WireInv, NEW c \in Conns, Execute(c)
  PROVE  /\ WireInv' /\ Later(conn, conn') /\ c \in Sent(conn, conn[c].msg)
         /\ \A t : Sent(conn', t) \subseteq Sent(conn, t) /\ c \notin Sent(conn', t)
  <1> USE Zenon
  <1>0. ConnType(conn) /\ \A d \in streams : \E n \in Nodes : Open(conn, d, n)
    BY DEF WireInv, ConnType
  <1>1. c \in DOMAIN conn
    BY DEF Execute, WireInv, InPlace, Open
  <1>2. PICK x : x = [conn[c] EXCEPT !.ran = TRUE]
    OBVIOUS
  <1>3. conn' = [conn EXCEPT ![c] = x] /\ ~conn[c].ran /\ UNCHANGED <<slot, streams>>
    BY <1>2 DEF Execute
  <1>4. x \in Conn /\ x.n = conn[c].n /\ x.nd = conn[c].nd /\ x.msg = conn[c].msg /\ x.ran
    BY <1>0, <1>1, <1>2 DEF Conn, ConnType
  <1>5. Later(conn, conn') /\ KeepsOpen(conn, conn', {})
    BY <1>0, <1>3, <1>4, OneConn, ZenonT(30)
  <1>6. WireInv'
    <2>1. \A u \in AllSlots : slot'[u].pc # "dial" =>
            slot[u].pc # "dial" /\ slot'[u].c = slot[u].c /\ slot[u].c \notin {} /\ slot[u].c \notin streams'
      BY <1>3 DEF WireInv
    <2>2. slot' \in [AllSlots -> Slot] /\ \A d \in streams' : d \notin {} /\ \E n \in Nodes : Open(conn, d, n)
      BY <1>0, <1>3 DEF WireInv
    <2> QED  BY <1>5, <2>1, <2>2, WireKept, SMT
  <1>7. conn'[c] = x /\ DOMAIN conn' = DOMAIN conn /\ \A d \in DOMAIN conn \ {c} : conn'[d] = conn[d]
    BY <1>1, <1>3
  <1>8. c \in Sent(conn, conn[c].msg)
    BY <1>1, <1>3 DEF Sent
  <1>9. \A t : Sent(conn', t) \subseteq Sent(conn, t) /\ c \notin Sent(conn', t)
    BY <1>4, <1>7 DEF Sent
  <1> QED
    BY <1>5, <1>6, <1>8, <1>9

\* The gateway's threads leave the nodes' ends alone, and send a ticket on
\* one connection.
LEMMA DeliveryWire ==
  ASSUME WireInv, ReqInv, NEW r \in Reqs, Delivery(r)
  PROVE  /\ WireInv' /\ Later(conn, conn')
         /\ \/ \A t : Sent(conn', t) \subseteq Sent(conn, t)
            \/ /\ Write(r) /\ Step(r, "relay")
               /\ \E d : \A t : Sent(conn', t) \subseteq Sent(conn, t) \cup (IF t = req[r].t THEN {d} ELSE {})
  <1> USE Zenon
  <1>0. ConnType(conn) /\ \A d \in streams : \E n \in Nodes : Open(conn, d, n)
    BY DEF WireInv, ConnType
  <1>1. UNCHANGED <<slot, streams>>
    BY DeliveryFrame
  <1>2. ASSUME Later(conn, conn'), KeepsOpen(conn, conn', {}) PROVE WireInv' /\ Later(conn, conn')
    <2>1. \A u \in AllSlots : slot'[u].pc # "dial" =>
            slot[u].pc # "dial" /\ slot'[u].c = slot[u].c /\ slot[u].c \notin {} /\ slot[u].c \notin streams'
      BY <1>1 DEF WireInv
    <2>2. slot' \in [AllSlots -> Slot] /\ \A d \in streams' : d \notin {} /\ \E n \in Nodes : Open(conn, d, n)
      BY <1>0, <1>1 DEF WireInv
    <2> QED  BY <1>2, <2>1, <2>2, WireKept, SMT
  <1>3. CASE UNCHANGED conn
    BY <1>0, <1>2, <1>3, SameConns, NothingSent
  <1>4. CASE conn' = CloseGw(conn, {req[r].c})
    BY <1>0, <1>2, <1>4, CloseGwStep, NothingSent
  <1>5. ASSUME NEW got, TakeFrom(r, got)
        PROVE  WireInv' /\ Later(conn, conn') /\ \A t : Sent(conn', t) \subseteq Sent(conn, t)
    BY <1>2, <1>5, TakeFromStep, NothingSent
  <1>6. CASE Write(r) /\ Step(r, "relay") /\ conn' = [conn EXCEPT ![req[r].c].msg = req[r].t]
    <2>1. PICK d, x : d = req[r].c /\ x = [conn[d] EXCEPT !.msg = req[r].t]
      OBVIOUS
    <2>2. conn' = [conn EXCEPT ![d] = x] /\ req[r].t \in TicketIds \cup {NoTicket}
      BY <1>6, <2>1, ReqFields DEF ReqInv
    <2>3. d \in DOMAIN conn => x \in Conn /\ x.n = conn[d].n /\ x.nd = conn[d].nd /\ x.msg = req[r].t
      BY <1>0, <2>1, <2>2 DEF Conn, ConnType
    <2>4. Later(conn, conn') /\ KeepsOpen(conn, conn', {})
      BY <1>0, <2>2, <2>3, OneConn
    <2>5. /\ DOMAIN conn' = DOMAIN conn /\ (d \in DOMAIN conn => conn'[d] = x)
          /\ \A e \in DOMAIN conn \ {d} : conn'[e] = conn[e]
      BY <2>2
    <2>6. \A t : Sent(conn', t) \subseteq Sent(conn, t) \cup (IF t = req[r].t THEN {d} ELSE {})
      BY <2>3, <2>5 DEF Sent
    <2> QED  BY <1>2, <1>6, <2>4, <2>6
  <1>7. CASE ServeLocal(r) \/ Route(r)
    <2>1. UNCHANGED conn
      BY <1>7 DEF ServeLocal, Route, wire
    <2> QED  BY <1>3, <2>1
  <1>8. CASE Take(r) \/ TakeWait(r)
    <2>1. PICK got : TakeFrom(r, got)
      BY <1>8 DEF Take, TakeWait
    <2> QED  BY <1>5, <2>1
  <1>9. CASE Write(r) \/ Relay(r)
    BY <1>4, <1>6, <1>9 DEF Write, Relay, Close
  <1> QED
    BY <1>7, <1>8, <1>9 DEF Delivery

\* A process dies: its ends are closed, its threads gone.
LEMMA DieWire ==
  ASSUME WireInv, NEW p \in Procs, Die(p)
  PROVE  WireInv' /\ Later(conn, conn') /\ \A t : Sent(conn', t) \subseteq Sent(conn, t)
  <1> USE Zenon
  <1>0. ConnType(conn) /\ slot \in [AllSlots -> Slot] /\ \A d \in streams : \E n \in Nodes : Open(conn, d, n)
    BY DEF WireInv, ConnType
  <1>1. /\ slot' = [s \in AllSlots |-> IF s[1] = p THEN Dialling ELSE slot[s]]
        /\ streams' = {c \in streams : conn[c].n # p}
    BY DEF Die
  <1>2. Dialling \in Slot /\ Dialling.pc = "dial"
    BY DEF Dialling, Slot, SlotPcs
  <1>3. slot' \in [AllSlots -> Slot] /\ \A s \in AllSlots : slot'[s] = IF s[1] = p THEN Dialling ELSE slot[s]
    BY <1>0, <1>1, <1>2
  <1>4. \A s \in AllSlots : slot'[s].pc # "dial" => s[1] # p /\ slot'[s] = slot[s] /\ slot[s].c \notin streams'
    BY <1>1, <1>2, <1>3 DEF WireInv
  <1>5. PICK C : /\ Later(conn, conn') /\ Silent(conn, conn') /\ KeepsOpen(conn, conn', C)
                 /\ \A c \in C : conn[c].n = p
    <2>1. CASE p = Gw
      <3>1. conn' = CloseGw(conn, DOMAIN conn)
        BY <2>1 DEF Die
      <3>2. Later(conn, conn') /\ Silent(conn, conn') /\ KeepsOpen(conn, conn', {})
        BY <1>0, <3>1, CloseGwStep
      <3> QED  BY <3>2, SMT
    <2>2. CASE p # Gw
      <3>1. PICK C : C = {c \in DOMAIN conn : conn[c].n = p}
        OBVIOUS
      <3>2. conn' = CloseNode(conn, C)
        BY <2>2, <3>1 DEF Die
      <3>3. Later(conn, conn') /\ Silent(conn, conn') /\ KeepsOpen(conn, conn', C)
        BY <1>0, <3>2, CloseNodeStep
      <3> QED  BY <3>1, <3>3, SMT
    <2> QED  BY <2>1, <2>2
  <1>6. \A s \in AllSlots : slot'[s].pc # "dial" =>
          slot[s].pc # "dial" /\ slot'[s].c = slot[s].c /\ slot[s].c \notin C /\ slot[s].c \notin streams'
    BY <1>4, <1>5, SMT DEF WireInv, Open
  <1>7. \A c \in streams' : c \notin C /\ \E n \in Nodes : Open(conn, c, n)
    BY <1>0, <1>1, <1>5
  <1>8. WireInv'
    BY <1>3, <1>5, <1>6, <1>7, WireKept
  <1> QED
    BY <1>5, <1>8, NothingSent

\* The connections the threads serve stay theirs in every step.
LEMMA WireSteps ==
  ASSUME WireInv, ReqInv, [Next]_vars
  PROVE  WireInv'
  <1> USE Zenon
  <1>1. ASSUME UNCHANGED <<conn, slot, streams>> PROVE WireInv'
    BY <1>1 DEF WireInv
  <1>2. ASSUME NEW r \in Reqs, Attempt(r) PROVE UNCHANGED <<conn, slot, streams>>
    BY <1>2 DEF Attempt, Present, NonceLocal, NonceLease, NonceCas, wire
  <1>3. ASSUME UNCHANGED dvars \/ UNCHANGED vars PROVE UNCHANGED <<conn, slot, streams>>
    BY <1>3 DEF vars, dvars, wire
  <1>4. ASSUME NEW r \in Reqs, Delivery(r) PROVE WireInv'
    BY <1>4, DeliveryWire
  <1>5. ASSUME NEW c \in Conns, Execute(c) PROVE WireInv'
    BY <1>5, ExecuteStep
  <1>6. ASSUME NEW p \in Procs, Die(p) PROVE WireInv'
    BY <1>6, DieWire
  <1> QED
    BY <1>1, <1>2, <1>3, <1>4, <1>5, <1>6, NextCases, WiringStep

-----------------------------------------------------------------------------
\* How a count changes with its set.
LEMMA Counts ==
  ASSUME NEW S, IsFiniteSet(S), NEW T
  PROVE  /\ Cardinality(S) \in Nat
         /\ T \subseteq S => IsFiniteSet(T) /\ Cardinality(T) \in Nat /\ Cardinality(T) <= Cardinality(S)
         /\ \A x : T \subseteq S \cup {x} =>
              IsFiniteSet(T) /\ Cardinality(T) \in Nat /\ Cardinality(T) <= Cardinality(S) + 1
         /\ \A x \in S : T \subseteq S \ {x} =>
              IsFiniteSet(T) /\ Cardinality(T) \in Nat /\ Cardinality(T) + 1 <= Cardinality(S)
  <1> USE Zenon
  <1>1. Cardinality(S) \in Nat
    BY FS_CardinalityType
  <1>2. ASSUME NEW U, IsFiniteSet(U), NEW V \in SUBSET U
        PROVE  IsFiniteSet(V) /\ Cardinality(V) \in Nat /\ Cardinality(V) <= Cardinality(U)
    BY <1>2, FS_Subset, FS_CardinalityType
  <1>3. ASSUME NEW x, T \subseteq S \cup {x}
        PROVE  IsFiniteSet(T) /\ Cardinality(T) \in Nat /\ Cardinality(T) <= Cardinality(S) + 1
    <2>1. IsFiniteSet(S \cup {x}) /\ Cardinality(S \cup {x}) = IF x \in S THEN Cardinality(S) ELSE Cardinality(S) + 1
      BY FS_AddElement
    <2>2. IsFiniteSet(T) /\ Cardinality(T) \in Nat /\ Cardinality(T) <= Cardinality(S \cup {x})
      BY <1>2, <1>3, <2>1
    <2> QED  BY <1>1, <2>1, <2>2, SMT
  <1>4. ASSUME NEW x \in S, T \subseteq S \ {x}
        PROVE  IsFiniteSet(T) /\ Cardinality(T) \in Nat /\ Cardinality(T) + 1 <= Cardinality(S)
    <2>1. IsFiniteSet(S \ {x}) /\ Cardinality(S \ {x}) = IF x \in S THEN Cardinality(S) - 1 ELSE Cardinality(S)
      BY FS_RemoveElement
    <2>2. IsFiniteSet(T) /\ Cardinality(T) \in Nat /\ Cardinality(T) <= Cardinality(S \ {x})
      BY <1>2, <1>4, <2>1
    <2> QED  BY <1>1, <2>1, <2>2, SMT
  <1> QED
    BY <1>1, <1>2, <1>3, <1>4

-----------------------------------------------------------------------------
\* The slots, and the streams of a node, are finitely many.
LEMMA FewStreams ==
  ASSUME WireInv, NEW n
  PROVE  /\ IsFiniteSet(Own(streams, conn, n)) /\ Cardinality(Own(streams, conn, n)) \in Nat
         /\ \A f, pc : /\ IsFiniteSet(At(f, n, pc)) /\ Cardinality(At(f, n, pc)) \in Nat
                       /\ Cardinality(At(f, n, pc)) <= Cardinality(Slots)
         /\ Cardinality(Slots) \in Nat
  <1> USE Zenon
  <1>1. IsFiniteSet(Conns)
    <2>1. 1 \in Int /\ MaxConns \in Int
      BY DataplaneAssumption, SMT
    <2> QED  BY <2>1, FS_Interval DEF Conns
  <1>2. Own(streams, conn, n) \subseteq Conns
    BY DEF Own, WireInv, Open
  <1>3. \A f, pc : At(f, n, pc) \subseteq Slots
    BY DEF At
  <1> QED
    BY <1>1, <1>2, <1>3, DataplaneAssumption, Counts

\* One element more.
LEMMA OneMore ==
  ASSUME NEW S, IsFiniteSet(S), NEW x, x \notin S, NEW T, T = S \cup {x}
  PROVE  Cardinality(T) = Cardinality(S) + 1
  <1> USE Zenon
  <1>1. Cardinality(S \cup {x}) = IF x \in S THEN Cardinality(S) ELSE Cardinality(S) + 1
    BY FS_AddElement
  <1> QED
    BY <1>1

\* One element fewer.
LEMMA OneLess ==
  ASSUME NEW S, IsFiniteSet(S), NEW x, x \in S, NEW T, T = S \ {x}
  PROVE  Cardinality(T) + 1 = Cardinality(S)
  <1> USE Zenon
  <1>1. Cardinality(S \ {x}) = IF x \in S THEN Cardinality(S) - 1 ELSE Cardinality(S)
    BY FS_RemoveElement
  <1>2. Cardinality(T) = Cardinality(S) - 1
    BY <1>1
  <1>3. Cardinality(S) \in Nat
    BY FS_CardinalityType
  <1> QED
    BY <1>2, <1>3, SMT

\* The streams' nodes do not change.
LEMMA SameOwners ==
  ASSUME WireInv, WireInv', Later(conn, conn'), UNCHANGED streams, NEW n
  PROVE  Own(streams', conn', n) = Own(streams, conn, n)
  <1> USE Zenon
  <1>1. \A c \in streams : c \in DOMAIN conn'
    BY DEF WireInv, Open
  <1>2. \A c \in streams : conn'[c].n = conn[c].n
    BY <1>1 DEF Later
  <1> QED
    BY <1>2 DEF Own

\* A slot moves without a stream starting or ending: at the add it has read a
\* counter below the limit.
LEMMA SlotCounts ==
  ASSUME WireInv, CountInv, UNCHANGED inflight, \A n : Own(streams', conn', n) = Own(streams, conn, n),
         NEW n \in Nodes, NEW i \in Slots, NEW s, s = <<n, i>>,
         slot[s].pc # "spawn", slot'[s].pc # "spawn", slot'[s].pc = "add" => inflight[n] < MaxStreams,
         \A u \in AllSlots \ {s} : slot'[u] = slot[u]
  PROVE  CountInv'
  <1> USE Zenon
  <1>1. ASSUME NEW m \in Nodes PROVE CountOk(inflight'[m], streams', conn', slot', m)
    <2>1. CountOk(inflight[m], streams, conn, slot, m) /\ inflight[m] \in Nat /\ inflight'[m] = inflight[m]
      BY DEF CountInv
    <2>2. \A j \in Slots : <<m, j>> # s => slot'[<<m, j>>] = slot[<<m, j>>]
      BY DEF AllSlots
    <2>3. At(slot', m, "spawn") = At(slot, m, "spawn")
      BY <2>2 DEF At
    <2>4. \A f, pc : /\ IsFiniteSet(At(f, m, pc)) /\ Cardinality(At(f, m, pc)) \in Nat
                     /\ Cardinality(At(f, m, pc)) <= Cardinality(Slots)
                     /\ Cardinality(Slots) \in Nat
      BY FewStreams
    <2>5. CASE m = n /\ slot'[s].pc = "add"
      <3>0. inflight[m] < MaxStreams /\ MaxStreams \in Nat
        BY <2>5, DataplaneAssumption, ZenonT(30)
      <3>1. inflight[m] <= MaxStreams - 1 /\ MaxStreams \in Nat
        BY <2>1, <3>0, SMT
      <3>2. inflight[m] + Cardinality(At(slot', m, "add")) <= MaxStreams - 1 + Cardinality(Slots)
        BY <2>1, <2>4, <3>1, SMT
      <3> QED  BY <2>1, <2>3, <3>2 DEF CountOk
    <2>6. CASE ~(m = n /\ slot'[s].pc = "add")
      <3>1. At(slot', m, "add") \subseteq At(slot, m, "add")
        BY <2>2, <2>6 DEF At
      <3>2. Cardinality(At(slot', m, "add")) <= Cardinality(At(slot, m, "add"))
        BY <2>4, <3>1, Counts, ZenonT(30)
      <3>3. inflight[m] + Cardinality(At(slot', m, "add")) <= MaxStreams - 1 + Cardinality(Slots)
        BY <2>1, <2>4, <3>2, DataplaneAssumption, SMT DEF CountOk
      <3> QED  BY <2>1, <2>3, <3>3 DEF CountOk
    <2> QED  BY <2>5, <2>6
  <1>2. inflight' \in [Nodes -> Nat]
    BY DEF CountInv
  <1> QED
    BY <1>1, <1>2 DEF CountInv

\* The node of a slot counts anew; the other nodes are as before.
LEMMA OneNodeCounts ==
  ASSUME CountInv, NEW n \in Nodes, NEW k \in Nat, inflight' = [inflight EXCEPT ![n] = k],
         CountOk(k, streams', conn', slot', n),
         \A m \in Nodes \ {n} : /\ Own(streams', conn', m) = Own(streams, conn, m)
                                /\ \A i \in Slots : slot'[<<m, i>>] = slot[<<m, i>>]
  PROVE  CountInv'
  <1> USE Zenon
  <1>1. inflight' \in [Nodes -> Nat] /\ inflight'[n] = k /\ \A m \in Nodes \ {n} : inflight'[m] = inflight[m]
    BY DEF CountInv
  <1>2. ASSUME NEW m \in Nodes \ {n} PROVE CountOk(inflight'[m], streams', conn', slot', m)
    <2>1. \A pc : At(slot', m, pc) = At(slot, m, pc)
      BY DEF At
    <2>2. CountOk(inflight[m], streams, conn, slot, m)
      BY DEF CountInv
    <2> QED  BY <1>1, <2>1, <2>2 DEF CountOk
  <1> QED
    BY <1>1, <1>2 DEF CountInv

\* fetch_add: what the slot had read leave for is taken.
LEMMA AddCounts ==
  ASSUME WireInv, WireInv', CountInv, NEW n \in Nodes, NEW i \in Slots, SlotAdd(<<n, i>>)
  PROVE  CountInv'
  <1> USE Zenon
  <1>0. PICK s \in AllSlots : s = <<n, i>> /\ s[1] = n
    BY SMT DEF AllSlots
  <1>1. /\ slot[s].pc = "add" /\ slot' = [slot EXCEPT ![s].pc = "spawn"] /\ UNCHANGED <<conn, streams>>
        /\ inflight' = [inflight EXCEPT ![n] = inflight[n] + 1]
    BY <1>0 DEF SlotAdd
  <1>2. slot'[s].pc = "spawn" /\ \A u \in AllSlots \ {s} : slot'[u] = slot[u]
    <2>1. "spawn" \in SlotPcs
      BY DEF SlotPcs
    <2> QED  BY <1>1, <2>1, SlotMoved
  <1>3. inflight[n] \in Nat /\ CountOk(inflight[n], streams, conn, slot, n)
    BY DEF CountInv
  <1>4. \A j \in Slots \ {i} : slot'[<<n, j>>] = slot[<<n, j>>]
    BY <1>0, <1>2 DEF AllSlots
  <1>5. /\ At(slot', n, "spawn") = At(slot, n, "spawn") \cup {i} /\ i \notin At(slot, n, "spawn")
        /\ At(slot', n, "add") = At(slot, n, "add") \ {i} /\ i \in At(slot, n, "add")
    BY <1>0, <1>1, <1>2, <1>4 DEF At
  <1>6. /\ IsFiniteSet(At(slot, n, "spawn")) /\ IsFiniteSet(At(slot, n, "add"))
        /\ Cardinality(At(slot, n, "spawn")) \in Nat /\ Cardinality(At(slot', n, "add")) \in Nat
        /\ Cardinality(Own(streams, conn, n)) \in Nat /\ Cardinality(Slots) \in Nat
        /\ Cardinality(At(slot, n, "add")) \in Nat
    BY FewStreams
  <1>7. /\ Cardinality(At(slot', n, "spawn")) = Cardinality(At(slot, n, "spawn")) + 1
        /\ Cardinality(At(slot', n, "add")) + 1 = Cardinality(At(slot, n, "add"))
    BY <1>5, <1>6, OneMore, OneLess, ZenonT(30)
  <1>8. CountOk(inflight[n] + 1, streams', conn', slot', n)
    BY <1>1, <1>3, <1>6, <1>7, DataplaneAssumption, SMT DEF CountOk
  <1>9. \A m \in Nodes \ {n} : /\ Own(streams', conn', m) = Own(streams, conn, m)
                               /\ \A j \in Slots : slot'[<<m, j>>] = slot[<<m, j>>]
    BY <1>0, <1>1, <1>2 DEF AllSlots
  <1> QED
    <2>1. inflight[n] + 1 \in Nat
      BY <1>3, SMT
    <2> QED  BY <1>1, <1>8, <1>9, <2>1, OneNodeCounts

\* The thread takes the stream over, or the counter is taken back.
LEMMA SpawnCounts ==
  ASSUME WireInv, WireInv', CountInv, NEW n \in Nodes, NEW i \in Slots, SlotSpawn(<<n, i>>)
  PROVE  CountInv'
  <1> USE Zenon
  <1>0. PICK s \in AllSlots : s = <<n, i>> /\ s[1] = n
    BY SMT DEF AllSlots
  <1>1. slot[s].pc = "spawn" /\ slot' = [slot EXCEPT ![s] = Dialling] /\ ConnType(conn)
    BY <1>0 DEF SlotSpawn, WireInv, ConnType
  <1>2. slot'[s].pc = "dial" /\ \A u \in AllSlots \ {s} : slot'[u] = slot[u]
    BY <1>1, SlotFreed
  <1>3. inflight[n] \in Nat /\ CountOk(inflight[n], streams, conn, slot, n)
    BY DEF CountInv
  <1>4. \A j \in Slots \ {i} : slot'[<<n, j>>] = slot[<<n, j>>]
    BY <1>0, <1>2 DEF AllSlots
  <1>5. /\ At(slot', n, "spawn") = At(slot, n, "spawn") \ {i} /\ i \in At(slot, n, "spawn")
        /\ At(slot', n, "add") = At(slot, n, "add")
    BY <1>0, <1>1, <1>2, <1>4 DEF At
  <1>6. /\ IsFiniteSet(At(slot, n, "spawn")) /\ IsFiniteSet(Own(streams, conn, n))
        /\ Cardinality(At(slot, n, "spawn")) \in Nat /\ Cardinality(At(slot', n, "spawn")) \in Nat
        /\ Cardinality(Own(streams, conn, n)) \in Nat /\ Cardinality(Slots) \in Nat
        /\ Cardinality(At(slot, n, "add")) \in Nat
    BY FewStreams
  <1>7. Cardinality(At(slot', n, "spawn")) + 1 = Cardinality(At(slot, n, "spawn"))
    BY <1>5, <1>6, OneLess
  <1>8. \A m \in Nodes \ {n}, j \in Slots : slot'[<<m, j>>] = slot[<<m, j>>]
    BY <1>0, <1>2 DEF AllSlots
  <1>9. CASE streams' = streams \cup {slot[s].c} /\ UNCHANGED <<conn, inflight>>
    <2>1. PICK c : c = slot[s].c
      BY ZenonT(30)
    <2>2. conn[c].n = n /\ c \notin streams
      BY <1>0, <1>1, <2>1 DEF WireInv, Open
    <2>3. Own(streams', conn', n) = Own(streams, conn, n) \cup {c} /\ c \notin Own(streams, conn, n)
      BY <1>9, <2>1, <2>2 DEF Own
    <2>4. \A m \in Nodes \ {n} : Own(streams', conn', m) = Own(streams, conn, m)
      BY <1>9, <2>1, <2>2 DEF Own
    <2>5. Cardinality(Own(streams', conn', n)) = Cardinality(Own(streams, conn, n)) + 1
      BY <1>6, <2>3, OneMore, ZenonT(30)
    <2>6. CountOk(inflight[n], streams', conn', slot', n)
      BY <1>3, <1>5, <1>6, <1>7, <2>5, SMT DEF CountOk
    <2>7. inflight' = [inflight EXCEPT ![n] = inflight[n]]
      BY <1>9 DEF CountInv
    <2> QED  BY <1>3, <1>8, <2>4, <2>6, <2>7, OneNodeCounts
  <1>10. CASE /\ inflight' = [inflight EXCEPT ![n] = inflight[n] - 1]
              /\ conn' = CloseNode(conn, {slot[s].c}) /\ UNCHANGED streams
    <2>1. Later(conn, conn')
      BY <1>1, <1>10, CloseNodeStep
    <2>2. \A m : Own(streams', conn', m) = Own(streams, conn, m)
      BY <1>10, <2>1, SameOwners
    <2>3. inflight[n] - 1 \in Nat /\ CountOk(inflight[n] - 1, streams', conn', slot', n)
      BY <1>3, <1>5, <1>6, <1>7, <2>2, DataplaneAssumption, SMT DEF CountOk
    <2> QED  BY <1>8, <1>10, <2>2, <2>3, OneNodeCounts
  <1> QED
    BY <1>0, <1>9, <1>10 DEF SlotSpawn

\* A stream ends and gives its place back.
LEMMA FinishCounts ==
  ASSUME WireInv, WireInv', CountInv, NEW c, FinishStream(c)
  PROVE  CountInv'
  <1> USE Zenon
  <1>1. PICK n \in Nodes : conn[c].n = n /\ c \in DOMAIN conn
    BY DEF FinishStream, WireInv, Open
  <1>2. /\ c \in streams /\ streams' = streams \ {c} /\ conn' = CloseNode(conn, {c}) /\ UNCHANGED slot
        /\ inflight' = [inflight EXCEPT ![n] = inflight[n] - 1]
    BY <1>1 DEF FinishStream, Finished
  <1>3. Later(conn, conn')
    <2>1. ConnType(conn)
      BY DEF WireInv, ConnType
    <2> QED  BY <1>2, <2>1, CloseNodeStep
  <1>4. \A d \in streams' : conn'[d].n = conn[d].n
    BY <1>3 DEF Later, WireInv, Open
  <1>5. /\ Own(streams', conn', n) = Own(streams, conn, n) \ {c} /\ c \in Own(streams, conn, n)
        /\ \A m \in Nodes \ {n} : Own(streams', conn', m) = Own(streams, conn, m)
    <2>1. c \in streams /\ streams' = streams \ {c}
      BY <1>2
    <2>2. \A m : /\ Own(streams', conn', m) = {d \in streams' : conn'[d].n = m}
                 /\ Own(streams, conn, m) = {d \in streams : conn[d].n = m}
      BY DEF Own
    <2>3. \A m : {d \in streams' : conn'[d].n = m} = {d \in streams : conn[d].n = m} \ {c}
      BY <1>4, <2>1
    <2>4. \A m \in Nodes \ {n} : c \notin Own(streams, conn, m)
      BY <1>1, <2>2, SMT
    <2>5. \A m : Own(streams', conn', m) = Own(streams, conn, m) \ {c}
      BY <2>2, <2>3, ZenonT(30)
    <2>6. c \in Own(streams, conn, n)
      BY <1>1, <2>1 DEF Own
    <2> QED  BY <2>4, <2>5, <2>6
  <1>6. /\ IsFiniteSet(Own(streams, conn, n)) /\ Cardinality(Own(streams, conn, n)) \in Nat
        /\ Cardinality(At(slot, n, "spawn")) \in Nat
        /\ Cardinality(At(slot, n, "add")) \in Nat /\ Cardinality(Slots) \in Nat
    BY FewStreams
  <1>7. /\ Cardinality(Own(streams', conn', n)) + 1 = Cardinality(Own(streams, conn, n))
        /\ Cardinality(Own(streams', conn', n)) \in Nat
    <2>1. Cardinality(Own(streams', conn', n)) \in Nat
      BY <1>5, <1>6, Counts
    <2> QED  BY <1>5, <1>6, <2>1, OneLess
  <1>8. inflight[n] \in Nat /\ CountOk(inflight[n], streams, conn, slot, n)
    BY DEF CountInv
  <1>9. inflight[n] - 1 \in Nat /\ CountOk(inflight[n] - 1, streams', conn', slot', n)
    BY <1>2, <1>6, <1>7, <1>8, DataplaneAssumption, SMT DEF CountOk
  <1> QED
    BY <1>2, <1>5, <1>9, OneNodeCounts

\* A node that dies starts with no stream; the other nodes keep theirs.
LEMMA DieCounts ==
  ASSUME WireInv, WireInv', CountInv, NEW p \in Procs, Die(p)
  PROVE  CountInv'
  <1> USE Zenon
  <1>1. /\ slot' = [s \in AllSlots |-> IF s[1] = p THEN Dialling ELSE slot[s]]
        /\ streams' = {c \in streams : conn[c].n # p}
        /\ inflight' = [n \in Nodes |-> IF n = p THEN 0 ELSE inflight[n]]
    BY DEF Die
  <1>2. Later(conn, conn') /\ Dialling.pc = "dial"
    BY DieWire DEF Dialling
  <1>3. \A c \in streams' : c \in streams /\ conn'[c].n = conn[c].n /\ conn[c].n # p
    BY <1>1, <1>2 DEF Later, WireInv, Open
  <1>4. \A n \in Nodes, i \in Slots : slot'[<<n, i>>] = IF n = p THEN Dialling ELSE slot[<<n, i>>]
    BY <1>1 DEF AllSlots
  <1>5. inflight' \in [Nodes -> Nat]
    BY <1>1 DEF CountInv
  <1>6. ASSUME NEW n \in Nodes PROVE CountOk(inflight'[n], streams', conn', slot', n)
    <2>1. CASE n = p
      <3>1. Own(streams', conn', n) = {} /\ At(slot', n, "spawn") = {} /\ At(slot', n, "add") = {}
        BY <1>2, <1>3, <1>4, <2>1 DEF Own, At
      <3>2. inflight'[n] = 0 /\ Cardinality({}) = 0
        BY <1>1, <2>1, FS_EmptySet
      <3>3. Cardinality(Slots) \in Nat
        BY DataplaneAssumption, FS_CardinalityType
      <3> QED  BY <3>1, <3>2, <3>3, DataplaneAssumption, SMT DEF CountOk
    <2>2. CASE n # p
      <3>1. \A pc : At(slot', n, pc) = At(slot, n, pc)
        BY <1>4, <2>2 DEF At
      <3>2. Own(streams', conn', n) = Own(streams, conn, n)
        <4>1. \A c \in streams : conn[c].n = n => c \in streams'
          BY <1>1, <2>2
        <4> QED  BY <1>3, <4>1 DEF Own
      <3>3. inflight'[n] = inflight[n] /\ CountOk(inflight[n], streams, conn, slot, n)
        BY <1>1, <2>2 DEF CountInv
      <3> QED  BY <3>1, <3>2, <3>3 DEF CountOk
    <2> QED  BY <2>1, <2>2
  <1> QED
    BY <1>5, <1>6 DEF CountInv

\* The steps that leave the agents' threads alone.
LEMMA QuietCounts ==
  ASSUME WireInv, WireInv', CountInv, Later(conn, conn'), UNCHANGED <<slot, streams, inflight>>
  PROVE  CountInv'
  <1> USE Zenon
  <1>1. \A n : Own(streams', conn', n) = Own(streams, conn, n)
    BY SameOwners
  <1>2. \A n \in Nodes : CountOk(inflight'[n], streams', conn', slot', n)
    BY <1>1 DEF CountInv, CountOk
  <1> QED
    BY <1>2 DEF CountInv

\* The steps of a slot.
LEMMA SlotStepCounts ==
  ASSUME WireInv, WireInv', CountInv, NEW s \in AllSlots, SlotStep(s)
  PROVE  CountInv'
  <1> USE Zenon
  <1>0. PICK n \in Nodes, i \in Slots : s = <<n, i>> /\ s[1] = n
    BY SMT DEF AllSlots
  <1>1. CASE Dial(s)
    <2>1. PICK c, x, y :
            /\ c \in Conns \ DOMAIN conn
            /\ conn' = Bind(conn, c, x) /\ y = [pc |-> "wait", c |-> c] /\ slot' = [slot EXCEPT ![s] = y]
      BY <1>1 DEF Dial
    <2>2. y.pc = "wait" /\ slot[s].pc = "dial" /\ UNCHANGED <<streams, inflight>> /\ slot \in [AllSlots -> Slot]
      BY <1>1, <2>1 DEF Dial, WireInv
    <2>3. \A m : Own(streams', conn', m) = Own(streams, conn, m)
      <3>1. \A d \in streams : d \in DOMAIN conn /\ d # c
        BY <2>1 DEF WireInv, Open
      <3>2. \A d \in streams : conn'[d] = conn[d]
        BY <2>1, <3>1 DEF Bind
      <3> QED  BY <2>2, <3>2 DEF Own
    <2>4. slot'[s].pc = "wait" /\ \A u \in AllSlots \ {s} : slot'[u] = slot[u]
      BY <2>1, <2>2
    <2> QED  BY <1>0, <2>2, <2>3, <2>4, SlotCounts
  <1>2. CASE SlotReads(s) \/ SlotLoad(s)
    <2>1. PICK l \in {"load", "serve", "add"} :
            slot' = [slot EXCEPT ![s].pc = l] /\ (l = "add" => ~(inflight[n] >= MaxStreams))
      BY <1>0, <1>2 DEF SlotReads, SlotLoad
    <2>2. slot[s].pc # "spawn" /\ UNCHANGED <<conn, streams, inflight>>
      BY <1>2 DEF SlotReads, SlotLoad
    <2>3. l \in SlotPcs
      BY DEF SlotPcs
    <2>4. slot'[s].pc = l /\ \A u \in AllSlots \ {s} : slot'[u] = slot[u]
      BY <2>1, <2>3, SlotMoved
    <2>5. slot'[s].pc = "add" => inflight[n] < MaxStreams
      <3>1. inflight[n] \in Nat /\ MaxStreams \in Nat
        BY DataplaneAssumption DEF CountInv
      <3>2. l = "add" => ~(inflight[n] >= MaxStreams)
        BY <2>1
      <3> QED  BY <2>4, <3>1, <3>2, SMT
    <2>6. \A m : Own(streams', conn', m) = Own(streams, conn, m)
      BY <2>2
    <2> QED  BY <1>0, <2>2, <2>4, <2>5, <2>6, SlotCounts
  <1>3. CASE SlotEof(s) \/ FinishInPlace(s)
    <2>1. /\ slot[s].pc \in {"wait", "serve"} /\ slot' = [slot EXCEPT ![s] = Dialling]
          /\ conn' = CloseNode(conn, {slot[s].c}) /\ UNCHANGED <<streams, inflight>>
      BY <1>3 DEF SlotEof, FinishInPlace, InPlace, Finished
    <2>2. slot'[s].pc = "dial" /\ \A u \in AllSlots \ {s} : slot'[u] = slot[u]
      BY <2>1, SlotFreed
    <2>3. Later(conn, conn')
      <3>1. ConnType(conn)
        BY DEF WireInv, ConnType
      <3> QED  BY <2>1, <3>1, CloseNodeStep, ZenonT(30)
    <2>4. \A m : Own(streams', conn', m) = Own(streams, conn, m)
      BY <2>1, <2>3, SameOwners
    <2>5. /\ slot[s].pc # "spawn" /\ slot'[s].pc # "spawn" /\ slot'[s].pc # "add"
          /\ UNCHANGED inflight
      BY <2>1, <2>2
    <2> QED  BY <1>0, <2>2, <2>4, <2>5, SlotCounts
  <1>4. CASE SlotAdd(s)
    BY <1>0, <1>4, AddCounts
  <1>5. CASE SlotSpawn(s)
    BY <1>0, <1>5, SpawnCounts
  <1> QED
    BY <1>1, <1>2, <1>3, <1>4, <1>5 DEF SlotStep

\* Every step keeps the counters true.
LEMMA CountSteps ==
  ASSUME WireInv, ReqInv, CountInv, [Next]_vars
  PROVE  CountInv'
  <1> USE Zenon
  <1>0. WireInv' /\ ConnType(conn)
    BY WireSteps DEF WireInv, ConnType
  <1>1. ASSUME UNCHANGED <<conn, slot, streams, inflight>> PROVE CountInv'
    BY <1>0, <1>1, SameConns, QuietCounts
  <1>2. ASSUME NEW r \in Reqs, Attempt(r) PROVE UNCHANGED <<conn, slot, streams, inflight>>
    BY <1>2 DEF Attempt, Present, NonceLocal, NonceLease, NonceCas, wire
  <1>3. ASSUME UNCHANGED dvars \/ UNCHANGED vars PROVE UNCHANGED <<conn, slot, streams, inflight>>
    BY <1>3 DEF vars, dvars, wire
  <1>4. ASSUME NEW r \in Reqs, Delivery(r) PROVE CountInv'
    BY <1>0, <1>4, DeliveryWire, DeliveryFrame, QuietCounts
  <1>5. ASSUME NEW c \in Conns, Execute(c) PROVE CountInv'
    <2>1. Later(conn, conn') /\ UNCHANGED <<slot, streams, inflight>>
      BY <1>5, ExecuteStep DEF Execute
    <2> QED  BY <1>0, <2>1, QuietCounts
  <1>6. ASSUME NEW p \in Procs, Die(p) PROVE CountInv'
    BY <1>0, <1>6, DieCounts
  <1>7. CASE Wiring
    <2>1. ASSUME NEW c \in Conns, Greet(c) \/ Age(c) \/ SilentDrop(c) PROVE CountInv'
      BY <1>0, <2>1, MarkStep, QuietCounts
    <2>2. ASSUME NEW c \in Conns, FinishStream(c) PROVE CountInv'
      BY <1>0, <2>2, FinishCounts
    <2>3. ASSUME NEW s \in AllSlots, SlotStep(s) PROVE CountInv'
      BY <1>0, <2>3, SlotStepCounts
    <2> QED  BY <1>7, <2>1, <2>2, <2>3 DEF Wiring
  <1> QED
    BY <1>1, <1>2, <1>3, <1>4, <1>5, <1>6, <1>7, NextCases, ZenonT(30)

-----------------------------------------------------------------------------
DataplaneInv == SecretInv /\ TicketInv /\ ReqInv /\ WireInv /\ CountInv

\* The first state: no ticket, no connection, every slot about to dial.
LEMMA DataplaneInit ==
  ASSUME Init
  PROVE  DataplaneInv
  <1> USE Zenon
  <1>1. SecretInv
    <2>1. /\ shared \in BOOLEAN /\ gwSecret = NoSecret
          /\ proc = [p \in Procs |-> Starting(0)]
      BY DEF Init, TicketsInit
    <2>2. Starting(0) \in Proc /\ Starting(0).pc = "start"
      BY StartingProc
    <2> QED  BY <2>1, <2>2 DEF SecretInv, Ready, Secrets
  <1>2. TicketInv
    BY DEF Init, TicketsInit, TicketInv, EmptyMap
  <1>3. ReqInv
    <2>1. req = [r \in Reqs |-> Idle] /\ Idle \in Request(Idle.c) /\ Idle.pc = "idle"
      BY IdleReq DEF Init
    <2>2. ReqOk(Idle)
      BY <2>1 DEF ReqOk, Consumed
    <2> QED  BY <2>1, <2>2 DEF ReqInv
  <1>4. WireInv
    <2>1. Dialling \in Slot /\ Dialling.pc = "dial"
      BY DEF Dialling, Slot, SlotPcs
    <2>2. DOMAIN conn = {} /\ streams = {} /\ slot = [s \in AllSlots |-> Dialling]
      BY DEF Init, EmptyMap
    <2> QED  BY <2>1, <2>2 DEF WireInv
  <1>5. CountInv
    <2>1. streams = {} /\ inflight = [n \in Nodes |-> 0] /\ \A s \in AllSlots : slot[s].pc = "dial"
      BY DEF Init, Dialling
    <2>2. \A n \in Nodes : /\ Own(streams, conn, n) = {}
                           /\ At(slot, n, "spawn") = {} /\ At(slot, n, "add") = {}
      BY <2>1, SMT DEF Own, At, AllSlots
    <2>3. Cardinality({}) = 0 /\ Cardinality(Slots) \in Nat
      BY FS_EmptySet, FS_CardinalityType, DataplaneAssumption
    <2>4. inflight \in [Nodes -> Nat] /\ \A n \in Nodes : inflight[n] = 0
      BY <2>1
    <2>5. 0 <= MaxStreams - 1 + Cardinality(Slots)
      BY <2>3, DataplaneAssumption, SMT
    <2>6. ASSUME NEW n \in Nodes PROVE CountOk(inflight[n], streams, conn, slot, n)
      <3>1. /\ Cardinality(Own(streams, conn, n)) = 0 /\ Cardinality(At(slot, n, "spawn")) = 0
            /\ Cardinality(At(slot, n, "add")) = 0 /\ inflight[n] = 0
        BY <2>2, <2>3, <2>4
      <3> QED  BY <2>5, <3>1, SMT DEF CountOk
    <2> QED  BY <2>4, <2>6 DEF CountInv
  <1> QED
    BY <1>1, <1>2, <1>3, <1>4, <1>5 DEF DataplaneInv

\* Every step preserves the invariant.
LEMMA DataplaneSteps ==
  ASSUME DataplaneInv, [Next]_vars
  PROVE  DataplaneInv'
  BY SecretSteps, TicketSteps, ReqSteps, WireSteps, CountSteps, Zenon DEF DataplaneInv

\* The invariant holds in every state of every run of gateway and agents.
LEMMA DataplaneHolds == Spec => []DataplaneInv
  BY DataplaneInit, DataplaneSteps, PTL DEF Spec

\* Daemons that share a store sign and check tickets with one secret: whoever
\* got to the gw:secret key first, whoever died in between.
THEOREM OneSecret == Spec => []SecretsAgree
  <1>1. DataplaneInv => SecretsAgree
    BY Zenon DEF DataplaneInv, SecretInv, SecretsAgree
  <1> QED
    BY <1>1, DataplaneHolds, PTL


\* The slots of a node that serve a request themselves.
LEMMA InPlaceBounded ==
  ASSUME NEW n \in Nodes
  PROVE  /\ Cardinality({s \in InPlace : s[1] = n}) \in Nat
         /\ Cardinality({s \in InPlace : s[1] = n}) <= Cardinality(Slots)
  <1> USE Zenon
  <1>1. PICK S : S = {s \in InPlace : s[1] = n}
    OBVIOUS
  <1>2. \A s \in S : s[2] \in Slots /\ s = <<n, s[2]>>
    BY <1>1, SMT DEF InPlace, AllSlots
  <1>3. PICK f : f = [s \in S |-> s[2]]
    OBVIOUS
  <1>4. f \in Injection(S, Slots)
    <2>1. f \in [S -> Slots]
      BY <1>2, <1>3
    <2>2. \A a, b \in S : f[a] = f[b] => a = b
      BY <1>2, <1>3
    <2> QED  BY <2>1, <2>2 DEF Injection, IsInjective
  <1>5. IsFiniteSet(S) /\ Cardinality(S) <= Cardinality(Slots)
    BY <1>4, DataplaneAssumption, FS_Injection
  <1> QED
    BY <1>1, <1>5, FS_CardinalityType

\* An agent's counter is the number of its threads, and the requests it has
\* in work stay below the limit and two for each slot.
THEOREM StreamsStayBounded == Spec => []StreamsBounded
  <1> USE Zenon
  <1>1. DataplaneInv => StreamsBounded
    <2>1. SUFFICES ASSUME DataplaneInv, NEW n \in Nodes
                   PROVE  /\ inflight[n] = Cardinality({c \in streams : conn[c].n = n})
                                            + Cardinality({i \in Slots : slot[<<n, i>>].pc = "spawn"})
                          /\ Cardinality({c \in streams : conn[c].n = n}) + Cardinality({s \in InPlace : s[1] = n})
                                <= MaxStreams - 1 + 2 * Cardinality(Slots)
      BY DEF StreamsBounded
    <2>2. /\ Own(streams, conn, n) = {c \in streams : conn[c].n = n}
          /\ At(slot, n, "spawn") = {i \in Slots : slot[<<n, i>>].pc = "spawn"}
      BY DEF Own, At
    <2>3. CountOk(inflight[n], streams, conn, slot, n) /\ inflight[n] \in Nat
      BY <2>1 DEF DataplaneInv, CountInv
    <2>4. /\ Cardinality(Own(streams, conn, n)) \in Nat /\ Cardinality(At(slot, n, "spawn")) \in Nat
          /\ Cardinality(At(slot, n, "add")) \in Nat /\ Cardinality(Slots) \in Nat
      BY <2>1, FewStreams DEF DataplaneInv
    <2>5. PICK k \in Nat : k = Cardinality({s \in InPlace : s[1] = n}) /\ k <= Cardinality(Slots)
      BY InPlaceBounded
    <2>6. /\ inflight[n] = Cardinality(Own(streams, conn, n)) + Cardinality(At(slot, n, "spawn"))
          /\ Cardinality(Own(streams, conn, n)) + k <= MaxStreams - 1 + 2 * Cardinality(Slots)
      BY <2>3, <2>4, <2>5, DataplaneAssumption, SMT DEF CountOk
    <2> QED  BY <2>2, <2>5, <2>6
  <1> QED
    BY <1>1, DataplaneHolds, PTL
-----------------------------------------------------------------------------
(***************************************************************************)
(* A ticket's uses: the requests that have consumed it, the connections it *)
(* was sent on and its executions never number more than one, and one for  *)
(* each consumption that came late.                                        *)
(***************************************************************************)
\* The requests that have consumed a ticket and not passed it on yet.
Pending(f, t) == {r \in Reqs : f[r].t = t /\ f[r].pc \in Consumed}

Uses(n, f, g, t) == n[t] + Cardinality(Pending(f, t)) + Cardinality(Sent(g, t))

\* Nobody can consume it any more, unless late.
Spent(t) ==
    \/ shared /\ t \in DOMAIN ticket /\ (t \in DOMAIN nonce \/ now >= ticket[t].exp)
    \/ /\ ~shared
       /\ \E p \in Procs, g \in Nat :
            SignedBy(t, p, g) /\ (g < proc[p].gen \/ (g = proc[p].gen /\ t \in proc[p].used))

\* One use once it is spent, and one for each late consumption.
UseOk(t) ==
    \/ Uses(ran, req, conn, t) <= late[t]
    \/ Uses(ran, req, conn, t) <= late[t] + 1 /\ Spent(t)

UseInv ==
    /\ ran \in [TicketIds -> Nat] /\ late \in [TicketIds -> Nat]
    /\ \A t \in TicketIds : UseOk(t)

-----------------------------------------------------------------------------
\* The requests and the connections are finitely many.
LEMMA FewUses ==
  ASSUME NEW t
  PROVE  /\ \A f : IsFiniteSet(Pending(f, t)) /\ Cardinality(Pending(f, t)) \in Nat
         /\ WireInv => IsFiniteSet(Sent(conn, t)) /\ Cardinality(Sent(conn, t)) \in Nat
  <1> USE Zenon
  <1>1. IsFiniteSet(Reqs) /\ IsFiniteSet(Conns)
    <2>1. 1 \in Int /\ MaxReqs \in Int /\ MaxConns \in Int
      BY DataplaneAssumption, SMT
    <2> QED  BY <2>1, FS_Interval DEF Reqs, Conns
  <1>2. \A f : Pending(f, t) \subseteq Reqs
    BY DEF Pending
  <1>3. WireInv => Sent(conn, t) \subseteq Conns
    BY DEF Sent, WireInv
  <1> QED
    BY <1>1, <1>2, <1>3, Counts

\* How the requests with a consumed ticket change when r does.
LEMMA PendingMoves ==
  ASSUME ReqInv, NEW r \in Reqs, NEW x, Moves(r, x), NEW t
  PROVE  /\ Pending(req', t) \subseteq Pending(req, t) \cup {r}
         /\ x.pc \notin Consumed => Pending(req', t) \subseteq Pending(req, t) \ {r}
         /\ x.t # t => Pending(req', t) \subseteq Pending(req, t)
         /\ x.t = req[r].t /\ req[r].pc \in Consumed => Pending(req', t) \subseteq Pending(req, t)
  <1> USE Zenon
  <1>1. req'[r] = x /\ \A q \in Reqs \ {r} : req'[q] = req[q]
    BY DEF Moves, ReqInv
  <1> QED
    BY <1>1 DEF Pending

\* What changes in the three parts of a count comes to for the whole.
LEMMA Sums ==
  ASSUME NEW a \in Nat, NEW b \in Nat, NEW c \in Nat, NEW x \in Nat, NEW y \in Nat, NEW z \in Nat
  PROVE  /\ a + b + c \in Nat /\ x + y + z \in Nat
         /\ x <= a /\ y <= b /\ z <= c => x + y + z <= a + b + c
         /\ x <= a /\ y + 1 <= b /\ z <= c + 1 => x + y + z <= a + b + c
         /\ x <= a + 1 /\ y + 1 <= b /\ z <= c => x + y + z <= a + b + c
         /\ x <= a + 1 /\ y <= b /\ z + 1 <= c => x + y + z <= a + b + c
         /\ x <= a /\ y <= b + 1 /\ z <= c => x + y + z <= a + b + c + 1
  OBVIOUS

\* The uses of a ticket do not grow, and what it owes stays owed.
LEMMA UseFewer ==
  ASSUME UseInv, NEW t \in TicketIds, Uses(ran', req', conn', t) <= Uses(ran, req, conn, t),
         Uses(ran', req', conn', t) \in Nat, Uses(ran, req, conn, t) \in Nat,
         late'[t] = late[t], Spent(t) => Spent(t)'
  PROVE  UseOk(t)'
  <1> USE Zenon
  <1>1. PICK u \in Nat, v \in Nat, m \in Nat :
            /\ u = Uses(ran, req, conn, t) /\ v = Uses(ran', req', conn', t) /\ v <= u
            /\ m = late[t] /\ m = late'[t] /\ (u <= m \/ (u <= m + 1 /\ Spent(t)))
    BY DEF UseInv, UseOk
  <1>2. v <= u
    BY <1>1
  <1>3. (u <= m => v <= m) /\ (u <= m + 1 => v <= m + 1)
    BY <1>2, SMT
  <1> QED
    BY <1>1, <1>3 DEF UseOk

\* A daemon alone never forgets a nonce without changing its secret.
LEMMA ProcsGrow ==
  ASSUME TicketInv, ReqInv, SecretInv, ~shared, [Next]_vars
  PROVE  \A p \in Procs : \/ proc'[p].gen > proc[p].gen
                          \/ proc'[p].gen = proc[p].gen /\ proc[p].used \subseteq proc'[p].used
  <1> USE Zenon
  <1>1. ASSUME NEW q \in Procs, Starts(q)
        PROVE  \A p \in Procs : proc'[p].gen = proc[p].gen /\ proc[p].used \subseteq proc'[p].used
    <2>1. /\ proc'[q].gen = proc[q].gen /\ proc'[q].used = proc[q].used
          /\ \A p \in Procs \ {q} : proc'[p] = proc[p]
      BY <1>1, StartSteps
    <2> QED  BY <2>1
  <1>2. ASSUME NEW q \in Procs, Die(q)
        PROVE  \A p \in Procs : proc'[p].gen > proc[p].gen \/ proc'[p] = proc[p]
    <2>1. proc' = [proc EXCEPT ![q] = Starting(proc[q].gen + 1)] /\ proc \in [Procs -> Proc] /\ proc[q].gen \in Nat
      BY <1>2, ProcFields DEF Die, SecretInv
    <2>2. Starting(proc[q].gen + 1).gen = proc[q].gen + 1
      BY <2>1, StartingProc, SMT
    <2> QED  BY <2>1, <2>2, SMT
  <1>3. ASSUME NEW r \in Reqs, Attempt(r)
        PROVE  \A p \in Procs : proc'[p].gen = proc[p].gen /\ proc[p].used \subseteq proc'[p].used
    BY <1>3, AttemptProcs
  <1>4. ASSUME \/ Wiring \/ UNCHANGED vars \/ Clock
               \/ \E c \in Conns : Execute(c)
               \/ \E r \in Reqs : Delivery(r)
               \/ \E t \in TicketIds : NonceExpires(t)
               \/ \E p \in Procs, t \in TicketIds : Mint(p, t)
        PROVE  UNCHANGED proc
    BY <1>4, WiringFrame, DeliveryFrame DEF Execute, vars, tvars, Clock, NonceExpires, Mint
  <1>5. UNCHANGED proc => \A p \in Procs : proc'[p].gen = proc[p].gen /\ proc[p].used \subseteq proc'[p].used
    OBVIOUS
  <1>6. CASE \E q \in Procs : Die(q)
    BY <1>2, <1>6
  <1> QED
    BY <1>1, <1>3, <1>4, <1>5, <1>6, NextCases

\* The nonce leaves the store only after the ticket has expired.
LEMMA NoncesKept ==
  ASSUME TicketInv, [Next]_vars, NEW t \in DOMAIN nonce
  PROVE  t \in DOMAIN nonce' \/ now >= ticket[t].exp
  <1> USE Zenon
  <1>1. ASSUME NEW u \in TicketIds, NonceExpires(u) PROVE t \in DOMAIN nonce' \/ now >= ticket[t].exp
    <2>1. DOMAIN nonce' = DOMAIN nonce \ {u} /\ now >= nonce[u]
      BY <1>1 DEF NonceExpires, Drop
    <2> QED  BY <2>1, SMT DEF TicketInv
  <1>2. ASSUME NEW r \in Reqs, Attempt(r) PROVE t \in DOMAIN nonce'
    <2>1. CASE UNCHANGED nonce
      BY <2>1
    <2>2. CASE nonce' = Bind(nonce, req[r].t, req[r].lease)
      BY <2>2 DEF Bind
    <2> QED  BY <1>2, <2>1, <2>2 DEF Attempt, Present, NonceLocal, NonceLease, NonceCas, tvars
  <1>3. ASSUME \/ Wiring \/ UNCHANGED vars \/ Clock
               \/ \E c \in Conns : Execute(c)
               \/ \E r \in Reqs : Delivery(r)
               \/ \E p \in Procs : Starts(p) \/ Die(p)
               \/ \E p \in Procs, u \in TicketIds : Mint(p, u)
        PROVE  UNCHANGED nonce
    BY <1>3, WiringFrame, DeliveryFrame
       DEF Execute, vars, tvars, Clock, Mint, Die, Starts, StartLocal, SecretRead, SecretCas, StartFails
  <1> QED
    BY <1>1, <1>2, <1>3, NextCases

\* A ticket that is spent stays spent.
LEMMA SpentStays ==
  ASSUME TicketInv, ReqInv, SecretInv, [Next]_vars, NEW t \in TicketIds, Spent(t)
  PROVE  Spent(t)'
  <1> USE Zenon
  <1>0. Persist /\ now \in Nat
    BY TicketSteps DEF TicketInv
  <1>1. CASE shared
    <2>1. t \in DOMAIN ticket /\ (t \in DOMAIN nonce \/ now >= ticket[t].exp) /\ ticket[t].exp \in Nat
      BY <1>1 DEF Spent, TicketInv
    <2>2. t \in DOMAIN nonce' \/ now >= ticket[t].exp
      BY <2>1, NoncesKept
    <2>3. t \in DOMAIN ticket' /\ ticket'[t] = ticket[t] /\ now' >= now /\ now' \in Nat /\ shared'
      BY <1>0, <1>1, <2>1 DEF Persist
    <2>4. t \in DOMAIN nonce' \/ now' >= ticket'[t].exp
      BY <1>0, <2>1, <2>2, <2>3, SMT
    <2> QED  BY <2>3, <2>4 DEF Spent
  <1>2. CASE ~shared
    <2>1. PICK p \in Procs, g \in Nat :
            SignedBy(t, p, g) /\ (g < proc[p].gen \/ (g = proc[p].gen /\ t \in proc[p].used))
      BY <1>2 DEF Spent
    <2>2. SignedBy(t, p, g)' /\ ~shared'
      BY <1>0, <1>2, <2>1 DEF Persist, SignedBy
    <2>3. g < proc'[p].gen \/ (g = proc'[p].gen /\ t \in proc'[p].used)
      <3>1. \/ proc'[p].gen > proc[p].gen
            \/ proc'[p].gen = proc[p].gen /\ proc[p].used \subseteq proc'[p].used
        BY <1>2, ProcsGrow
      <3>2. proc[p].gen \in Nat /\ proc'[p].gen \in Nat
        <4>1. SecretInv'
          BY SecretSteps
        <4>2. proc[p] \in Proc /\ proc'[p] \in Proc
          BY <4>1 DEF SecretInv
        <4> QED  BY <4>2, ProcFields
      <3> QED  BY <2>1, <3>1, <3>2, SMT
    <2> QED  BY <2>2, <2>3 DEF Spent
  <1> QED
    BY <1>1, <1>2

\* Steps after which no ticket has one more use.
LEMMA NoMoreUses ==
  ASSUME UseInv, WireInv, NEW t \in TicketIds, Spent(t) => Spent(t)',
         ran'[t] = ran[t], late'[t] = late[t],
         Pending(req', t) \subseteq Pending(req, t), Sent(conn', t) \subseteq Sent(conn, t)
  PROVE  UseOk(t)'
  <1> USE Zenon
  <1>1. ran[t] \in Nat /\ ran'[t] \in Nat /\ ran'[t] <= ran[t]
    BY SMT DEF UseInv
  <1>2. /\ Cardinality(Pending(req, t)) \in Nat /\ Cardinality(Sent(conn, t)) \in Nat
        /\ IsFiniteSet(Pending(req, t)) /\ IsFiniteSet(Sent(conn, t))
    BY FewUses
  <1>3. /\ Cardinality(Pending(req', t)) \in Nat /\ Cardinality(Pending(req', t)) <= Cardinality(Pending(req, t))
        /\ Cardinality(Sent(conn', t)) \in Nat /\ Cardinality(Sent(conn', t)) <= Cardinality(Sent(conn, t))
    BY <1>2, Counts
  <1>4. /\ Uses(ran', req', conn', t) \in Nat /\ Uses(ran, req, conn, t) \in Nat
        /\ Uses(ran', req', conn', t) <= Uses(ran, req, conn, t)
    BY <1>1, <1>2, <1>3, Sums DEF Uses
  <1> QED
    BY <1>4, UseFewer

\* A request or a connection hands a ticket's use on: r loses it; c gets it,
\* or one more execution of it is counted.
LEMMA UseHandedOn ==
  ASSUME UseInv, WireInv, WireInv', UNCHANGED late, NEW t \in TicketIds, Spent(t) => Spent(t)',
         ran'[t] \in Nat,
         NEW r \in Pending(req, t), Pending(req', t) \subseteq Pending(req, t) \ {r},
         NEW c,
         \/ ran'[t] <= ran[t] /\ Sent(conn', t) \subseteq Sent(conn, t) \cup {c}
         \/ ran'[t] <= ran[t] + 1 /\ Sent(conn', t) \subseteq Sent(conn, t)
  PROVE  UseOk(t)'
  <1> USE Zenon
  <1>1. ran[t] \in Nat
    BY DEF UseInv
  <1>2. /\ Cardinality(Pending(req, t)) \in Nat /\ Cardinality(Sent(conn, t)) \in Nat
        /\ IsFiniteSet(Pending(req, t)) /\ IsFiniteSet(Sent(conn, t))
    BY FewUses
  <1>3. /\ Cardinality(Pending(req', t)) \in Nat
        /\ Cardinality(Pending(req', t)) + 1 <= Cardinality(Pending(req, t))
    BY <1>2, Counts
  <1>4. CASE ran'[t] <= ran[t] /\ Sent(conn', t) \subseteq Sent(conn, t) \cup {c}
    <2>1. Cardinality(Sent(conn', t)) \in Nat /\ Cardinality(Sent(conn', t)) <= Cardinality(Sent(conn, t)) + 1
      BY <1>2, <1>4, Counts
    <2>2. /\ Uses(ran', req', conn', t) \in Nat /\ Uses(ran, req, conn, t) \in Nat
          /\ Uses(ran', req', conn', t) <= Uses(ran, req, conn, t)
      BY <1>1, <1>2, <1>3, <1>4, <2>1, Sums DEF Uses
    <2> QED  BY <2>2, UseFewer
  <1>5. CASE ran'[t] <= ran[t] + 1 /\ Sent(conn', t) \subseteq Sent(conn, t)
    <2>1. Cardinality(Sent(conn', t)) \in Nat /\ Cardinality(Sent(conn', t)) <= Cardinality(Sent(conn, t))
      BY <1>2, <1>5, Counts
    <2>2. /\ Uses(ran', req', conn', t) \in Nat /\ Uses(ran, req, conn, t) \in Nat
          /\ Uses(ran', req', conn', t) <= Uses(ran, req, conn, t)
      BY <1>1, <1>2, <1>3, <1>5, <2>1, Sums DEF Uses
    <2> QED  BY <2>2, UseFewer
  <1> QED
    BY <1>4, <1>5

\* The executions of one ticket are counted.
LEMMA RanCounted ==
  ASSUME UseInv, NEW u, NEW v, u \in TicketIds => v \in Nat, ran' = [ran EXCEPT ![u] = v]
  PROVE  /\ ran' \in [TicketIds -> Nat]
         /\ \A t \in TicketIds : ran'[t] = IF t = u THEN v ELSE ran[t]
  <1> USE Zenon
  <1>1. ran \in [TicketIds -> Nat]
    BY DEF UseInv
  <1>2. CASE u \in TicketIds
    BY <1>1, <1>2
  <1>3. CASE u \notin TicketIds
    <2>1. ran' = [t \in TicketIds |-> IF t = u THEN v ELSE ran[t]]
      BY <1>1
    <2>2. \A t \in TicketIds : (IF t = u THEN v ELSE ran[t]) = ran[t]
      BY <1>3
    <2>3. \A t \in TicketIds : ran'[t] = IF t = u THEN v ELSE ran[t]
      BY <2>1
    <2>4. \A t \in TicketIds : (IF t = u THEN v ELSE ran[t]) \in Nat
      BY <1>1, <2>2
    <2> QED  BY <2>1, <2>3, <2>4
  <1> QED
    BY <1>2, <1>3

\* handle_open executes the request that came on c: the connection's use
\* becomes an execution.
LEMMA ExecuteUses ==
  ASSUME UseInv, WireInv, NEW c \in Conns, Execute(c), \A t \in TicketIds : Spent(t) => Spent(t)'
  PROVE  UseInv'
  <1> USE Zenon
  <1>0. /\ WireInv' /\ c \in Sent(conn, conn[c].msg)
        /\ \A t : Sent(conn', t) \subseteq Sent(conn, t) /\ c \notin Sent(conn', t)
    BY ExecuteStep
  <1>1. ran' = [ran EXCEPT ![conn[c].msg] = @ + 1] /\ UNCHANGED <<req, late>>
    BY DEF Execute
  <1>2. /\ ran' \in [TicketIds -> Nat]
        /\ \A t \in TicketIds : ran'[t] = IF t = conn[c].msg THEN ran[t] + 1 ELSE ran[t]
    <2>1. PICK u, v : u = conn[c].msg /\ v = ran[u] + 1
      OBVIOUS
    <2>2. (u \in TicketIds => v \in Nat) /\ ran' = [ran EXCEPT ![u] = v]
      BY <1>1, <2>1, SMT DEF UseInv
    <2>3. ran' \in [TicketIds -> Nat] /\ \A t \in TicketIds : ran'[t] = IF t = u THEN v ELSE ran[t]
      BY <2>2, RanCounted
    <2> QED  BY <2>1, <2>3
  <1>3. ASSUME NEW t \in TicketIds
        PROVE  UseOk(t)'
    <2>1. /\ Cardinality(Pending(req, t)) \in Nat /\ Cardinality(Sent(conn, t)) \in Nat
          /\ IsFiniteSet(Pending(req, t)) /\ IsFiniteSet(Sent(conn, t))
          /\ Pending(req', t) \subseteq Pending(req, t)
      BY <1>1, FewUses
    <2>2. /\ Cardinality(Pending(req', t)) \in Nat /\ Cardinality(Pending(req', t)) <= Cardinality(Pending(req, t))
          /\ Cardinality(Sent(conn', t)) \in Nat /\ Cardinality(Sent(conn', t)) <= Cardinality(Sent(conn, t))
      BY <1>0, <2>1, Counts
    <2>3. t = conn[c].msg => Cardinality(Sent(conn', t)) + 1 <= Cardinality(Sent(conn, t))
      <3>1. SUFFICES ASSUME t = conn[c].msg PROVE Cardinality(Sent(conn', t)) + 1 <= Cardinality(Sent(conn, t))
        OBVIOUS
      <3>2. c \in Sent(conn, t) /\ Sent(conn', t) \subseteq Sent(conn, t) \ {c}
        BY <1>0, <3>1
      <3> QED  BY <2>1, <3>2, Counts
    <2>4. /\ ran[t] \in Nat /\ ran'[t] \in Nat /\ ran'[t] <= ran[t] + 1
          /\ t # conn[c].msg => ran'[t] <= ran[t]
      BY <1>2, SMT DEF UseInv
    <2>5. /\ Uses(ran', req', conn', t) \in Nat /\ Uses(ran, req, conn, t) \in Nat
          /\ Uses(ran', req', conn', t) <= Uses(ran, req, conn, t)
      BY <2>1, <2>2, <2>3, <2>4, Sums DEF Uses
    <2> QED  BY <1>1, <2>5, UseFewer
  <1>4. late' \in [TicketIds -> Nat]
    BY <1>1 DEF UseInv
  <1> QED
    BY <1>2, <1>3, <1>4 DEF UseInv

\* A ticket is consumed: it was not spent, or the consumption is a late one.
LEMMA UseOnce ==
  ASSUME UseInv, WireInv, UNCHANGED <<ran, conn>>, NEW t \in TicketIds, NEW r \in Reqs,
         Pending(req', t) \subseteq Pending(req, t) \cup {r}, Spent(t)',
         \/ late'[t] = late[t] /\ ~Spent(t)
         \/ late'[t] = late[t] + 1
  PROVE  UseOk(t)'
  <1> USE Zenon
  <1>1. /\ ran[t] \in Nat /\ ran'[t] \in Nat /\ ran'[t] <= ran[t] /\ late[t] \in Nat /\ late'[t] \in Nat
        /\ Sent(conn', t) \subseteq Sent(conn, t)
    BY SMT DEF UseInv
  <1>2. /\ Cardinality(Pending(req, t)) \in Nat /\ Cardinality(Sent(conn, t)) \in Nat
        /\ IsFiniteSet(Pending(req, t)) /\ IsFiniteSet(Sent(conn, t))
    BY FewUses
  <1>3. /\ Cardinality(Pending(req', t)) \in Nat /\ Cardinality(Pending(req', t)) <= Cardinality(Pending(req, t)) + 1
        /\ Cardinality(Sent(conn', t)) \in Nat /\ Cardinality(Sent(conn', t)) <= Cardinality(Sent(conn, t))
    BY <1>1, <1>2, Counts
  <1>4. /\ Uses(ran', req', conn', t) \in Nat /\ Uses(ran, req, conn, t) \in Nat
        /\ Uses(ran', req', conn', t) <= Uses(ran, req, conn, t) + 1
    BY <1>1, <1>2, <1>3, Sums, ZenonT(30) DEF Uses
  <1>5. PICK u \in Nat, v \in Nat, m \in Nat, n \in Nat :
            /\ u = Uses(ran, req, conn, t) /\ v = Uses(ran', req', conn', t) /\ v <= u + 1
            /\ m = late[t] /\ n = late'[t]
            /\ (u <= m \/ (u <= m + 1 /\ Spent(t))) /\ ((n = m /\ ~Spent(t)) \/ n = m + 1)
    BY <1>1, <1>4 DEF UseInv, UseOk
  <1>6. v <= u + 1 /\ ((u <= m /\ (n = m \/ n = m + 1)) \/ (u <= m + 1 /\ n = m + 1))
    BY <1>5
  <1>7. v <= n + 1
    BY <1>6, SMT
  <1> QED
    BY <1>5, <1>7 DEF UseOk

\* The insertion under the lock of a daemon alone.
LEMMA ConsumeLocal ==
  ASSUME TicketInv, ReqInv, SecretInv, NEW r \in Reqs, NonceLocal(r), ~Answer(r), NEW t, t = req[r].t
  PROVE  t \in TicketIds /\ UNCHANGED late /\ ~Spent(t) /\ Spent(t)'
  <1> USE Zenon
  <1>1. /\ req[r].pc = "nonce" /\ ~shared /\ UNCHANGED <<shared, ticket, late>>
        /\ req[r].t \notin proc[req[r].door].used
        /\ proc' = [proc EXCEPT ![req[r].door].used = @ \cup {req[r].t}]
    BY DEF NonceLocal
  <1>2. req[r].door \in Procs /\ t \in TicketIds
    BY <1>1, ReqFields DEF ReqInv, ReqOk, TicketInv
  <1>3. PICK p \in Procs : p = req[r].door
    BY <1>2
  <1>4. proc' = [proc EXCEPT ![p].used = @ \cup {t}] /\ proc \in [Procs -> Proc]
    BY <1>1, <1>3 DEF SecretInv
  <1>5. proc'[p].gen = proc[p].gen /\ t \in proc'[p].used
    <2>1. proc'[p].gen = proc[p].gen /\ proc'[p].used = proc[p].used \cup {t}
      BY <1>2, <1>4, NonceAdded
    <2> QED  BY <2>1
  <1>6. SignedBy(t, p, proc[p].gen)
    BY <1>1, <1>3 DEF ReqInv, ReqOk
  <1>7. proc[p].gen \in Nat
    BY <1>4, ProcFields
  <1>8. ~Spent(t)
    <2>1. SUFFICES ASSUME NEW q \in Procs, NEW g \in Nat, SignedBy(t, q, g),
                          g < proc[q].gen \/ (g = proc[q].gen /\ t \in proc[q].used)
                   PROVE  FALSE
      BY <1>1 DEF Spent
    <2>2. q = p /\ g = proc[p].gen
      BY <1>6, <2>1, SMT DEF SignedBy
    <2> QED  BY <1>1, <1>3, <1>7, <2>1, <2>2, SMT
  <1>9. Spent(t)'
    <2>1. SignedBy(t, p, proc[p].gen)' /\ ~shared' /\ proc'[p].gen \in Nat
      BY <1>1, <1>5, <1>6, <1>7 DEF SignedBy
    <2> QED  BY <1>5, <2>1 DEF Spent
  <1> QED
    BY <1>1, <1>2, <1>3, <1>8, <1>9

\* The compare_and_swap that binds the nonce.
LEMMA ConsumeShared ==
  ASSUME TicketInv, ReqInv, UseInv, NEW r \in Reqs, NonceCas(r), ~Answer(r), NEW t, t = req[r].t
  PROVE  /\ t \in TicketIds /\ Spent(t)' /\ late' \in [TicketIds -> Nat]
         /\ \A u \in TicketIds \ {t} : late'[u] = late[u]
         /\ \/ late'[t] = late[t] /\ ~Spent(t)
            \/ late'[t] = late[t] + 1
  <1> USE Zenon
  <1>1. /\ req[r].pc = "cas" /\ NonceFree(t) /\ UNCHANGED <<shared, ticket, now>>
        /\ nonce' = Bind(nonce, t, req[r].lease)
        /\ late' = [late EXCEPT ![t] = IF now < ticket[t].exp THEN @ ELSE @ + 1]
    BY DEF NonceCas
  <1>2. t \in DOMAIN ticket /\ shared /\ t \in TicketIds
    BY <1>1 DEF ReqInv, ReqOk, TicketInv
  <1>3. t \in DOMAIN nonce'
    BY <1>1 DEF Bind
  <1>4. Spent(t)'
    BY <1>1, <1>2, <1>3 DEF Spent
  <1>5. late \in [TicketIds -> Nat] /\ now \in Nat /\ ticket[t].exp \in Nat
    BY <1>2 DEF UseInv, TicketInv
  <1>6. CASE now < ticket[t].exp
    <2>1. ~Spent(t)
      <3>1. PICK n \in Nat, e \in Nat : n = now /\ e = ticket[t].exp /\ n < e
        BY <1>5, <1>6
      <3>2. ~(n >= e)
        BY <3>1, SMT
      <3>3. t \notin DOMAIN nonce /\ ~(now >= ticket[t].exp)
        BY <1>1, <3>1, <3>2 DEF NonceFree
      <3> QED  BY <1>2, <3>3, ZenonT(30) DEF Spent
    <2>2. late' = [late EXCEPT ![t] = late[t]]
      BY <1>1, <1>6
    <2> QED  BY <1>2, <1>4, <1>5, <2>1, <2>2
  <1>7. CASE ~(now < ticket[t].exp)
    <2>1. late' = [late EXCEPT ![t] = late[t] + 1]
      BY <1>1, <1>7
    <2> QED  BY <1>2, <1>4, <1>5, <2>1, SMT
  <1> QED
    BY <1>6, <1>7

\* An attempt consumes the ticket once, or the consumption is a late one.
LEMMA AttemptUses ==
  ASSUME TicketInv, ReqInv, SecretInv, UseInv, WireInv, WireInv', NEW r \in Reqs, Attempt(r),
         \A t \in TicketIds : Spent(t) => Spent(t)'
  PROVE  UseInv'
  <1> USE Zenon
  <1>0. /\ UNCHANGED <<ran, conn>> /\ {"serve", "route"} \subseteq ReqPcs
        /\ {"done", "nonce", "cas"} \cap Consumed = {}
    <2>1. UNCHANGED <<ran, conn>>
      BY DEF Attempt, Present, NonceLocal, NonceLease, NonceCas, wire
    <2> QED  BY <2>1 DEF ReqPcs, Consumed
  <1>1. CASE UNCHANGED late /\ \E x : Moves(r, x) /\ x.pc \in {"done", "nonce", "cas"}
    <2>1. PICK x : Moves(r, x) /\ x.pc \notin Consumed
      BY <1>0, <1>1
    <2>2. ASSUME NEW t \in TicketIds
          PROVE  UseOk(t)'
      <3>1. Pending(req', t) \subseteq Pending(req, t) /\ Sent(conn', t) \subseteq Sent(conn, t)
        BY <1>0, <2>1, PendingMoves
      <3>2. ran'[t] = ran[t] /\ late'[t] = late[t]
        BY <1>0, <1>1
      <3> QED  BY <3>1, <3>2, NoMoreUses
    <2>3. ran' \in [TicketIds -> Nat] /\ late' \in [TicketIds -> Nat]
      BY <1>0, <1>1 DEF UseInv
    <2> QED  BY <2>2, <2>3 DEF UseInv
  <1>2. CASE (NonceLocal(r) \/ NonceCas(r)) /\ ~Answer(r)
    <2>1. PICK l \in {"serve", "route"} : Step(r, l)
      BY <1>2 DEF NonceLocal, NonceCas
    <2>2. PICK x : Moves(r, x) /\ Goes(x, r, l)
      BY <1>0, <2>1, GoesOn
    <2>3. PICK t : t = req[r].t
      OBVIOUS
    <2>4. /\ t \in TicketIds /\ Spent(t)' /\ late' \in [TicketIds -> Nat]
          /\ \A u \in TicketIds \ {t} : late'[u] = late[u]
          /\ \/ late'[t] = late[t] /\ ~Spent(t)
             \/ late'[t] = late[t] + 1
      <3>1. CASE NonceCas(r)
        BY <1>2, <2>3, <3>1, ConsumeShared
      <3>2. CASE NonceLocal(r)
        <4>1. t \in TicketIds /\ UNCHANGED late /\ ~Spent(t) /\ Spent(t)'
          BY <1>2, <2>3, <3>2, ConsumeLocal
        <4> QED  BY <4>1 DEF UseInv
      <3> QED  BY <1>2, <3>1, <3>2
    <2>5. UseOk(t)'
      <3>1. Pending(req', t) \subseteq Pending(req, t) \cup {r}
        BY <2>2, PendingMoves
      <3> QED  BY <1>0, <2>4, <3>1, UseOnce
    <2>6. ASSUME NEW u \in TicketIds \ {t}
          PROVE  UseOk(u)'
      <3>1. Pending(req', u) \subseteq Pending(req, u)
        BY <2>2, <2>3, PendingMoves DEF Goes
      <3>2. ran'[u] = ran[u] /\ late'[u] = late[u] /\ Sent(conn', u) = Sent(conn, u)
        BY <1>0, <2>4
      <3> QED  BY <3>1, <3>2, NoMoreUses
    <2>7. ran' \in [TicketIds -> Nat]
      BY <1>0 DEF UseInv
    <2> QED  BY <2>4, <2>5, <2>6, <2>7 DEF UseInv
  <1>3. ASSUME UNCHANGED late, Answer(r) PROVE UseInv'
    BY <1>1, <1>3, AnswerStep
  <1>4. ASSUME NEW t \in TicketIds, NEW door \in Procs, Present(r, t, door) PROVE UseInv'
    <2>1. PICK x : Moves(r, x) /\ x.pc \in {"done", "nonce", "cas"}
      <3>1. PICK x : Moves(r, x) /\ Verified(x, t, door)
        BY <1>4, PresentStep
      <3> QED  BY <3>1 DEF Verified
    <2> QED  BY <1>1, <1>4, <2>1 DEF Present
  <1>5. CASE NonceLease(r) /\ ~Answer(r)
    <2>1. /\ req[r].pc = "nonce" /\ UNCHANGED late
          /\ req' = [req EXCEPT ![r] = [@ EXCEPT !.pc = "cas", !.lease = now + NonceTtl(req[r].t, req[r].seen)]]
      BY <1>5 DEF NonceLease
    <2>2. req[r].t \in DOMAIN ticket /\ req[r].seen \in Nat /\ req[r].seen <= now
      BY <2>1, ReqFields DEF ReqInv, ReqOk
    <2>3. PICK n \in Nat : n = now + NonceTtl(req[r].t, req[r].seen)
      BY <2>2, LeaseOutlives
    <2>4. PICK x : Moves(r, x) /\ x.pc = "cas"
      BY <2>1, <2>3, LeaseStep
    <2> QED  BY <1>1, <2>1, <2>4
  <1>6. CASE NonceCas(r) /\ Answer(r)
    <2>1. SUFFICES ASSUME ~UNCHANGED late PROVE FALSE
      BY <1>3, <1>6
    <2>2. PICK l \in {"serve", "route"} : Step(r, l)
      BY <1>6, <2>1 DEF NonceCas
    <2>3. PICK x : Moves(r, x) /\ Goes(x, r, l)
      BY <1>0, <2>2, GoesOn
    <2>4. PICK y : Moves(r, y) /\ y.pc = "done"
      BY <1>6, AnswerStep
    <2>5. x = req'[r] /\ y = req'[r]
      BY <2>3, <2>4 DEF Moves, ReqInv
    <2> QED  BY <2>3, <2>4, <2>5 DEF Goes
  <1>7. CASE NonceLocal(r) /\ Answer(r)
    BY <1>3, <1>7 DEF NonceLocal
  <1>8. CASE NonceLease(r) /\ Answer(r)
    BY <1>3, <1>8 DEF NonceLease
  <1> QED
    BY <1>2, <1>4, <1>5, <1>6, <1>7, <1>8 DEF Attempt

\* A use is handed on with the request, to an execution or a connection.
LEMMA DeliveryUses ==
  ASSUME TicketInv, ReqInv, UseInv, WireInv, NEW r \in Reqs, Delivery(r),
         \A t \in TicketIds : Spent(t) => Spent(t)'
  PROVE  UseInv'
  <1> USE Zenon
  <1>0. /\ WireInv' /\ UNCHANGED late /\ {"done", "relay"} \cap Consumed = {} /\ "relay" \in ReqPcs
        /\ late \in [TicketIds -> Nat] /\ ran \in [TicketIds -> Nat]
    <2>1. WireInv' /\ UNCHANGED late
      BY DeliveryWire, DeliveryFrame
    <2> QED  BY <2>1 DEF Consumed, ReqPcs, UseInv
  <1>1. CASE ServeLocal(r)
    <2>1. PICK u, v : u = req[r].t /\ v = IF Owner[u] = req[r].door THEN ran[u] + 1 ELSE ran[u]
      OBVIOUS
    <2>2. req[r].pc = "serve" /\ ran' = [ran EXCEPT ![u] = v] /\ Answer(r) /\ UNCHANGED conn
      BY <1>1, <2>1 DEF ServeLocal, wire
    <2>3. u \in TicketIds /\ req[r].pc \in Consumed
      BY <2>1, <2>2 DEF ReqInv, ReqOk, TicketInv, Consumed
    <2>4. v \in Nat /\ v <= ran[u] + 1
      BY <1>0, <2>1, <2>3, SMT
    <2>5. ran' \in [TicketIds -> Nat] /\ \A t \in TicketIds : ran'[t] = IF t = u THEN v ELSE ran[t]
      BY <2>2, <2>4, RanCounted
    <2>6. PICK x : Moves(r, x) /\ x.pc = "done"
      BY <2>2, AnswerStep
    <2>7. \A t : Pending(req', t) \subseteq Pending(req, t) \ {r}
      BY <1>0, <2>6, PendingMoves
    <2>8. ASSUME NEW t \in TicketIds
          PROVE  UseOk(t)'
      <3>1. CASE t = u
        <4>1. r \in Pending(req, t) /\ Sent(conn', t) \subseteq Sent(conn, t)
          BY <2>1, <2>2, <2>3, <3>1 DEF Pending
        <4>2. ran'[t] \in Nat /\ ran'[t] <= ran[t] + 1
          BY <2>4, <2>5, <3>1
        <4> QED  BY <1>0, <2>7, <4>1, <4>2, UseHandedOn, ZenonT(30)
      <3>2. CASE t # u
        <4>1. /\ ran'[t] = ran[t] /\ late'[t] = late[t]
              /\ Pending(req', t) \subseteq Pending(req, t) /\ Sent(conn', t) \subseteq Sent(conn, t)
          BY <1>0, <2>2, <2>5, <2>7, <3>2
        <4> QED  BY <4>1, NoMoreUses
      <3> QED  BY <3>1, <3>2
    <2> QED  BY <1>0, <2>5, <2>8 DEF UseInv
  <1>2. ASSUME Write(r), Step(r, "relay"), NEW d,
               \A t : Sent(conn', t) \subseteq Sent(conn, t) \cup (IF t = req[r].t THEN {d} ELSE {})
        PROVE  UseInv'
    <2>1. req[r].pc = "write" /\ UNCHANGED ran
      BY <1>2 DEF Write, Close
    <2>2. req[r].pc \in Consumed
      BY <2>1 DEF Consumed
    <2>3. PICK x : Moves(r, x) /\ Goes(x, r, "relay")
      BY <1>0, <1>2, GoesOn
    <2>4. \A t : Pending(req', t) \subseteq Pending(req, t) \ {r}
      <3>1. x.pc \notin Consumed
        BY <1>0, <2>3 DEF Goes
      <3> QED  BY <2>3, <3>1, PendingMoves
    <2>5. ASSUME NEW t \in TicketIds
          PROVE  UseOk(t)'
      <3>1. ran'[t] <= ran[t] /\ ran'[t] = ran[t] /\ ran'[t] \in Nat /\ late'[t] = late[t]
        BY <1>0, <2>1, SMT
      <3>2. CASE t = req[r].t
        <4>1. r \in Pending(req, t) /\ Sent(conn', t) \subseteq Sent(conn, t) \cup {d}
          BY <1>2, <2>2, <3>2 DEF Pending
        <4> QED  BY <1>0, <2>4, <3>1, <4>1, UseHandedOn
      <3>3. CASE t # req[r].t
        <4>1. Pending(req', t) \subseteq Pending(req, t) /\ Sent(conn', t) \subseteq Sent(conn, t)
          BY <1>2, <2>4, <3>3
        <4> QED  BY <3>1, <4>1, NoMoreUses
      <3> QED  BY <3>2, <3>3
    <2>6. ran' \in [TicketIds -> Nat] /\ late' \in [TicketIds -> Nat]
      BY <1>0, <2>1
    <2> QED  BY <2>5, <2>6 DEF UseInv
  <1>3. CASE ~ServeLocal(r) /\ \A t : Sent(conn', t) \subseteq Sent(conn, t)
    <2>1. UNCHANGED ran
      BY <1>3 DEF Delivery, Route, Take, TakeWait, TakeFrom, Write, Relay, Close, wire
    <2>2. \A t : Pending(req', t) \subseteq Pending(req, t)
      <3>1. CASE UNCHANGED req
        BY <3>1
      <3>2. ASSUME NEW x, Moves(r, x),
                   \/ x.pc \in {"done", "relay"}
                   \/ x.t = req[r].t /\ req[r].pc \in Consumed
            PROVE  \A t : Pending(req', t) \subseteq Pending(req, t)
        <4>1. x.pc \notin Consumed \/ (x.t = req[r].t /\ req[r].pc \in Consumed)
          BY <3>2 DEF Consumed
        <4> QED  BY <3>2, <4>1, PendingMoves
      <3> QED  BY <3>1, <3>2, DeliveryStep
    <2>3. ASSUME NEW t \in TicketIds
          PROVE  UseOk(t)'
      <3>1. ran'[t] = ran[t] /\ late'[t] = late[t]
        BY <1>0, <2>1
      <3> QED  BY <1>3, <2>2, <3>1, NoMoreUses
    <2>4. ran' \in [TicketIds -> Nat] /\ late' \in [TicketIds -> Nat]
      BY <1>0, <2>1
    <2> QED  BY <2>3, <2>4 DEF UseInv
  <1>4. \/ \A t : Sent(conn', t) \subseteq Sent(conn, t)
        \/ /\ Write(r) /\ Step(r, "relay")
           /\ \E d : \A t : Sent(conn', t) \subseteq Sent(conn, t) \cup (IF t = req[r].t THEN {d} ELSE {})
    BY DeliveryWire
  <1> QED
    BY <1>1, <1>2, <1>3, <1>4

\* Every step keeps the count of a ticket's uses.
LEMMA UseSteps ==
  ASSUME TicketInv, ReqInv, SecretInv, UseInv, WireInv, [Next]_vars
  PROVE  UseInv'
  <1> USE Zenon
  <1>0. WireInv' /\ \A t \in TicketIds : Spent(t) => Spent(t)'
    BY WireSteps, SpentStays
  <1>1. ASSUME UNCHANGED <<ran, late>>,
               \A t \in TicketIds : Pending(req', t) \subseteq Pending(req, t) /\ Sent(conn', t) \subseteq Sent(conn, t)
        PROVE  UseInv'
    <2>1. ASSUME NEW t \in TicketIds
          PROVE  UseOk(t)'
      <3>1. ran'[t] = ran[t] /\ late'[t] = late[t]
        BY <1>1
      <3> QED  BY <1>0, <1>1, <3>1, NoMoreUses
    <2>2. ran' \in [TicketIds -> Nat] /\ late' \in [TicketIds -> Nat]
      BY <1>1 DEF UseInv
    <2> QED  BY <2>1, <2>2 DEF UseInv
  <1>2. CASE UNCHANGED dvars \/ UNCHANGED vars
    <2>1. UNCHANGED <<ran, late, req, conn>>
      BY <1>2 DEF vars, dvars, wire
    <2> QED  BY <1>1, <2>1
  <1>3. ASSUME NEW p \in Procs, Die(p) PROVE UseInv'
    <2>1. PICK d : d.pc = "done" /\ d = [Idle EXCEPT !.pc = "done"]
      BY DoneReq
    <2>2. \A q \in Reqs : req'[q] = IF req[q].door = p /\ req[q].pc # "idle" THEN d ELSE req[q]
      BY <1>3, <2>1 DEF Die
    <2>3. \A t : Pending(req', t) \subseteq Pending(req, t)
      <3>1. \A q \in Reqs : req'[q].pc \in Consumed => req'[q] = req[q]
        BY <2>1, <2>2 DEF Consumed
      <3> QED  BY <3>1 DEF Pending
    <2>4. \A t : Sent(conn', t) \subseteq Sent(conn, t)
      BY <1>3, DieWire
    <2> QED  BY <1>1, <1>3, <2>3, <2>4 DEF Die
  <1>4. CASE Wiring
    <2>1. UNCHANGED <<ran, late, req>> /\ \A t \in TicketIds : Sent(conn', t) \subseteq Sent(conn, t)
      BY <1>4, WiringFrame, WiringStep
    <2>2. \A t : Pending(req', t) = Pending(req, t)
      BY <2>1
    <2> QED  BY <1>1, <2>1, <2>2
  <1>5. ASSUME NEW c \in Conns, Execute(c) PROVE UseInv'
    BY <1>0, <1>5, ExecuteUses
  <1>6. ASSUME NEW r \in Reqs, Attempt(r) \/ Delivery(r) PROVE UseInv'
    BY <1>0, <1>6, AttemptUses, DeliveryUses
  <1> QED
    BY <1>2, <1>3, <1>4, <1>5, <1>6, NextCases

-----------------------------------------------------------------------------
\* The first state: no ticket has been used.
LEMMA UseInit ==
  ASSUME Init
  PROVE  UseInv
  <1> USE Zenon
  <1>1. /\ \A t \in TicketIds : ran[t] = 0 /\ late[t] = 0
        /\ ran \in [TicketIds -> Nat] /\ late \in [TicketIds -> Nat]
    BY DEF Init
  <1>2. \A t : Pending(req, t) = {} /\ Sent(conn, t) = {}
    <2>1. \A r \in Reqs : req[r].pc = "idle"
      BY IdleReq DEF Init
    <2>2. DOMAIN conn = {}
      BY DEF Init, EmptyMap
    <2> QED  BY <2>1, <2>2 DEF Pending, Sent, Consumed
  <1>3. Cardinality({}) = 0
    BY FS_EmptySet
  <1>4. \A t \in TicketIds : Uses(ran, req, conn, t) = 0
    BY <1>1, <1>2, <1>3, SMT DEF Uses
  <1>5. \A t \in TicketIds : Uses(ran, req, conn, t) <= late[t]
    BY <1>1, <1>4, SMT
  <1> QED  BY <1>1, <1>5 DEF UseInv, UseOk

\* The count holds in every state of every run of gateway and agents.
LEMMA UseHolds == Spec => [](DataplaneInv /\ UseInv)
  <1>1. DataplaneInv /\ UseInv /\ [Next]_vars => UseInv'
    BY UseSteps, Zenon DEF DataplaneInv
  <1> QED
    BY <1>1, DataplaneHolds, UseInit, PTL DEF Spec

\* A ticket runs its request once, and once more only for a compare_and_swap
\* that the server applied after the ticket had expired.
THEOREM TicketsRunOnce == Spec => []TicketOnce
  <1> USE Zenon
  <1>1. DataplaneInv /\ UseInv => TicketOnce
    <2>1. SUFFICES ASSUME DataplaneInv, UseInv, NEW t \in TicketIds PROVE ran[t] <= 1 + late[t]
      BY DEF TicketOnce
    <2>2. ran[t] \in Nat /\ late[t] \in Nat /\ Uses(ran, req, conn, t) <= late[t] + 1
      <3>1. /\ ran[t] \in Nat /\ late[t] \in Nat
            /\ Uses(ran, req, conn, t) <= late[t] \/ Uses(ran, req, conn, t) <= late[t] + 1
        BY <2>1 DEF UseInv, UseOk
      <3>2. Cardinality(Pending(req, t)) \in Nat /\ Cardinality(Sent(conn, t)) \in Nat
        BY <2>1, FewUses DEF DataplaneInv
      <3> QED  BY <3>1, <3>2, SMT DEF Uses
    <2>3. Cardinality(Pending(req, t)) \in Nat /\ Cardinality(Sent(conn, t)) \in Nat
      BY <2>1, FewUses DEF DataplaneInv
    <2> QED  BY <2>2, <2>3, SMT DEF Uses
  <1> QED
    BY <1>1, UseHolds, PTL
=============================================================================
