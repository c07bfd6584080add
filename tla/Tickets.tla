------------------------------ MODULE Tickets ------------------------------
(***************************************************************************)
(* One-time signed tickets (gateway.rs).  In a cluster every process takes *)
(* the secret from the store and consumes nonces by compare_and_swap in    *)
(* it; a single daemon has a random secret and a set of its own.           *)
(*                                                                         *)
(*   shared    the cluster mode (Gateway::new_shared) or new_random        *)
(*   gwSecret  the key cluster/gw_secret                                   *)
(*   proc      per process: [pc, gen, secret, used], used the local set    *)
(*   ticket    minted tickets: [secret it is signed with, exp], the nonce  *)
(*             is the ticket itself                                        *)
(*   nonce     keys gw/nonce/<nonce> with the expiry of their lease        *)
(*   now       the clock, in seconds                                       *)
(* A signature is the secret it was made with: it verifies under no other. *)
(***************************************************************************)
EXTENDS Naturals, Maps

CONSTANTS Procs, TicketIds, Ttls, NoSecret,
          MaxTime,     \* bound: the clock stops here
          MaxStarts    \* bound on failed starts and restarts, per process

ASSUME TicketsAssumption ==
    /\ Ttls \subseteq Nat /\ MaxTime \in Nat /\ MaxStarts \in [Procs -> Nat]
    /\ NoSecret \notin Procs \X Nat

VARIABLES shared, gwSecret, proc, ticket, nonce, now

tvars == <<shared, gwSecret, proc, ticket, nonce, now>>

Starting(gen) == [pc |-> "start", gen |-> gen, secret |-> NoSecret, used |-> {}]

TicketsInit ==
    /\ shared \in BOOLEAN /\ gwSecret = NoSecret
    /\ proc = [p \in Procs |-> Starting(0)]
    /\ ticket = EmptyMap /\ nonce = EmptyMap /\ now = 0

Ready(p) == proc[p].pc = "ready"

\* host_random: a fresh value at every start of every process.
Random(p) == <<p, proc[p].gen>>

Adopt(p, s) == proc' = [proc EXCEPT ![p] = [@ EXCEPT !.pc = "ready", !.secret = s]]

\* Gateway::new_random.
StartLocal(p) ==
    /\ ~shared /\ proc[p].pc = "start"
    /\ Adopt(p, Random(p))
    /\ UNCHANGED <<shared, gwSecret, ticket, nonce, now>>

\* ensure_gw_secret, the first read, and the read of a process that lost.
SecretRead(p) ==
    /\ shared /\ proc[p].pc \in {"start", "reread"}
    /\ IF gwSecret # NoSecret THEN Adopt(p, gwSecret)
       ELSE proc[p].pc = "start" /\ proc' = [proc EXCEPT ![p].pc = "cas"]
    /\ UNCHANGED <<shared, gwSecret, ticket, nonce, now>>

\* Mutant of SecretCas: the secret is put without a comparison.
SecretCasBlind(p) ==
    /\ proc[p].pc = "cas"
    /\ gwSecret' = Random(p) /\ Adopt(p, Random(p))
    /\ UNCHANGED <<shared, ticket, nonce, now>>

SecretCas(p) ==
    /\ proc[p].pc = "cas"
    /\ IF gwSecret = NoSecret THEN gwSecret' = Random(p) /\ Adopt(p, Random(p))
       ELSE proc' = [proc EXCEPT ![p].pc = "reread"] /\ UNCHANGED gwSecret
    /\ UNCHANGED <<shared, ticket, nonce, now>>

\* A store error ends the start; the compare_and_swap may have been applied.
StartFails(p) ==
    /\ shared /\ proc[p].pc \in {"start", "cas", "reread"} /\ proc[p].gen < MaxStarts[p]
    /\ \/ UNCHANGED gwSecret
       \/ proc[p].pc = "cas" /\ gwSecret = NoSecret /\ gwSecret' = Random(p)
    /\ proc' = [proc EXCEPT ![p] = Starting(proc[p].gen + 1)]
    /\ UNCHANGED <<shared, ticket, nonce, now>>

\* Gateway::mint for a client (mint_ticket) or for a relay (relay_via_gw).
Mint(p, t) ==
    /\ Ready(p) /\ t \notin DOMAIN ticket
    /\ \E ttl \in Ttls : ticket' = Bind(ticket, t, [secret |-> proc[p].secret, exp |-> now + ttl])
    /\ UNCHANGED <<shared, gwSecret, proc, nonce, now>>

\* The HMAC of the payload under secret s is the signature of t.
Verifies(s, t) == ticket[t].secret = s

\* verify, up to the consumption of the nonce.
Signed(p, t) == Verifies(proc[p].secret, t) /\ now < ticket[t].exp

Larger(a, b) == IF a > b THEN a ELSE b

\* Mutant of NonceTtl: the subtraction is off by one.
NonceTtlShort(t, seen) == Larger(ticket[t].exp - seen - 1, 1)

\* Life of the lease granted for a nonce: (exp - now).max(1).
NonceTtl(t, seen) == Larger(ticket[t].exp - seen, 1)

\* compare_and_swap(nonce_key, None, "1", lease): refused when the key is
\* there; an error when the lease is gone by then.
NonceFree(t) == t \notin DOMAIN nonce

\* The etcd server deletes the key some time after its lease has run out.
NonceExpires(t) ==
    /\ t \in DOMAIN nonce /\ now >= nonce[t]
    /\ nonce' = Drop(nonce, {t})
    /\ UNCHANGED <<shared, gwSecret, proc, ticket, now>>

Clock ==
    /\ now < MaxTime /\ now' = now + 1
    /\ UNCHANGED <<shared, gwSecret, proc, ticket, nonce>>

\* All processes that are up verify what any of them signed: whoever loses
\* the race of ensure_gw_secret, or repeats a start whose answer was lost,
\* ends with the secret of the first writer.
SecretsAgree ==
    shared => \A p \in Procs : Ready(p) => proc[p].secret = gwSecret
=============================================================================
