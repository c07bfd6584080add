--------------------------- MODULE Cluster_proofs ---------------------------
(***************************************************************************)
(* Proofs about Cluster, for any nodes, capacities, quota, number of       *)
(* request threads, of sandboxes and of faults:                            *)
(*   - the quota is exceeded by overlapping creates only (QuotaBounded);   *)
(*   - a project key follows every relayed create (TagsFollow);            *)
(*   - listeners end with their sandbox (ListenersStopped);                *)
(*   - a live sandbox loses its record to the idle timer or to a leader    *)
(*     elsewhere (LiveRecordLost).                                         *)
(* The four rest on Shape, and on one strengthening each.                  *)
(***************************************************************************)
EXTENDS Cluster, FiniteSetTheorems, TLAPS

Pcs == {"idle", "make", "relay", "tag", "delete", "drop", "expose", "listen"}

Ops == {"none", "create", "delete", "expose"}

Requests ==
    [pc : Pcs, op : Ops, at : Nodes \cup {None}, to : Nodes \cup {None}, sid : Nat]

Listeners == [at : Nodes, sid : Nat, reg : BOOLEAN, stray : BOOLEAN]

\* What the program counter of a request says of the rest of it.
Phase(q) ==
    \/ q.pc = "idle" /\ q.op = "none"
    \/ q.pc \in {"make", "relay"} /\ q.op = "create" /\ q.sid = None /\ q.at \in Nodes /\ q.to \in Nodes
    \/ q.pc = "tag" /\ q.op = "create" /\ q.sid \in 1..made /\ q.at \in Nodes
    \/ /\ q.pc \in {"delete", "drop", "expose", "listen"} /\ q.op # "create"
       /\ q.at = q.to /\ q.to \in Nodes

\* Sandbox ids are handed out in order, so no key is older than its sandbox.
Shape ==
    /\ made \in Nat /\ overlaps \in Nat
    /\ live \in [Nodes -> SUBSET (1..made)]
    /\ DOMAIN owner \subseteq 1..made /\ \A s \in DOMAIN owner : owner[s] \in Nodes
    /\ tags \subseteq 1..made /\ bare \subseteq 1..made
    /\ req \in [Reqs -> Requests] /\ \A r \in Reqs : Phase(req[r])
    /\ lsn \subseteq Listeners

InProgress == {r \in Reqs : Passed(r)}

\* A create that passed its check holds a place until it is counted.
QuotaInv == Cardinality(Counted) + Cardinality(InProgress) <= Quota + overlaps

\* A key without a lease belongs to a sandbox without a record.
TagsInv == TagsFollow /\ bare \cap DOMAIN owner = {}

\* A sandbox runs on one node, the one its record names.
RecordInv ==
    /\ LiveRecordLost
    /\ \A m, n \in Nodes : m # n => live[m] \cap live[n] = {}
    /\ \A n \in Nodes : \A s \in live[n] \cap DOMAIN owner : owner[s] = n

-----------------------------------------------------------------------------
\* The ids in use stay in use when another one is handed out.
LEMMA RegisterShape ==
  ASSUME Shape, NEW n \in Nodes, Register(n)
  PROVE  /\ made' \in Nat /\ made' = made + 1 /\ made' \notin 1..made
         /\ 1..made \subseteq 1..made' /\ made' \in 1..made'
         /\ live' \in [Nodes -> SUBSET (1..made')]
         /\ \A m \in Nodes : live'[m] = IF m = n THEN live[m] \cup {made'} ELSE live[m]
         /\ DOMAIN owner' = DOMAIN owner \cup {made'}
         /\ \A s \in DOMAIN owner' : owner'[s] = IF s = made' THEN n ELSE owner[s]
         /\ \A s \in DOMAIN owner' : s \in 1..made' /\ owner'[s] \in Nodes
  <1> USE Zenon
  <1>1. made \in Nat /\ made' = made + 1
    BY DEF Shape, Register
  <1>2. made' \in Nat /\ made' \notin 1..made /\ 1..made \subseteq 1..made' /\ made' \in 1..made'
    BY <1>1, SMT
  <1>3. /\ live' \in [Nodes -> SUBSET (1..made')]
        /\ \A m \in Nodes : live'[m] = IF m = n THEN live[m] \cup {made'} ELSE live[m]
    BY <1>2 DEF Shape, Register
  <1>4. /\ DOMAIN owner' = DOMAIN owner \cup {made'}
        /\ \A s \in DOMAIN owner' : owner'[s] = IF s = made' THEN n ELSE owner[s]
    BY DEF Register, Bind
  <1> QED
    BY <1>1, <1>2, <1>3, <1>4 DEF Shape

\* Listeners stay listeners when they are dropped or lost.
LEMMA ListenersShape ==
  ASSUME lsn \subseteq Listeners, NEW n, NEW S
  PROVE  Dropped(n, S) \subseteq Listeners /\ Strays(n, S) \subseteq Listeners
  BY Zenon DEF Listeners, Dropped, Strays, Of

\* An answered request is idle, the others are as they were.
LEMMA AnswerShape ==
  ASSUME Shape, NEW r \in Reqs, Answer(r), made' \in Nat, 1..made \subseteq 1..made'
  PROVE  /\ req' \in [Reqs -> Requests] /\ \A q \in Reqs : Phase(req[q])'
         /\ req'[r] = Idle /\ \A q \in Reqs \ {r} : req'[q] = req[q]
  <1> USE Zenon
  <1>0. None \in Nat
    BY DEF None
  <1>1. Idle \in Requests /\ Idle.pc = "idle" /\ Idle.op = "none"
    BY <1>0 DEF Idle, Requests, Pcs, Ops
  <1>2. req'[r] = Idle /\ \A q \in Reqs \ {r} : req'[q] = req[q]
    BY DEF Answer, Shape
  <1>3. req' \in [Reqs -> Requests]
    BY <1>1 DEF Answer, Shape
  <1>4. ASSUME NEW q \in Reqs PROVE Phase(req[q])'
    BY <1>1, <1>2, SMT DEF Shape, Phase
  <1> QED
    BY <1>2, <1>3, <1>4

\* Moving on within a delete or an expose.
LEMMA GotoShape ==
  ASSUME Shape, NEW r \in Reqs, NEW pc \in {"drop", "listen"}, Goto(r, pc),
         req[r].pc \in {"delete", "expose"}, UNCHANGED made
  PROVE  /\ req' \in [Reqs -> Requests] /\ \A q \in Reqs : Phase(req[q])'
         /\ req'[r].pc = pc /\ req'[r].op = req[r].op
         /\ req'[r].to = req[r].to /\ req'[r].sid = req[r].sid
         /\ \A q \in Reqs \ {r} : req'[q] = req[q]
  <1> USE Zenon
  <1>1. req[r] \in Requests /\ Phase(req[r])
    BY DEF Shape
  <1>2. \A q \in Reqs \ {r} : req'[q] = req[q]
    BY DEF Goto, Shape
  <1>a. req'[r] = [req[r] EXCEPT !.pc = pc]
    BY DEF Goto, Shape
  <1>b. req'[r] = [pc |-> pc, op |-> req[r].op, at |-> req[r].at, to |-> req[r].to, sid |-> req[r].sid]
    BY <1>1, <1>a DEF Requests
  <1>3. /\ req'[r].pc = pc /\ req'[r].op = req[r].op /\ req'[r].at = req[r].at
        /\ req'[r].to = req[r].to /\ req'[r].sid = req[r].sid
    BY <1>b, SMT
  <1>4. req'[r] \in Requests
    BY <1>1, <1>b, SMT DEF Requests, Pcs
  <1>5. req' \in [Reqs -> Requests]
    BY <1>4 DEF Goto, Shape
  <1>6. Phase(req[r])'
    BY <1>1, <1>3 DEF Phase
  <1>7. ASSUME NEW q \in Reqs PROVE Phase(req[q])'
    BY <1>2, <1>6, SMT DEF Shape, Phase
  <1> QED
    BY <1>2, <1>3, <1>5, <1>7

\* Every request is in its phase after each step, and every id is known.
LEMMA ShapeStep == Shape /\ [Next]_vars => Shape'
  <1> USE Zenon
  <1> SUFFICES ASSUME Shape, [Next]_vars PROVE Shape'
    OBVIOUS
  <1>0. made \in Nat /\ 1..made \subseteq 1..made
    BY DEF Shape
  <1>1. ASSUME NEW r \in Reqs, NEW n \in Nodes, Create(r, n) PROVE Shape'
    <2>1. PICK to \in Nodes, pc \in {"make", "relay"} :
            req' = [req EXCEPT ![r] = [pc |-> pc, op |-> "create", at |-> n, to |-> to, sid |-> None]]
      BY <1>1 DEF Create
    <2>2. None \in Nat
      BY DEF None
    <2>3. [pc |-> pc, op |-> "create", at |-> n, to |-> to, sid |-> None] \in Requests
      BY <2>2 DEF Requests, Pcs, Ops
    <2>4. req' \in [Reqs -> Requests] /\ \A q \in Reqs : Phase(req[q])'
      BY <1>1, <2>1, <2>3, SMT DEF Create, Shape, Phase
    <2>5. overlaps' \in Nat
      BY <1>1, SMT DEF Create, Shape
    <2> QED
      BY <1>1, <2>4, <2>5 DEF Create, Shape, store
  <1>2. ASSUME NEW r \in Reqs, Make(r) PROVE Shape'
    <2>1. Answer(r) /\ req[r].at \in Nodes /\ UNCHANGED <<bare, lsn, overlaps>>
      BY <1>2 DEF Make, Shape, Phase
    <2>2. CASE Register(req[r].at) /\ tags' \subseteq tags \cup {made'}
      <3>1. req' \in [Reqs -> Requests] /\ \A q \in Reqs : Phase(req[q])'
        BY <2>1, <2>2, RegisterShape, AnswerShape
      <3> QED
        BY <2>1, <2>2, <3>1, RegisterShape DEF Shape
    <2>3. CASE UNCHANGED <<live, owner, made, tags>>
      <3>1. req' \in [Reqs -> Requests] /\ \A q \in Reqs : Phase(req[q])'
        BY <1>0, <2>1, <2>3, AnswerShape
      <3> QED
        BY <2>1, <2>3, <3>1 DEF Shape
    <2> QED
      BY <1>2, <2>2, <2>3 DEF Make
  <1>3. ASSUME NEW r \in Reqs, RelayCreate(r) PROVE Shape'
    <2>1. /\ req[r] \in Requests /\ req[r].at \in Nodes /\ req[r].to \in Nodes /\ req[r].op = "create"
          /\ UNCHANGED <<tags, bare, lsn, overlaps>>
      BY <1>3 DEF RelayCreate, CreateThere, Shape, Phase, hist
    <2>2. CASE Register(req[r].to) /\ req' = [req EXCEPT ![r].pc = "tag", ![r].sid = made']
      <3>1. req'[r] = [[req[r] EXCEPT !.pc = "tag"] EXCEPT !.sid = made'] /\ \A q \in Reqs \ {r} : req'[q] = req[q]
        BY <2>2 DEF Shape
      <3>2. req'[r] = [pc |-> "tag", op |-> req[r].op, at |-> req[r].at, to |-> req[r].to, sid |-> made']
        BY <2>1, <3>1 DEF Requests
      <3>3. req'[r] \in Requests /\ Phase(req[r])'
        BY <2>1, <2>2, <3>2, RegisterShape, SMT DEF Requests, Pcs, Phase
      <3>4. req' \in [Reqs -> Requests]
        BY <2>2, <3>3 DEF Shape
      <3>5. \A q \in Reqs : Phase(req[q])'
        BY <2>1, <2>2, <3>1, <3>3, RegisterShape, SMT DEF Shape, Phase
      <3> QED
        BY <2>1, <2>2, <3>4, <3>5, RegisterShape DEF Shape
    <2>3. CASE Answer(r) /\ UNCHANGED <<live, owner, made>>
      <3>1. req' \in [Reqs -> Requests] /\ \A q \in Reqs : Phase(req[q])'
        BY <1>0, <2>3, AnswerShape
      <3> QED
        BY <2>1, <2>3, <3>1 DEF Shape
    <2> QED
      BY <1>3, <2>2, <2>3 DEF RelayCreate, CreateThere
  <1>4. ASSUME NEW r \in Reqs, Tag(r) PROVE Shape'
    <2>1. req' \in [Reqs -> Requests] /\ \A q \in Reqs : Phase(req[q])'
      BY <1>0, <1>4, AnswerShape DEF Tag
    <2>2. req[r].sid \in 1..made
      BY <1>4 DEF Tag, Shape, Phase
    <2> QED
      BY <1>4, <2>1, <2>2 DEF Tag, PutTag, Shape
  <1>5. ASSUME NEW r \in Reqs, NEW n \in Nodes, NEW s, NEW op \in {"delete", "expose"}, Request(r, n, op, s)
        PROVE  Shape'
    <2>1. Serves(n, s) \in Nodes /\ s \in 1..made
      BY <1>5 DEF Request, Authorized, Serves, Shape
    <2> DEFINE new == [pc |-> op, op |-> op, at |-> Serves(n, s), to |-> Serves(n, s), sid |-> s]
    <2>2. new \in Requests
      BY <2>1, <1>0, SMT DEF Requests, Pcs, Ops
    <2>3. new.pc = op /\ new.op = op /\ new.at = new.to /\ new.to \in Nodes
      BY <2>1
    <2>4. req' = [req EXCEPT ![r] = new] /\ UNCHANGED <<live, store, lsn, made, overlaps>>
      BY <1>5 DEF Request, hist
    <2> HIDE DEF new
    <2>5. req' \in [Reqs -> Requests] /\ \A q \in Reqs : Phase(req[q])'
      BY <2>2, <2>3, <2>4, SMT DEF Shape, Phase
    <2> QED
      BY <2>4, <2>5 DEF Shape, store
  <1>6. ASSUME NEW r \in Reqs, Destroy(r) PROVE Shape'
    <2>1. req' \in [Reqs -> Requests] /\ \A q \in Reqs : Phase(req[q])'
      BY <1>0, <1>6, AnswerShape, GotoShape DEF Destroy
    <2>2. lsn' \subseteq Listeners
      BY <1>6, ListenersShape, SMT DEF Destroy, Shape
    <2>3. /\ live' \in [Nodes -> SUBSET (1..made)] /\ tags' \subseteq tags
          /\ DOMAIN owner' \subseteq DOMAIN owner /\ \A s \in DOMAIN owner' : owner'[s] = owner[s]
      BY <1>6, SMT DEF Destroy, Leave, Forget, Drop, Shape
    <2> QED
      BY <1>6, <2>1, <2>2, <2>3 DEF Destroy, Shape
  <1>7. ASSUME NEW r \in Reqs, DropExposes(r) \/ Lookup(r) PROVE Shape'
    <2>1. req' \in [Reqs -> Requests] /\ \A q \in Reqs : Phase(req[q])'
      BY <1>0, <1>7, AnswerShape, GotoShape DEF DropExposes, Lookup
    <2>2. lsn' \subseteq Listeners
      BY <1>7, ListenersShape, SMT DEF DropExposes, Lookup, Shape
    <2> QED
      BY <1>7, <2>1, <2>2, ZenonT(30) DEF DropExposes, Lookup, Shape, store, hist
  <1>8. ASSUME NEW r \in Reqs, Listen(r) PROVE Shape'
    <2>1. req' \in [Reqs -> Requests] /\ \A q \in Reqs : Phase(req[q])'
      BY <1>0, <1>8, AnswerShape, ZenonT(30) DEF Listen
    <2>2. req[r].to \in Nodes /\ req[r].sid \in Nat
      BY <1>8 DEF Listen, Shape, Phase, Requests
    <2>3. lsn' \subseteq Listeners
      <3> DEFINE n == req[r].to
                 s == req[r].sid
                 gone == s \notin live[n] /\ ~Dropping(n, s)
                 old == {l \in Of(n, {s}) : l.reg}
                 new == [at |-> n, sid |-> s, reg |-> TRUE, stray |-> gone]
                 lost == {[l EXCEPT !.reg = FALSE, !.stray = TRUE] : l \in old}
      <3>1. lsn' = (lsn \ old) \cup lost \cup {new}
        BY <1>8 DEF Listen
      <3>2. gone \in BOOLEAN
        OBVIOUS
      <3> HIDE DEF gone
      <3>3. new \in Listeners
        BY <2>2, <3>2 DEF Listeners
      <3>4. \A l \in Listeners : [l EXCEPT !.reg = FALSE, !.stray = TRUE] \in Listeners
        BY DEF Listeners
      <3>5. old \subseteq Listeners
        BY DEF Of, Shape
      <3> HIDE DEF old, new
      <3> QED
        BY <3>1, <3>3, <3>4, <3>5 DEF Shape
    <2> QED
      BY <1>8, <2>1, <2>3 DEF Listen, Shape, store, hist
  <1>9. ASSUME NEW n \in Nodes, NEW s, Unexpose(n, s) PROVE Shape'
    <2>1. lsn' \subseteq Listeners
      BY <1>9, ListenersShape DEF Unexpose, Shape
    <2> QED
      BY <1>9, <2>1 DEF Unexpose, Shape, Phase, store, hist
  <1>10. ASSUME NEW n \in Nodes, Reaper(n) PROVE Shape'
    <2>1. lsn' \subseteq Listeners
      BY <1>10, ListenersShape DEF Reaper, Shape
    <2>2. /\ live' \in [Nodes -> SUBSET (1..made)] /\ tags' \subseteq tags
          /\ DOMAIN owner' \subseteq DOMAIN owner /\ \A s \in DOMAIN owner' : owner'[s] = owner[s]
      BY <1>10, SMT DEF Reaper, Leave, Forget, Drop, Shape
    <2> QED
      BY <1>10, <2>1, <2>2 DEF Reaper, Shape, Phase
  <1>11. ASSUME NEW n \in Nodes, Die(n) PROVE Shape'
    <2>1. Idle \in Requests /\ Idle.pc = "idle" /\ Idle.op = "none"
      <3>1. None \in Nat
        BY DEF None
      <3> QED
        BY <3>1 DEF Idle, Requests, Pcs, Ops
    <2>2. req' \in [Reqs -> Requests] /\ \A q \in Reqs : Phase(req[q])'
      BY <1>11, <2>1, SMT DEF Die, Shape, Phase
    <2> QED
      BY <1>11, <2>2 DEF Die, Leave, Shape, store
  <1>12. ASSUME NEW s, LeaseExpires(s) PROVE Shape'
    <2>1. /\ tags' \subseteq tags
          /\ DOMAIN owner' \subseteq DOMAIN owner /\ \A x \in DOMAIN owner' : owner'[x] = owner[x]
      BY <1>12 DEF LeaseExpires, Forget, Drop
    <2> QED
      BY <1>12, <2>1, SMT DEF LeaseExpires, Shape, Phase
  <1>13. ASSUME UNCHANGED <<live, store, lsn, req, made, overlaps>> PROVE Shape'
    BY <1>13, SMT DEF Shape, Phase, store
  <1>14. ASSUME NEW n, NEW s,
           Campaign(n) \/ Heartbeat(n) \/ HeartbeatLost(n) \/ LockLost \/ DeadlinePasses(s) \/ UNCHANGED vars
         PROVE  Shape'
    BY <1>13, <1>14 DEF Campaign, Heartbeat, HeartbeatLost, LockLost, DeadlinePasses, hist, vars
  <1> QED
    BY <1>1, <1>2, <1>3, <1>4, <1>5, <1>6, <1>7, <1>8, <1>9, <1>10, <1>11, <1>12, <1>14 DEF Next, Serve
-----------------------------------------------------------------------------
\* One more element adds at most one.
LEMMA OneMore ==
  ASSUME NEW S, NEW x, IsFiniteSet(S)
  PROVE  /\ IsFiniteSet(S \cup {x}) /\ Cardinality(S \cup {x}) \in Nat
         /\ Cardinality(S \cup {x}) <= Cardinality(S) + 1
  <1> USE Zenon
  <1>1. IsFiniteSet(S \cup {x}) /\ Cardinality(S) \in Nat
    BY FS_AddElement, FS_CardinalityType
  <1>2. Cardinality(S \cup {x}) = Cardinality(S) \/ Cardinality(S \cup {x}) = Cardinality(S) + 1
    <2>1. CASE x \in S
      <3>1. S \cup {x} = S
        BY <2>1
      <3> QED
        BY <3>1
    <2>2. CASE x \notin S
      BY <2>2, FS_AddElement
    <2> QED
      BY <2>1, <2>2
  <1> QED
    BY <1>1, <1>2, SMT

\* Both sides of the account are finite.
LEMMA AccountFinite ==
  ASSUME Shape
  PROVE  /\ IsFiniteSet(Counted) /\ IsFiniteSet(InProgress)
         /\ Cardinality(Counted) \in Nat /\ Cardinality(InProgress) \in Nat
  <1>1. IsFiniteSet(1..made) /\ Counted \in SUBSET (1..made)
    BY FS_Interval DEF Shape, Counted
  <1>2. InProgress \in SUBSET Reqs
    BY Zenon DEF InProgress
  <1> QED
    BY <1>1, <1>2, FS_Subset, FS_CardinalityType, ClusterAssumption, Zenon

\* A step that neither counts a sandbox nor lets a create pass.
LEMMA AccountShrinks ==
  ASSUME Shape, QuotaInv, Counted' \subseteq Counted, InProgress' \subseteq InProgress, UNCHANGED overlaps
  PROVE  QuotaInv'
  <1>1. Cardinality(Counted') <= Cardinality(Counted) /\ Cardinality(Counted') \in Nat
    BY AccountFinite, FS_Subset, FS_CardinalityType, Zenon
  <1>2. Cardinality(InProgress') <= Cardinality(InProgress) /\ Cardinality(InProgress') \in Nat
    BY AccountFinite, FS_Subset, FS_CardinalityType, Zenon
  <1> QED
    BY <1>1, <1>2, AccountFinite, ClusterAssumption DEF QuotaInv, Shape

\* A create that ends with its sandbox counted.
LEMMA AccountMoves ==
  ASSUME Shape, QuotaInv, NEW r \in InProgress, NEW s, UNCHANGED overlaps,
         Counted' \subseteq Counted \cup {s}, InProgress' \subseteq InProgress \ {r}
  PROVE  QuotaInv'
  <1> USE Zenon
  <1>1. /\ IsFiniteSet(Counted \cup {s}) /\ Cardinality(Counted \cup {s}) \in Nat
        /\ Cardinality(Counted \cup {s}) <= Cardinality(Counted) + 1
    BY AccountFinite, OneMore
  <1>2. Cardinality(Counted') <= Cardinality(Counted \cup {s}) /\ Cardinality(Counted') \in Nat
    BY <1>1, FS_Subset, FS_CardinalityType
  <1>3. /\ IsFiniteSet(InProgress \ {r}) /\ Cardinality(InProgress \ {r}) \in Nat
        /\ Cardinality(InProgress \ {r}) = Cardinality(InProgress) - 1
    BY AccountFinite, FS_RemoveElement, FS_CardinalityType
  <1>4. Cardinality(InProgress') <= Cardinality(InProgress \ {r}) /\ Cardinality(InProgress') \in Nat
    BY <1>3, FS_Subset, FS_CardinalityType
  <1> QED
    BY <1>1, <1>2, <1>3, <1>4, AccountFinite, ClusterAssumption, SMT DEF QuotaInv, Shape

\* A request that is answered, or moves on in a delete or an expose.
LEMMA AnswerInProgress ==
  ASSUME Shape, NEW r \in Reqs,
         \/ Answer(r)
         \/ req[r].pc \in {"delete", "expose"} /\ (Goto(r, "drop") \/ Goto(r, "listen")) /\ UNCHANGED made
  PROVE  InProgress' \subseteq InProgress \ {r}
  <1> USE Zenon
  <1>1. CASE Answer(r)
    <2>1. req'[r] = Idle /\ \A q \in Reqs \ {r} : req'[q] = req[q]
      BY <1>1 DEF Answer, Shape
    <2> QED
      BY <2>1, SMT DEF InProgress, Passed, Idle
  <1>2. CASE req[r].pc \in {"delete", "expose"} /\ (Goto(r, "drop") \/ Goto(r, "listen")) /\ UNCHANGED made
    <2>1. req'[r].pc \in {"drop", "listen"} /\ \A q \in Reqs \ {r} : req'[q] = req[q]
      BY <1>2, GotoShape
    <2> QED
      BY <2>1 DEF InProgress, Passed
  <1> QED
    BY <1>1, <1>2

\* Forgetting records only takes sandboxes out of the count.
LEMMA ForgetCounted ==
  ASSUME NEW S, Forget(S), UNCHANGED bare
  PROVE  Counted' \subseteq Counted
  BY Zenon DEF Forget, Drop, Counted

\* Each check that passes adds to the account what it may, or an overlap.
LEMMA QuotaStep == Shape /\ QuotaInv /\ [Next]_vars => QuotaInv'
  <1> USE Zenon
  <1> SUFFICES ASSUME Shape, QuotaInv, [Next]_vars PROVE QuotaInv'
    OBVIOUS
  <1>1. ASSUME NEW r \in Reqs, NEW n \in Nodes, Create(r, n) PROVE QuotaInv'
    <2>1. Counted' = Counted
      BY <1>1 DEF Create, store, Counted
    <2>2. InProgress' \subseteq InProgress \cup {r}
      BY <1>1 DEF Create, InProgress, Passed, Shape
    <2>3. /\ IsFiniteSet(InProgress \cup {r}) /\ Cardinality(InProgress \cup {r}) \in Nat
          /\ Cardinality(InProgress \cup {r}) <= Cardinality(InProgress) + 1
      BY AccountFinite, OneMore
    <2>4. Cardinality(InProgress') <= Cardinality(InProgress) + 1 /\ Cardinality(InProgress') \in Nat
      BY <2>2, <2>3, AccountFinite, FS_Subset, FS_CardinalityType, SMT
    <2>5. CASE InProgress = {}
      <3>1. Cardinality(InProgress) = 0
        BY <2>5, FS_EmptySet
      <3>2. Cardinality(Counted) + 1 <= Quota /\ overlaps' \in Nat
        BY <1>1, SMT DEF Create, UnderQuota, Shape
      <3> QED
        BY <2>1, <2>4, <3>1, <3>2, AccountFinite, ClusterAssumption, SMT DEF QuotaInv
    <2>6. CASE InProgress # {}
      <3>1. overlaps' = overlaps + 1
        BY <1>1, <2>6 DEF Create, InProgress
      <3> QED
        BY <2>1, <2>4, <3>1, AccountFinite, ClusterAssumption, SMT DEF QuotaInv, Shape
    <2> QED
      BY <2>5, <2>6
  <1>2. ASSUME NEW r \in Reqs, Make(r) PROVE QuotaInv'
    <2>1. /\ InProgress' \subseteq InProgress \ {r} /\ req[r].at \in Nodes /\ UNCHANGED <<bare, overlaps>>
          /\ r \in InProgress
      BY <1>2, AnswerInProgress DEF Make, Shape, Phase, InProgress, Passed
    <2>2. CASE Register(req[r].at) /\ tags' \subseteq tags \cup {made'}
      <3>1. Counted' \subseteq Counted \cup {made'}
        BY <2>1, <2>2, RegisterShape DEF Counted
      <3> QED
        BY <2>1, <3>1, AccountMoves
    <2>3. CASE UNCHANGED <<owner, tags>>
      <3>1. Counted' \subseteq Counted
        BY <2>1, <2>3 DEF Counted
      <3> QED
        BY <2>1, <3>1, AccountShrinks
    <2> QED
      BY <1>2, <2>2, <2>3 DEF Make
  <1>3. ASSUME NEW r \in Reqs, RelayCreate(r) PROVE QuotaInv'
    <2>1. req[r].to \in Nodes /\ UNCHANGED <<tags, bare, overlaps>> /\ r \in InProgress
      BY <1>3 DEF RelayCreate, CreateThere, hist, Shape, Phase, InProgress, Passed
    <2>2. Counted' \subseteq Counted
      <3>1. CASE Register(req[r].to)
        BY <2>1, <3>1, RegisterShape, SMT DEF Counted, Shape
      <3>2. CASE UNCHANGED owner
        BY <2>1, <3>2 DEF Counted
      <3> QED
        BY <1>3, <3>1, <3>2 DEF RelayCreate, CreateThere
    <2>3. InProgress' \subseteq InProgress
      <3>1. CASE req' = [req EXCEPT ![r].pc = "tag", ![r].sid = made']
        <4>1. \A q \in Reqs \ {r} : req'[q] = req[q]
          BY <3>1 DEF Shape
        <4> QED
          BY <2>1, <4>1 DEF InProgress, Passed
      <3>2. CASE Answer(r)
        BY <3>2, AnswerInProgress
      <3> QED
        BY <1>3, <3>1, <3>2 DEF RelayCreate, CreateThere
    <2> QED
      BY <2>1, <2>2, <2>3, AccountShrinks
  <1>4. ASSUME NEW r \in Reqs, Tag(r) PROVE QuotaInv'
    <2>1. InProgress' \subseteq InProgress \ {r} /\ r \in InProgress /\ UNCHANGED overlaps
      BY <1>4, AnswerInProgress DEF Tag, Shape, Phase, InProgress, Passed
    <2>2. Counted' \subseteq Counted \cup {req[r].sid}
      BY <1>4 DEF Tag, PutTag, Counted
    <2> QED
      BY <2>1, <2>2, AccountMoves
  <1>5. ASSUME NEW r \in Reqs, NEW n, NEW s, NEW op \in {"delete", "expose"}, Request(r, n, op, s) PROVE QuotaInv'
    <2>1. Counted' = Counted /\ UNCHANGED overlaps
      BY <1>5 DEF Request, store, hist, Counted
    <2>2. req'[r].op # "create" /\ \A q \in Reqs \ {r} : req'[q] = req[q]
      BY <1>5 DEF Request, Shape
    <2>3. InProgress' \subseteq InProgress
      BY <2>2 DEF InProgress, Passed
    <2> QED
      BY <2>1, <2>3, AccountShrinks
  <1>6. ASSUME NEW r \in Reqs, Destroy(r) PROVE QuotaInv'
    <2>1. InProgress' \subseteq InProgress /\ UNCHANGED <<bare, overlaps>>
      BY <1>6, AnswerInProgress DEF Destroy
    <2>2. Counted' \subseteq Counted
      BY <1>6, ForgetCounted DEF Destroy, Counted
    <2> QED
      BY <2>1, <2>2, AccountShrinks
  <1>7. ASSUME NEW r \in Reqs, DropExposes(r) \/ Lookup(r) \/ Listen(r) PROVE QuotaInv'
    <2>1. InProgress' \subseteq InProgress /\ UNCHANGED overlaps
      BY <1>7, AnswerInProgress, ZenonT(30) DEF DropExposes, Lookup, Listen, hist
    <2>2. Counted' = Counted
      BY <1>7 DEF DropExposes, Lookup, Listen, store, Counted
    <2> QED
      BY <2>1, <2>2, AccountShrinks
  <1>8. ASSUME NEW n \in Nodes, Reaper(n) PROVE QuotaInv'
    <2>1. InProgress' = InProgress /\ UNCHANGED <<bare, overlaps>>
      BY <1>8 DEF Reaper, InProgress, Passed
    <2>2. Counted' \subseteq Counted
      BY <1>8, <2>1, ForgetCounted DEF Reaper
    <2> QED
      BY <2>1, <2>2, AccountShrinks
  <1>9. ASSUME NEW n \in Nodes, Die(n) PROVE QuotaInv'
    <2>1. InProgress' \subseteq InProgress
      BY <1>9 DEF Die, InProgress, Passed, Idle
    <2>2. Counted' = Counted /\ UNCHANGED overlaps
      BY <1>9 DEF Die, store, Counted
    <2> QED
      BY <2>1, <2>2, AccountShrinks
  <1>10. ASSUME NEW s, LeaseExpires(s) PROVE QuotaInv'
    <2>1. InProgress' = InProgress /\ UNCHANGED <<bare, overlaps>>
      BY <1>10 DEF LeaseExpires, InProgress, Passed
    <2>2. Counted' \subseteq Counted
      BY <1>10, <2>1, ForgetCounted DEF LeaseExpires
    <2> QED
      BY <2>1, <2>2, AccountShrinks
  <1>11. ASSUME UNCHANGED <<store, req, overlaps>> PROVE QuotaInv'
    <2>1. Counted' = Counted /\ InProgress' = InProgress
      BY <1>11 DEF store, Counted, InProgress, Passed
    <2> QED
      BY <1>11, <2>1, AccountShrinks
  <1>12. ASSUME NEW n, NEW s,
           \/ Campaign(n) \/ Heartbeat(n) \/ HeartbeatLost(n) \/ LockLost
           \/ DeadlinePasses(s) \/ Unexpose(n, s) \/ UNCHANGED vars
         PROVE  QuotaInv'
    BY <1>11, <1>12 DEF Campaign, Heartbeat, HeartbeatLost, LockLost, DeadlinePasses, Unexpose, hist, vars
  <1> QED
    BY <1>1, <1>2, <1>3, <1>4, <1>5, <1>6, <1>7, <1>8, <1>9, <1>10, <1>12 DEF Next, Serve
-----------------------------------------------------------------------------
\* A step that gives no record and takes neither tags from what keeps its
\* record nor a create from its thread.
LEMMA TagsKept ==
  ASSUME TagsInv, DOMAIN owner' \subseteq DOMAIN owner, UNCHANGED bare,
         \A s \in DOMAIN owner' : (s \in tags => s \in tags') /\ (s \in untagged => s \in untagged'),
         \A q \in Reqs : req[q].op = "create" => req'[q].op = "create" /\ req'[q].sid = req[q].sid
  PROVE  TagsInv'
  BY DEF TagsInv, TagsFollow

\* A thread without a create changes its state: the creates stay.
LEMMA CreatesKept ==
  ASSUME Shape, NEW r \in Reqs, req[r].op # "create",
         \/ Answer(r)
         \/ req[r].pc \in {"delete", "expose"} /\ (Goto(r, "drop") \/ Goto(r, "listen")) /\ UNCHANGED made
  PROVE  \A q \in Reqs : req[q].op = "create" => req'[q].op = "create" /\ req'[q].sid = req[q].sid
  <1> USE Zenon
  <1>1. \A q \in Reqs \ {r} : req'[q] = req[q]
    BY DEF Answer, Goto, Shape
  <1> QED
    BY <1>1

\* What Forget leaves of the records keeps its keys.
LEMMA ForgetTags ==
  ASSUME NEW S, Forget(S)
  PROVE  /\ DOMAIN owner' \subseteq DOMAIN owner
         /\ \A s \in DOMAIN owner' : (s \in tags => s \in tags') /\ (s \in untagged => s \in untagged')
  BY Zenon DEF Forget, Drop

\* A create hands over its sandbox to its tag, or to the untagged ones.
LEMMA TagsStep == Shape /\ TagsInv /\ [Next]_vars => TagsInv'
  <1> USE Zenon
  <1> SUFFICES ASSUME Shape, TagsInv, [Next]_vars PROVE TagsInv'
    OBVIOUS
  <1>1. ASSUME NEW r \in Reqs, NEW n \in Nodes, Create(r, n) PROVE TagsInv'
    <2>0. req[r] = Idle
      BY <1>1 DEF Create
    <2>1. req[r].op # "create"
      BY <2>0, SMT DEF Idle
    <2>2. \A q \in Reqs \ {r} : req'[q] = req[q]
      BY <1>1 DEF Create, Shape
    <2>3. UNCHANGED <<store, untagged>>
      BY <1>1 DEF Create
    <2> QED
      BY <2>1, <2>2, <2>3, TagsKept DEF store
  <1>2. ASSUME NEW r \in Reqs, Make(r) PROVE TagsInv'
    <2>1. req[r].at \in Nodes /\ req[r].sid = None /\ UNCHANGED bare
      BY <1>2 DEF Make, Shape, Phase
    <2>2. \A q \in Reqs \ {r} : req'[q] = req[q]
      BY <1>2 DEF Make, Answer, Shape
    <2>3. None \notin DOMAIN owner
      BY SMT DEF Shape, None
    <2>4. CASE /\ Register(req[r].at)
               /\ \/ tags' = tags \cup {made'} /\ UNCHANGED untagged
                  \/ untagged' = untagged \cup {made'} /\ UNCHANGED tags
      <3>1. DOMAIN owner' = DOMAIN owner \cup {made'} /\ made' \notin bare
        BY <2>1, <2>4, RegisterShape DEF Shape
      <3> QED
        BY <2>1, <2>2, <2>3, <2>4, <3>1 DEF TagsInv, TagsFollow
    <2>5. CASE UNCHANGED <<owner, tags, untagged>>
      BY <2>1, <2>2, <2>3, <2>5, SMT DEF TagsInv, TagsFollow
    <2> QED
      BY <1>2, <2>4, <2>5 DEF Make
  <1>3. ASSUME NEW r \in Reqs, RelayCreate(r) PROVE TagsInv'
    <2>1. /\ req[r] \in Requests /\ req[r].to \in Nodes /\ req[r].sid = None /\ req[r].op = "create"
          /\ UNCHANGED <<tags, bare, untagged>>
      BY <1>3 DEF RelayCreate, CreateThere, hist, Shape, Phase
    <2>2. None \notin DOMAIN owner
      BY SMT DEF Shape, None
    <2>3. CASE Register(req[r].to) /\ req' = [req EXCEPT ![r].pc = "tag", ![r].sid = made']
      <3>1. req'[r] = [[req[r] EXCEPT !.pc = "tag"] EXCEPT !.sid = made'] /\ \A q \in Reqs \ {r} : req'[q] = req[q]
        BY <2>3 DEF Shape
      <3>2. req'[r] = [pc |-> "tag", op |-> req[r].op, at |-> req[r].at, to |-> req[r].to, sid |-> made']
        BY <2>1, <3>1 DEF Requests
      <3>3. req'[r].op = "create" /\ req'[r].sid = made'
        BY <2>1, <3>2, SMT
      <3>4. DOMAIN owner' = DOMAIN owner \cup {made'} /\ made' \notin bare
        BY <2>1, <2>3, RegisterShape DEF Shape
      <3>5. \A q \in Reqs \ {r} : req'[q] = req[q]
        BY <3>1
      <3> QED
        BY <2>1, <2>2, <3>3, <3>4, <3>5, SMT DEF TagsInv, TagsFollow
    <2>4. CASE Answer(r) /\ UNCHANGED owner
      <3>1. \A q \in Reqs \ {r} : req'[q] = req[q]
        BY <2>4 DEF Answer, Shape
      <3> QED
        BY <2>1, <2>2, <2>4, <3>1, SMT DEF TagsInv, TagsFollow
    <2> QED
      BY <1>3, <2>3, <2>4 DEF RelayCreate, CreateThere
  <1>4. ASSUME NEW r \in Reqs, Tag(r) PROVE TagsInv'
    <2>1. \A q \in Reqs \ {r} : req'[q] = req[q]
      BY <1>4 DEF Tag, Answer, Shape
    <2> DEFINE x == req[r].sid
    <2>2. UNCHANGED <<owner, live>>
      BY <1>4 DEF Tag
    <2>3. \/ tags' = tags \cup {x} /\ UNCHANGED <<bare, untagged>>
          \/ x \notin DOMAIN owner /\ bare' = bare \cup {x} /\ UNCHANGED <<tags, untagged>>
          \/ untagged' = untagged \cup ({x} \cap DOMAIN owner) /\ UNCHANGED <<tags, bare>>
      BY <1>4 DEF Tag, PutTag
    <2> QED
      BY <2>1, <2>2, <2>3 DEF TagsInv, TagsFollow
  <1>5. ASSUME NEW r \in Reqs, NEW n, NEW s, NEW op, Request(r, n, op, s) PROVE TagsInv'
    <2>0. req[r] = Idle
      BY <1>5 DEF Request
    <2>1. req[r].op # "create"
      BY <2>0, SMT DEF Idle
    <2>2. \A q \in Reqs \ {r} : req'[q] = req[q]
      BY <1>5 DEF Request, Shape
    <2>3. UNCHANGED <<store, untagged>>
      BY <1>5 DEF Request, hist
    <2> QED
      BY <2>1, <2>2, <2>3, TagsKept DEF store
  <1>6. ASSUME NEW r \in Reqs, Destroy(r) PROVE TagsInv'
    <2>1. req[r].op # "create"
      BY <1>6 DEF Destroy, Shape, Phase
    <2>2. \A q \in Reqs : req[q].op = "create" => req'[q].op = "create" /\ req'[q].sid = req[q].sid
      BY <1>6, <2>1, CreatesKept DEF Destroy
    <2>3. /\ DOMAIN owner' \subseteq DOMAIN owner /\ UNCHANGED bare
          /\ \A s \in DOMAIN owner' : (s \in tags => s \in tags') /\ (s \in untagged => s \in untagged')
      BY <1>6, ForgetTags DEF Destroy
    <2> QED
      BY <2>2, <2>3, TagsKept
  <1>7. ASSUME NEW r \in Reqs, DropExposes(r) \/ Lookup(r) \/ Listen(r) PROVE TagsInv'
    <2>1. req[r].op # "create"
      BY <1>7, ZenonT(30) DEF DropExposes, Lookup, Listen, Shape, Phase
    <2>2. \A q \in Reqs : req[q].op = "create" => req'[q].op = "create" /\ req'[q].sid = req[q].sid
      BY <1>7, <2>1, CreatesKept, ZenonT(30) DEF DropExposes, Lookup, Listen
    <2>3. UNCHANGED <<store, untagged>>
      BY <1>7, ZenonT(30) DEF DropExposes, Lookup, Listen, hist
    <2> QED
      BY <2>2, <2>3, TagsKept DEF store
  <1>8. ASSUME NEW n, Reaper(n) PROVE TagsInv'
    BY <1>8, ForgetTags, TagsKept DEF Reaper
  <1>9. ASSUME NEW n \in Nodes, Die(n) PROVE TagsInv'
    <2>1. \A q \in Reqs : \/ req'[q] = req[q]
                          \/ req[q].pc = "tag" /\ ({req[q].sid} \cap DOMAIN owner) \subseteq untagged'
                          \/ req[q].sid \notin DOMAIN owner \/ req[q].op # "create"
      <3> SUFFICES ASSUME NEW q \in Reqs, req[q].at = n, req[q].op = "create", req[q].sid \in DOMAIN owner
                   PROVE  req[q].pc = "tag" /\ req[q].sid \in untagged'
        BY <1>9 DEF Die
      <3>1. None \notin DOMAIN owner
        BY SMTT(30) DEF Shape, None
      <3>2. req[q].pc = "tag"
        BY <3>1 DEF Shape, Phase
      <3> QED
        BY <1>9, <3>2 DEF Die
    <2>2. UNCHANGED store /\ untagged \subseteq untagged'
      BY <1>9 DEF Die
    <2> QED
      BY <2>1, <2>2 DEF TagsInv, TagsFollow, store
  <1>10. ASSUME NEW s, LeaseExpires(s) PROVE TagsInv'
    BY <1>10, ForgetTags, TagsKept DEF LeaseExpires
  <1>11. ASSUME UNCHANGED <<store, req, untagged>> PROVE TagsInv'
    BY <1>11 DEF store, TagsInv, TagsFollow
  <1>12. ASSUME NEW n, NEW s,
           \/ Campaign(n) \/ Heartbeat(n) \/ HeartbeatLost(n) \/ LockLost
           \/ DeadlinePasses(s) \/ Unexpose(n, s) \/ UNCHANGED vars
         PROVE  TagsInv'
    BY <1>11, <1>12 DEF Campaign, Heartbeat, HeartbeatLost, LockLost, DeadlinePasses, Unexpose, hist, vars
  <1> QED
    BY <1>1, <1>2, <1>3, <1>4, <1>5, <1>6, <1>7, <1>8, <1>9, <1>10, <1>12 DEF Next, Serve
-----------------------------------------------------------------------------
\* A listener that is not lost has its handle and something to stop it.
Kept(l) == l.reg /\ (l.sid \in live[l.at] \/ Dropping(l.at, l.sid))

\* A step of a thread that is not about to drop listeners.
LEMMA DroppingKept ==
  ASSUME Shape, NEW r \in Reqs, req[r].pc # "drop", \A q \in Reqs \ {r} : req'[q] = req[q]
  PROVE  \A n, s : Dropping(n, s) => Dropping(n, s)'
  BY Zenon DEF Dropping

\* A step that starts no listener and leaves those of live sandboxes alone.
LEMMA ListenersKept ==
  ASSUME Shape, ListenersStopped, lsn' \subseteq lsn,
         \A l \in lsn' : Kept(l) => Kept(l)'
  PROVE  ListenersStopped'
  BY Zenon DEF ListenersStopped, Kept

\* The same, when a thread moves on and no sandbox ends.
LEMMA ListenersSame ==
  ASSUME Shape, ListenersStopped, lsn' \subseteq lsn, \A n \in Nodes : live[n] \subseteq live'[n],
         NEW r \in Reqs, req[r].pc # "drop", \A q \in Reqs \ {r} : req'[q] = req[q]
  PROVE  ListenersStopped'
  <1> USE Zenon
  <1>1. \A n, s : Dropping(n, s) => Dropping(n, s)'
    BY DroppingKept
  <1>2. \A l \in lsn' : l.at \in Nodes
    BY DEF Shape, Listeners
  <1>3. \A l \in lsn' : Kept(l) => Kept(l)'
    BY <1>1, <1>2 DEF Kept
  <1> QED
    BY <1>3, ListenersKept

\* Listeners declared lost are no concern, the others are as they were.
LEMMA StraysStopped ==
  ASSUME Shape, ListenersStopped, NEW n \in Nodes, NEW S, lsn' = Strays(n, S),
         \A l \in lsn \ Of(n, S) : Kept(l) => Kept(l)'
  PROVE  ListenersStopped'
  <1> USE Zenon
  <1> SUFFICES ASSUME NEW l \in lsn' PROVE l.stray \/ Kept(l)'
    BY DEF ListenersStopped, Kept
  <1>1. CASE l \in lsn \ Of(n, S)
    BY <1>1 DEF ListenersStopped, Kept
  <1>2. CASE l \in {[k EXCEPT !.stray = TRUE] : k \in Of(n, S)}
    <2>1. PICK k \in lsn : l = [k EXCEPT !.stray = TRUE]
      BY <1>2 DEF Of
    <2>2. k \in Listeners
      BY DEF Shape
    <2>3. l.stray = TRUE
      BY <2>1, <2>2 DEF Listeners
    <2> QED
      BY <2>3
  <1> QED
    BY <1>1, <1>2 DEF Strays

\* drop_exposes leaves no listener of S behind but the lost ones.
LEMMA DroppedStopped ==
  ASSUME Shape, ListenersStopped, NEW n \in Nodes, NEW S, lsn' = Dropped(n, S),
         \A l \in lsn \ Of(n, S) : Kept(l) => Kept(l)'
  PROVE  ListenersStopped'
  <1> USE Zenon
  <1> SUFFICES ASSUME NEW l \in lsn' PROVE l.stray \/ Kept(l)'
    BY DEF ListenersStopped, Kept
  <1>1. CASE l \in lsn \ Of(n, S)
    BY <1>1 DEF ListenersStopped, Kept
  <1>2. CASE l \in Of(n, S) /\ ~l.reg
    BY <1>2 DEF ListenersStopped, Of
  <1> QED
    BY <1>1, <1>2 DEF Dropped, Of

\* The sandboxes of other nodes, and others of this one, stay.
LEMMA LeaveKept ==
  ASSUME Shape, NEW n \in Nodes, NEW S, Leave(n, S), \A m, s : Dropping(m, s) => Dropping(m, s)'
  PROVE  \A l \in lsn \ Of(n, S) : Kept(l) => Kept(l)'
  <1> USE Zenon
  <1>1. \A l \in lsn : l.at \in Nodes
    BY DEF Shape, Listeners
  <1>2. \A m \in Nodes : live'[m] = IF m = n THEN live[m] \ S ELSE live[m]
    BY DEF Leave, Shape
  <1> QED
    BY <1>1, <1>2 DEF Kept, Of

\* Every way a sandbox ends takes its listeners along or declares them lost.
LEMMA ListenersStep == Shape /\ ListenersStopped /\ [Next]_vars => ListenersStopped'
  <1> USE Zenon
  <1> SUFFICES ASSUME Shape, ListenersStopped, [Next]_vars PROVE ListenersStopped'
    OBVIOUS
  <1>1. ASSUME NEW r \in Reqs, NEW n \in Nodes, NEW s, NEW op, Create(r, n) \/ Request(r, n, op, s)
        PROVE  ListenersStopped'
    <2>0. req[r] = Idle /\ UNCHANGED <<lsn, live>>
      BY <1>1 DEF Create, Request
    <2>1. req[r].pc # "drop" /\ UNCHANGED <<lsn, live>>
      BY <2>0, SMTT(30) DEF Idle
    <2>2. \A q \in Reqs \ {r} : req'[q] = req[q]
      BY <1>1 DEF Create, Request, Shape
    <2> QED
      BY <2>1, <2>2, ListenersSame
  <1>2. ASSUME NEW r \in Reqs, Make(r) \/ RelayCreate(r) \/ Tag(r) \/ Lookup(r) PROVE ListenersStopped'
    <2>1. req[r].pc # "drop" /\ UNCHANGED lsn
      BY <1>2 DEF Make, RelayCreate, CreateThere, Tag, Lookup
    <2>2. \A q \in Reqs \ {r} : req'[q] = req[q]
      BY <1>2 DEF Make, RelayCreate, CreateThere, Tag, Lookup, Goto, Answer, Shape
    <2>3. \A n \in Nodes : live[n] \subseteq live'[n]
      BY <1>2, SMTT(30) DEF Make, RelayCreate, CreateThere, Register, Tag, Lookup, Shape
    <2> QED
      BY <2>1, <2>2, <2>3, ListenersSame
  <1>3. ASSUME NEW r \in Reqs, Destroy(r) PROVE ListenersStopped'
    <2> DEFINE n == req[r].to
               s == req[r].sid
    <2>1. n \in Nodes /\ req[r].pc = "delete"
      BY <1>3 DEF Destroy, Shape, Phase
    <2>2. \A q \in Reqs \ {r} : req'[q] = req[q]
      BY <1>3 DEF Destroy, Goto, Answer, Shape
    <2>3. \A m, x : Dropping(m, x) => Dropping(m, x)'
      BY <2>1, <2>2, DroppingKept
    <2>4. CASE UNCHANGED <<live, lsn>>
      BY <2>1, <2>2, <2>4, ListenersSame
    <2>5. CASE Leave(n, {s}) /\ lsn' = Strays(n, {s})
      BY <2>1, <2>3, <2>5, LeaveKept, StraysStopped
    <2>6. CASE Leave(n, {s}) /\ Goto(r, "drop") /\ UNCHANGED lsn
      <3>1. req'[r].pc = "drop" /\ req'[r].to = n /\ req'[r].sid = s
        BY <1>3, <2>1, <2>6, GotoShape DEF Destroy
      <3>2. \A l \in Of(n, {s}) : Kept(l) => Kept(l)'
        BY <3>1 DEF Kept, Of, Dropping
      <3>3. \A l \in lsn \ Of(n, {s}) : Kept(l) => Kept(l)'
        BY <2>1, <2>3, <2>6, LeaveKept
      <3> QED
        BY <2>6, <3>2, <3>3, ListenersKept
    <2> QED
      BY <1>3, <2>4, <2>5, <2>6, ZenonT(30) DEF Destroy
  <1>4. ASSUME NEW r \in Reqs, DropExposes(r) PROVE ListenersStopped'
    <2> DEFINE n == req[r].to
               s == req[r].sid
    <2>1. n \in Nodes /\ UNCHANGED live /\ lsn' = Dropped(n, {s})
      BY <1>4 DEF DropExposes, Shape, Phase
    <2>2. \A q \in Reqs \ {r} : req'[q] = req[q]
      BY <1>4 DEF DropExposes, Answer, Shape
    <2>3. \A m, x : Dropping(m, x) /\ (m # n \/ x # s) => Dropping(m, x)'
      BY <2>2 DEF Dropping
    <2>4. \A l \in lsn \ Of(n, {s}) : Kept(l) => Kept(l)'
      BY <2>1, <2>3 DEF Kept, Of
    <2> QED
      BY <2>1, <2>4, DroppedStopped
  <1>5. ASSUME NEW r \in Reqs, Listen(r) PROVE ListenersStopped'
    <2> DEFINE n == req[r].to
               s == req[r].sid
               gone == s \notin live[n] /\ ~Dropping(n, s)
               old == {l \in Of(n, {s}) : l.reg}
               new == [at |-> n, sid |-> s, reg |-> TRUE, stray |-> gone]
               lost == {[l EXCEPT !.reg = FALSE, !.stray = TRUE] : l \in old}
    <2>1. lsn' = (lsn \ old) \cup lost \cup {new} /\ UNCHANGED live /\ req[r].pc # "drop"
      BY <1>5 DEF Listen
    <2>2. \A q \in Reqs \ {r} : req'[q] = req[q]
      BY <1>5 DEF Listen, Answer, Shape
    <2>3. \A m, x : Dropping(m, x) => Dropping(m, x)'
      BY <2>1, <2>2, DroppingKept, ZenonT(30)
    <2>4. \A l : Kept(l) => Kept(l)'
      BY <2>1, <2>3 DEF Kept
    <2>5. \A l \in lost : l.stray
      <3>1. \A l \in Listeners : [l EXCEPT !.reg = FALSE, !.stray = TRUE].stray = TRUE
        BY DEF Listeners
      <3>2. old \subseteq Listeners
        BY DEF Of, Shape
      <3> HIDE DEF old
      <3> QED
        BY <3>1, <3>2
    <2>6. new.stray \/ Kept(new)
      BY DEF Kept
    <2>7. \A l \in lsn : l.stray \/ Kept(l)
      BY DEF ListenersStopped, Kept
    <2> HIDE DEF old, new, lost
    <2>8. \A l \in lsn' : l.stray \/ Kept(l)'
      BY <2>1, <2>4, <2>5, <2>6, <2>7
    <2> QED
      BY <2>8 DEF ListenersStopped, Kept
  <1>6. ASSUME NEW n, NEW s, Unexpose(n, s) PROVE ListenersStopped'
    <2>1. lsn' \subseteq lsn /\ UNCHANGED <<live, req>>
      BY <1>6 DEF Unexpose, Dropped
    <2>2. \A l : Kept(l) => Kept(l)'
      BY <2>1 DEF Kept, Dropping
    <2> QED
      BY <2>1, <2>2, ListenersKept
  <1>7. ASSUME NEW n \in Nodes, Reaper(n) PROVE ListenersStopped'
    <2>1. PICK S : Leave(n, S) /\ (lsn' = Dropped(n, S) \/ lsn' = Strays(n, S))
      <3>1. PICK D, E : Leave(n, D \cup E) /\ lsn' = IF E = {} THEN Dropped(n, D) ELSE Strays(n, D \cup E)
        BY <1>7 DEF Reaper
      <3>2. E = {} => D \cup E = D
        OBVIOUS
      <3> QED
        BY <3>1, <3>2
    <2>2. \A m, x : Dropping(m, x) => Dropping(m, x)'
      BY <1>7 DEF Reaper, Dropping
    <2>3. \A l \in lsn \ Of(n, S) : Kept(l) => Kept(l)'
      BY <2>1, <2>2, LeaveKept
    <2> QED
      BY <2>1, <2>3, DroppedStopped, StraysStopped
  <1>8. ASSUME NEW n \in Nodes, Die(n) PROVE ListenersStopped'
    <2>1. lsn' = {l \in lsn : l.at # n} /\ Leave(n, live[n])
      BY <1>8 DEF Die
    <2>2. \A m, x : Dropping(m, x) /\ m # n => Dropping(m, x)'
      <3> SUFFICES ASSUME NEW m, NEW x, m # n, NEW q \in Reqs,
                          req[q].pc = "drop", req[q].to = m, req[q].sid = x
                   PROVE  req'[q] = req[q]
        BY DEF Dropping
      <3>1. req[q].at # n
        BY DEF Shape, Phase
      <3> QED
        BY <1>8, <3>1 DEF Die
    <2>3. \A m \in Nodes \ {n} : live'[m] = live[m]
      BY <2>1 DEF Leave, Shape
    <2>4. \A l \in lsn' : l.at \in Nodes \ {n}
      BY <2>1 DEF Shape, Listeners
    <2>5. \A l \in lsn' : Kept(l) => Kept(l)'
      BY <2>2, <2>3, <2>4 DEF Kept
    <2> QED
      BY <2>1, <2>5, ListenersKept
  <1>9. ASSUME UNCHANGED <<live, lsn, req>> PROVE ListenersStopped'
    BY <1>9 DEF ListenersStopped, Dropping
  <1>10. ASSUME NEW n, NEW s,
           \/ Campaign(n) \/ Heartbeat(n) \/ HeartbeatLost(n) \/ LockLost
           \/ DeadlinePasses(s) \/ LeaseExpires(s) \/ UNCHANGED vars
         PROVE  ListenersStopped'
    BY <1>9, <1>10 DEF Campaign, Heartbeat, HeartbeatLost, LockLost, DeadlinePasses, LeaseExpires, vars
  <1> QED
    BY <1>1, <1>2, <1>3, <1>4, <1>5, <1>6, <1>7, <1>8, <1>10 DEF Next, Serve
-----------------------------------------------------------------------------
\* Sandboxes leave one ledger, records go, and whoever keeps running without
\* a record is among the lapsed.
LEMMA RecordsLeave ==
  ASSUME Shape, RecordInv,
         \A n \in Nodes : live'[n] \subseteq live[n],
         DOMAIN owner' \subseteq DOMAIN owner, \A s \in DOMAIN owner' : owner'[s] = owner[s],
         \A n \in Nodes : \A s \in live'[n] : s \in DOMAIN owner \/ s \in lapsed => s \in DOMAIN owner' \/ s \in lapsed'
  PROVE  RecordInv'
  BY Zenon DEF RecordInv, LiveRecordLost

\* A sandbox gets its record and its place in a ledger together.
LEMMA RegisterRecord ==
  ASSUME Shape, RecordInv, NEW n \in Nodes, Register(n), UNCHANGED lapsed
  PROVE  RecordInv'
  <1> USE Zenon
  <1>1. \A m \in Nodes : made' \notin live[m]
    BY RegisterShape DEF Shape
  <1>2. /\ \A m \in Nodes : live'[m] = IF m = n THEN live[m] \cup {made'} ELSE live[m]
        /\ DOMAIN owner' = DOMAIN owner \cup {made'}
        /\ \A s \in DOMAIN owner' : owner'[s] = IF s = made' THEN n ELSE owner[s]
    BY RegisterShape
  <1>3. LiveRecordLost'
    BY <1>2 DEF RecordInv, LiveRecordLost
  <1>4. ASSUME NEW m \in Nodes, NEW k \in Nodes, m # k PROVE live'[m] \cap live'[k] = {}
    <2>1. live[m] \cap live[k] = {}
      BY <1>4 DEF RecordInv
    <2> QED
      BY <1>1, <1>2, <1>4, <2>1
  <1>5. ASSUME NEW m \in Nodes, NEW s \in live'[m] \cap DOMAIN owner' PROVE owner'[s] = m
    <2>1. CASE s = made'
      BY <1>1, <1>2, <2>1
    <2>2. CASE s # made'
      <3>1. s \in live[m] \cap DOMAIN owner /\ owner'[s] = owner[s]
        BY <1>2, <2>2
      <3>2. \A x \in live[m] \cap DOMAIN owner : owner[x] = m
        BY DEF RecordInv
      <3> QED
        BY <3>1, <3>2
    <2> QED
      BY <2>1, <2>2
  <1> QED
    BY <1>3, <1>4, <1>5 DEF RecordInv

\* Records of live sandboxes go with the sandbox, by the idle timer, or by a
\* leader on another node.
LEMMA RecordStep == Shape /\ RecordInv /\ [Next]_vars => RecordInv'
  <1> USE Zenon
  <1> SUFFICES ASSUME Shape, RecordInv, [Next]_vars PROVE RecordInv'
    OBVIOUS
  <1>1. ASSUME UNCHANGED <<live, owner, lapsed>> PROVE RecordInv'
    BY <1>1 DEF RecordInv, LiveRecordLost
  <1>2. ASSUME NEW r \in Reqs, Make(r) \/ RelayCreate(r) PROVE RecordInv'
    <2>1. UNCHANGED lapsed /\ (UNCHANGED <<live, owner>> \/ \E n \in Nodes : Register(n))
      BY <1>2 DEF Make, RelayCreate, CreateThere, hist, Shape, Phase
    <2> QED
      BY <1>1, <2>1, RegisterRecord
  <1>3. ASSUME NEW r \in Reqs, Destroy(r) PROVE RecordInv'
    <2> DEFINE n == req[r].to
               s == req[r].sid
    <2>1. n \in Nodes
      BY <1>3 DEF Destroy, Shape, Phase
    <2>2. CASE s \in live[n] /\ Leave(n, {s}) /\ lapsed' = lapsed \ {s} /\ (Forget({s}) \/ UNCHANGED owner)
      <3>1. \A m \in Nodes : live'[m] = IF m = n THEN live[m] \ {s} ELSE live[m]
        BY <2>2 DEF Leave, Shape
      <3>2. \A m \in Nodes : s \notin live'[m]
        BY <2>1, <2>2, <3>1 DEF RecordInv
      <3>3. /\ DOMAIN owner' \subseteq DOMAIN owner /\ DOMAIN owner \ {s} \subseteq DOMAIN owner'
            /\ \A x \in DOMAIN owner' : owner'[x] = owner[x]
        BY <2>2 DEF Forget, Drop
      <3> QED
        BY <2>2, <3>1, <3>2, <3>3, RecordsLeave
    <2> QED
      BY <1>1, <1>3, <2>2 DEF Destroy
  <1>4. ASSUME NEW n \in Nodes, Reaper(n) PROVE RecordInv'
    <2>1. PICK S \in SUBSET live[n], R \in SUBSET Orphans(n) :
            /\ Leave(n, S) /\ lapsed' = (lapsed \cup Taken(n, R)) \ S
            /\ \E D \in SUBSET S : Forget(D \cup R)
      <3>1. PICK D \in SUBSET live[n], E \in SUBSET live[n], R \in SUBSET Orphans(n) :
              /\ Forget(D \cup R) /\ Leave(n, D \cup E)
              /\ lapsed' = (lapsed \cup Taken(n, R)) \ (D \cup E)
        BY <1>4 DEF Reaper
      <3>2. D \cup E \in SUBSET live[n] /\ D \in SUBSET (D \cup E)
        OBVIOUS
      <3> QED
        BY <3>1, <3>2
    <2>2. \A m \in Nodes : live'[m] = IF m = n THEN live[m] \ S ELSE live[m]
      BY <2>1 DEF Leave, Shape
    <2>3. \A m \in Nodes : \A s \in live'[m] : s \notin S
      BY <2>1, <2>2 DEF RecordInv
    <2>4. /\ DOMAIN owner' \subseteq DOMAIN owner /\ DOMAIN owner \ (S \cup R) \subseteq DOMAIN owner'
          /\ \A x \in DOMAIN owner' : owner'[x] = owner[x]
      BY <2>1 DEF Forget, Drop
    <2>5. \A m \in Nodes : \A s \in live[m] \cap R : s \in Taken(n, R)
      BY <2>1 DEF Orphans, Taken, RecordInv
    <2>6. \A m \in Nodes : live'[m] \subseteq live[m]
      BY <2>2
    <2>7. \A m \in Nodes : \A s \in live'[m] :
            s \in DOMAIN owner \/ s \in lapsed => s \in DOMAIN owner' \/ s \in lapsed'
      BY <2>1, <2>3, <2>4, <2>5, <2>6
    <2> QED
      BY <2>4, <2>6, <2>7, RecordsLeave
  <1>5. ASSUME NEW n \in Nodes, Die(n) PROVE RecordInv'
    <2>1. Leave(n, live[n]) /\ lapsed' = lapsed \ live[n] /\ UNCHANGED owner
      BY <1>5 DEF Die, store
    <2>2. \A m \in Nodes : live'[m] = IF m = n THEN {} ELSE live[m]
      BY <2>1 DEF Leave, Shape
    <2>3. \A m \in Nodes : \A s \in live'[m] : s \notin live[n]
      BY <2>2 DEF RecordInv
    <2>4. \A m \in Nodes : live'[m] \subseteq live[m]
      BY <2>2
    <2> QED
      BY <2>1, <2>3, <2>4, RecordsLeave
  <1>6. ASSUME NEW s, LeaseExpires(s) PROVE RecordInv'
    <2>1. /\ UNCHANGED live /\ lapsed' = lapsed \cup ({s} \cap UNION {live[n] : n \in Nodes})
          /\ DOMAIN owner' = DOMAIN owner \ {s} /\ \A x \in DOMAIN owner' : owner'[x] = owner[x]
      BY <1>6 DEF LeaseExpires, Forget, Drop
    <2> QED
      BY <2>1, RecordsLeave
  <1>7. ASSUME NEW r, NEW n, NEW s, NEW op,
          \/ Create(r, n) \/ Request(r, n, op, s) \/ Tag(r) \/ DropExposes(r) \/ Lookup(r) \/ Listen(r)
          \/ Campaign(n) \/ Heartbeat(n) \/ HeartbeatLost(n) \/ LockLost
          \/ DeadlinePasses(s) \/ Unexpose(n, s) \/ UNCHANGED vars
        PROVE  RecordInv'
    BY <1>1, <1>7 DEF Create, Request, Tag, DropExposes, Lookup, Listen, Campaign, Heartbeat, HeartbeatLost,
                      LockLost, DeadlinePasses, Unexpose, store, hist, vars
  <1> QED
    BY <1>2, <1>3, <1>4, <1>5, <1>6, <1>7 DEF Next, Serve
-----------------------------------------------------------------------------
\* The state a replica starts with.
LEMMA InitShape == Init => Shape /\ QuotaInv /\ TagsInv /\ ListenersStopped /\ RecordInv
  <1> USE Zenon
  <1> SUFFICES ASSUME Init PROVE Shape /\ QuotaInv /\ TagsInv /\ ListenersStopped /\ RecordInv
    OBVIOUS
  <1>1. DOMAIN owner = {}
    BY DEF Init, EmptyMap
  <1>2. Idle \in Requests /\ Idle.pc = "idle" /\ Idle.op = "none"
    <2>1. None \in Nat
      BY DEF None
    <2> QED
      BY <2>1 DEF Idle, Requests, Pcs, Ops
  <1>3. Shape
    BY <1>1, <1>2 DEF Init, Shape, Phase
  <1>4. Counted = {} /\ InProgress = {}
    BY <1>1, <1>2 DEF Init, Counted, InProgress, Passed
  <1>5. QuotaInv
    BY <1>4, FS_EmptySet, ClusterAssumption, SMTT(30) DEF QuotaInv, Init
  <1>6. TagsInv /\ ListenersStopped /\ RecordInv
    BY <1>1 DEF Init, TagsInv, TagsFollow, ListenersStopped, RecordInv, LiveRecordLost
  <1> QED
    BY <1>3, <1>5, <1>6

\* quota::check and the later count of the project keys: however creates,
\* relays, deletes, reclaims and deaths interleave, a project exceeds its
\* quota by no more than the checks that passed during another create.
THEOREM QuotaExceededByOverlaps == Spec => []QuotaBounded
  <1>1. Shape /\ QuotaInv => QuotaBounded
    BY AccountFinite, ClusterAssumption DEF QuotaInv, QuotaBounded, Shape
  <1> QED
    BY <1>1, InitShape, ShapeStep, QuotaStep, PTL DEF Spec

\* schedule_create and tag_project: every recorded sandbox has its project
\* key on its lease, or a create in progress, or one that ended early.
THEOREM EveryCreateTagged == Spec => []TagsFollow
  <1>1. TagsInv => TagsFollow
    BY Zenon DEF TagsInv
  <1> QED
    BY <1>1, InitShape, ShapeStep, TagsStep, PTL DEF Spec

\* expose_port and drop_exposes: no listener outlives its sandbox unless an
\* expose overlapped another or a destroy, or a destroy ended with an error.
THEOREM NoForgottenListener == Spec => []ListenersStopped
  BY InitShape, ShapeStep, ListenersStep, PTL DEF Spec

\* reclaim_orphans, destroy and tick: a live sandbox is without its record
\* only after the idle timer or a leader on another node removed it.
THEOREM LiveKeepsRecord == Spec => []LiveRecordLost
  <1>1. RecordInv => LiveRecordLost
    BY Zenon DEF RecordInv
  <1> QED
    BY <1>1, InitShape, ShapeStep, RecordStep, PTL DEF Spec
=============================================================================
