--------------------------- MODULE PlacementProofs ---------------------------
(***************************************************************************)
(* TLAPS: no container is left on a removed node, and the overshoot of a   *)
(* node's capacity is bounded, for all finite sets of containers and       *)
(* requests and all sets of nodes, hosts and capacities.                   *)
(***************************************************************************)
EXTENDS Placement, FiniteSetTheorems, TLAPS

\* Serial requests: at most one is under way.
Alone ==
  scenario.serial =>
    \A p, q \in Procs : pc[p] # "idle" /\ pc[q] # "idle" => p = q

\* The node that a serial request has chosen is still there, and the one that it
\* is about to drop is still without containers.
Chosen ==
  scenario.serial =>
    \A p \in Procs :
       /\ pc[p] \in {"register", "move"} => loc[p].node \in nodes
       /\ pc[p] \in {"count", "drop"} => loc[p].node \in NodeIds
       /\ pc[p] = "drop" => On(loc[p].node) = {}

\* The creations that have chosen d and are not registered.
Pending(d) == {p \in Procs : pc[p] = "register" /\ loc[p].node = d}

\* Registered and chosen together overshoot by less than there are requests:
\* the last one that chose counted less than the capacity, and each of the
\* others can have at most one more in flight.
Bounded ==
  Picked =>
    \A d \in nodes :
       Count(d) + Cardinality(Pending(d))
         < node[d].maxContainers + Cardinality(Procs)

\* A move is under way only where moves are requested.
MovesRequested == \A p \in Procs : pc[p] = "move" => "move" \in Ops

\* The inductive invariant.
PlacementIInv ==
  TypeOK /\ Alone /\ Chosen /\ NoDangling /\ MovesRequested /\ Bounded

\* Containers on a node and creations for it are finitely many.
LEMMA Finite ==
  ASSUME NEW d
  PROVE  /\ IsFiniteSet(On(d)) /\ Count(d) \in Nat
         /\ IsFiniteSet(Pending(d)) /\ Cardinality(Pending(d)) \in Nat
         /\ Cardinality(Procs) \in Nat
<1>1. On(d) \subseteq Names /\ Pending(d) \subseteq Procs
  BY DEF On, Pending
<1>2. QED  BY <1>1, FiniteAssumption, FS_Subset, FS_CardinalityType DEF Count

\* Where no container and no creation is added, the bound is kept.
LEMMA NoneAdded ==
  ASSUME TypeOK, Bounded, UNCHANGED scenario, nodes' \subseteq nodes,
         \A d \in nodes' :
            /\ node'[d].maxContainers = node[d].maxContainers
            /\ On(d)' \subseteq On(d) /\ Pending(d)' \subseteq Pending(d)
  PROVE  Bounded'
<1> SUFFICES ASSUME Picked, NEW d \in nodes'
             PROVE  Count(d)' + Cardinality(Pending(d)')
                      < node'[d].maxContainers + Cardinality(Procs)
  BY DEF Bounded, Picked, Ops
<1>1. Count(d)' <= Count(d) /\ Count(d)' \in Nat /\ Count(d) \in Nat
  BY Finite, FS_Subset, FS_CardinalityType DEF Count
<1>2. /\ Cardinality(Pending(d)') <= Cardinality(Pending(d))
      /\ Cardinality(Pending(d)') \in Nat /\ Cardinality(Pending(d)) \in Nat
  BY Finite, FS_Subset, FS_CardinalityType
<1>3. /\ Count(d) + Cardinality(Pending(d))
           < node[d].maxContainers + Cardinality(Procs)
      /\ node'[d].maxContainers = node[d].maxContainers
  BY DEF Bounded
<1>4. node[d].maxContainers \in Nat /\ Cardinality(Procs) \in Nat
  BY Finite, CapsAssumption DEF TypeOK, NodeRecord
<1>5. QED  BY <1>1, <1>2, <1>3, <1>4

\* Types of the updates.
LEMMA LocType ==
  ASSUME TypeOK, NEW p \in Procs, NEW d \in NodeIds \cup {NoNode},
         NEW n \in Names \cup {NoName}, NEW h \in Hosts, Work(p, d, n, h)
  PROVE  /\ loc' \in [Procs -> [node : NodeIds \cup {NoNode}, host : Hosts,
                                name : Names \cup {NoName}]]
         /\ loc'[p].node = d /\ loc'[p].name = n
         /\ \A q \in Procs : q # p => loc'[q] = loc[q]
BY DEF TypeOK, Work

LEMMA IdleType ==
  ASSUME TypeOK, NEW p \in Procs, NEW from, Return(p, from)
  PROVE  /\ loc' \in [Procs -> [node : NodeIds \cup {NoNode}, host : Hosts,
                                name : Names \cup {NoName}]]
         /\ pc' \in [Procs -> PCs] /\ pc[p] = from /\ pc'[p] = "idle"
         /\ \A q \in Procs : q # p => pc'[q] = pc[q] /\ loc'[q] = loc[q]
         /\ scenario' = scenario
BY DEF TypeOK, Return, Goto, Idle, SomeHost, PCs

LEMMA BeginType ==
  ASSUME TypeOK, NEW p \in Procs, NEW to \in PCs, Begin(p, to)
  PROVE  /\ pc' \in [Procs -> PCs] /\ pc[p] = "idle" /\ pc'[p] = to
         /\ \A q \in Procs : q # p => pc'[q] = pc[q]
         /\ scenario' = scenario
         /\ scenario.serial => \A q \in Procs : pc[q] = "idle"
BY DEF TypeOK, Begin, Goto

\* The counted node has room, and every other creation in flight adds at most one.
LEMMA PickKeeps ==
  ASSUME PlacementIInv, NEW p \in Procs, NEW d \in NodeIds, pickNode(p, d)
  PROVE  PlacementIInv'
<1>0. TypeOK /\ Alone /\ Chosen /\ NoDangling /\ MovesRequested /\ Bounded
  BY DEF PlacementIInv
<1>b. /\ pc' \in [Procs -> PCs] /\ pc[p] = "idle" /\ pc'[p] = "register"
      /\ \A q \in Procs : q # p => pc'[q] = pc[q]
      /\ scenario' = scenario
      /\ scenario.serial => \A q \in Procs : pc[q] = "idle"
  BY <1>0, BeginType DEF pickNode, PCs
<1>l. /\ loc' \in [Procs -> [node : NodeIds \cup {NoNode}, host : Hosts,
                             name : Names \cup {NoName}]]
      /\ loc'[p].node = d /\ loc'[p].name = NoName
      /\ \A q \in Procs : q # p => loc'[q] = loc[q]
  BY <1>0, LocType, HostsAssumption DEF pickNode, SomeHost
<1>u. UNCHANGED <<nodes, node, where>> /\ Eligible(d)
  BY DEF pickNode
<1>1. TypeOK'
  BY <1>0, <1>b, <1>l, <1>u DEF TypeOK
<1>2. Alone'
  BY <1>b DEF Alone
<1>3. Chosen'
  BY <1>b, <1>l, <1>u DEF Chosen, Eligible
<1>4. NoDangling'
  BY <1>0, <1>b, <1>u DEF NoDangling
<1>5. MovesRequested'
  BY <1>0, <1>b DEF MovesRequested, Ops
<1>6. Bounded'
  <2> SUFFICES ASSUME Picked, NEW e \in nodes
               PROVE  Count(e) + Cardinality(Pending(e)')
                        < node[e].maxContainers + Cardinality(Procs)
    BY <1>b, <1>u DEF Bounded, Picked, Ops, Count, On
  <2>1. CASE e = d
    <3>1. Pending(d)' \ {p} \subseteq Procs \ {p} /\ p \in Pending(d)'
      BY <1>b, <1>l DEF Pending
    <3>2. Cardinality(Pending(d)') <= Cardinality(Procs)
      BY FiniteAssumption, FS_Subset DEF Pending
    <3>3. Count(d) < node[d].maxContainers
      BY <1>u DEF Eligible
    <3>4. node[d].maxContainers \in Nat /\ Count(d) \in Nat
          /\ Cardinality(Procs) \in Nat /\ Cardinality(Pending(d)') \in Nat
      BY <1>0, Finite, CapsAssumption, FiniteAssumption, FS_Subset,
         FS_CardinalityType DEF TypeOK, NodeRecord, Pending
    <3>5. QED  BY <2>1, <3>2, <3>3, <3>4
  <2>2. CASE e # d
    <3>1. Pending(e)' = Pending(e)
      BY <2>2, <1>b, <1>l DEF Pending
    <3>2. QED  BY <1>0, <3>1 DEF Bounded
  <2>3. QED  BY <2>1, <2>2
<1>7. QED  BY <1>1, <1>2, <1>3, <1>4, <1>5, <1>6 DEF PlacementIInv

\* The bound is not claimed where the default node is asked for.
LEMMA DefaultKeeps ==
  ASSUME PlacementIInv, NEW p \in Procs, NEW d \in NodeIds, getDefaultNodeClient(p, d)
  PROVE  PlacementIInv'
<1>0. TypeOK /\ Alone /\ Chosen /\ NoDangling /\ MovesRequested /\ Bounded
  BY DEF PlacementIInv
<1>b. /\ pc' \in [Procs -> PCs] /\ pc[p] = "idle" /\ pc'[p] = "register"
      /\ \A q \in Procs : q # p => pc'[q] = pc[q]
      /\ scenario' = scenario
      /\ scenario.serial => \A q \in Procs : pc[q] = "idle"
  BY <1>0, BeginType DEF getDefaultNodeClient, PCs
<1>l. /\ loc' \in [Procs -> [node : NodeIds \cup {NoNode}, host : Hosts,
                             name : Names \cup {NoName}]]
      /\ loc'[p].node = d /\ loc'[p].name = NoName
      /\ \A q \in Procs : q # p => loc'[q] = loc[q]
  BY <1>0, LocType, HostsAssumption DEF getDefaultNodeClient, SomeHost
<1>u. UNCHANGED <<nodes, node, where>> /\ d \in nodes /\ "default" \in Ops
  BY DEF getDefaultNodeClient
<1>1. TypeOK'
  BY <1>0, <1>b, <1>l, <1>u DEF TypeOK
<1>2. Alone'
  BY <1>b DEF Alone
<1>3. Chosen'
  BY <1>b, <1>l, <1>u DEF Chosen
<1>4. NoDangling'
  BY <1>0, <1>b, <1>u DEF NoDangling
<1>5. MovesRequested'
  BY <1>0, <1>b DEF MovesRequested, Ops
<1>6. Bounded'
  BY <1>b, <1>u DEF Bounded, Picked, Ops
<1>7. QED  BY <1>1, <1>2, <1>3, <1>4, <1>5, <1>6 DEF PlacementIInv

\* A creation in flight becomes a container.
LEMMA RegisterKeeps ==
  ASSUME PlacementIInv, NEW p \in Procs, NEW n \in Names, Register(p, n)
  PROVE  PlacementIInv'
<1>0. TypeOK /\ Alone /\ Chosen /\ NoDangling /\ MovesRequested /\ Bounded
  BY DEF PlacementIInv
<1>b. /\ pc' \in [Procs -> PCs] /\ pc[p] = "register" /\ pc'[p] = "lxd"
      /\ \A q \in Procs : q # p => pc'[q] = pc[q]
      /\ scenario' = scenario
  BY <1>0 DEF Register, Goto, PCs, TypeOK
<1>l. /\ loc' \in [Procs -> [node : NodeIds \cup {NoNode}, host : Hosts,
                             name : Names \cup {NoName}]]
      /\ loc'[p].node = loc[p].node /\ loc'[p].name = n
      /\ \A q \in Procs : q # p => loc'[q] = loc[q]
  <2>1. loc[p].node \in NodeIds \cup {NoNode} /\ SomeHost \in Hosts
    BY <1>0 DEF TypeOK, SomeHost
  <2>2. QED  BY <1>0, <2>1, LocType DEF Register
<1>u. /\ UNCHANGED <<nodes, node>> /\ where[n] = NoNode
      /\ where' = [where EXCEPT ![n] = loc[p].node]
  BY DEF Register, Unused
<1>1. TypeOK'
  BY <1>0, <1>b, <1>l, <1>u DEF TypeOK
<1>2. Alone'
  BY <1>0, <1>b DEF Alone, Unused
<1>3. Chosen'
  BY <1>0, <1>b DEF Chosen, Alone
<1>4. NoDangling'
  BY <1>0, <1>b, <1>u DEF NoDangling, Chosen
<1>5. MovesRequested'
  BY <1>0, <1>b DEF MovesRequested, Ops, Unused
<1>6. Bounded'
  <2> SUFFICES ASSUME Picked, NEW e \in nodes
               PROVE  Count(e)' + Cardinality(Pending(e)')
                        < node[e].maxContainers + Cardinality(Procs)
    BY <1>b, <1>u DEF Bounded, Picked, Ops
  <2>0. e \in NodeIds /\ e # NoNode
    BY <1>0, NullAssumption DEF TypeOK
  <2>1. CASE e = loc[p].node
    <3>1. On(e)' = On(e) \cup {n} /\ n \notin On(e)
      BY <1>0, <1>u, <2>0, <2>1 DEF On, TypeOK
    <3>2. Pending(e)' = Pending(e) \ {p} /\ p \in Pending(e)
      BY <1>b, <1>l, <2>1 DEF Pending
    <3>3. Count(e)' = Count(e) + 1
      BY <3>1, Finite, FS_AddElement DEF Count
    <3>4. Cardinality(Pending(e)') = Cardinality(Pending(e)) - 1
      BY <3>2, Finite, FS_RemoveElement
    <3>5. Count(e) \in Nat /\ Cardinality(Pending(e)) \in Nat
      BY Finite
    <3>6. Count(e) + Cardinality(Pending(e))
            < node[e].maxContainers + Cardinality(Procs)
      BY <1>0 DEF Bounded
    <3>7. QED  BY <3>3, <3>4, <3>5, <3>6
  <2>2. CASE e # loc[p].node
    <3>1. On(e)' = On(e) /\ Pending(e)' = Pending(e)
      BY <1>b, <1>l, <1>u, <2>0, <2>2 DEF On, Pending
    <3>2. QED  BY <1>0, <3>1 DEF Bounded, Count
  <2>3. QED  BY <2>1, <2>2
<1>7. QED  BY <1>1, <1>2, <1>3, <1>4, <1>5, <1>6 DEF PlacementIInv

\* The creation ends.
LEMMA CreateOKKeeps ==
  ASSUME PlacementIInv, NEW p \in Procs, CreateOK(p)
  PROVE  PlacementIInv'
<1>0. TypeOK /\ Alone /\ Chosen /\ NoDangling /\ MovesRequested /\ Bounded
  BY DEF PlacementIInv
<1>b. /\ loc' \in [Procs -> [node : NodeIds \cup {NoNode}, host : Hosts,
                             name : Names \cup {NoName}]]
      /\ pc' \in [Procs -> PCs] /\ pc[p] = "lxd" /\ pc'[p] = "idle"
      /\ \A q \in Procs : q # p => pc'[q] = pc[q] /\ loc'[q] = loc[q]
      /\ scenario' = scenario
  BY <1>0, IdleType DEF CreateOK
<1>u. UNCHANGED <<nodes, node, where>>
  BY DEF CreateOK
<1>1. TypeOK'
  BY <1>0, <1>b, <1>u DEF TypeOK
<1>2. Alone'
  BY <1>0, <1>b DEF Alone, Picked
<1>3. Chosen'
  BY <1>0, <1>b, <1>u DEF Chosen, On
<1>4. NoDangling'
  BY <1>0, <1>b, <1>u DEF NoDangling
<1>5. MovesRequested'
  BY <1>0, <1>b DEF MovesRequested, Ops, Picked
<1>6. Bounded'
  <2>1. UNCHANGED scenario /\ nodes' \subseteq nodes
    BY <1>b, <1>u DEF Picked
  <2>2. ASSUME NEW d \in nodes'
        PROVE  /\ node'[d].maxContainers = node[d].maxContainers
               /\ On(d)' \subseteq On(d) /\ Pending(d)' \subseteq Pending(d)
    BY <1>b, <1>u DEF On, Pending
  <2>3. QED  BY <1>0, <2>1, <2>2, NoneAdded
<1>7. QED  BY <1>1, <1>2, <1>3, <1>4, <1>5, <1>6 DEF PlacementIInv

\* The container is on no node any more.
LEMMA CreateFailKeeps ==
  ASSUME PlacementIInv, NEW p \in Procs, CreateFail(p)
  PROVE  PlacementIInv'
<1>0. TypeOK /\ Alone /\ Chosen /\ NoDangling /\ MovesRequested /\ Bounded
  BY DEF PlacementIInv
<1>b. /\ loc' \in [Procs -> [node : NodeIds \cup {NoNode}, host : Hosts,
                             name : Names \cup {NoName}]]
      /\ pc' \in [Procs -> PCs] /\ pc[p] = "lxd" /\ pc'[p] = "idle"
      /\ \A q \in Procs : q # p => pc'[q] = pc[q] /\ loc'[q] = loc[q]
      /\ scenario' = scenario
  BY <1>0, IdleType DEF CreateFail
<1>u. /\ UNCHANGED <<nodes, node>>
      /\ where' \in [Names -> NodeIds \cup {NoNode}]
      /\ \A m \in Names : where'[m] \in {where[m], NoNode}
  BY <1>0 DEF CreateFail, TypeOK
<1>1. TypeOK'
  BY <1>0, <1>b, <1>u DEF TypeOK
<1>2. Alone'
  BY <1>0, <1>b DEF Alone, Picked
<1>3. Chosen'
  BY <1>0, <1>b DEF Chosen, Alone
<1>4. NoDangling'
  BY <1>0, <1>b, <1>u DEF NoDangling
<1>5. MovesRequested'
  BY <1>0, <1>b DEF MovesRequested, Ops, Picked
<1>6. Bounded'
  <2>1. UNCHANGED scenario /\ nodes' \subseteq nodes
    BY <1>b, <1>u DEF Picked
  <2>2. ASSUME NEW d \in nodes'
        PROVE  /\ node'[d].maxContainers = node[d].maxContainers
               /\ On(d)' \subseteq On(d) /\ Pending(d)' \subseteq Pending(d)
    BY <1>0, <1>b, <1>u, NullAssumption DEF TypeOK, On, Pending
  <2>3. QED  BY <1>0, <2>1, <2>2, NoneAdded
<1>7. QED  BY <1>1, <1>2, <1>3, <1>4, <1>5, <1>6 DEF PlacementIInv

\* The container is on no node any more.
LEMMA DeleteKeeps ==
  ASSUME PlacementIInv, NEW n \in Names, Delete(n)
  PROVE  PlacementIInv'
<1>0. TypeOK /\ Alone /\ Chosen /\ NoDangling /\ MovesRequested /\ Bounded
  BY DEF PlacementIInv
<1>u. /\ UNCHANGED <<nodes, node, pc, loc, scenario>>
      /\ where' \in [Names -> NodeIds \cup {NoNode}]
      /\ \A m \in Names : where'[m] \in {where[m], NoNode}
  BY <1>0 DEF Delete, TypeOK
<1>1. TypeOK'
  BY <1>0, <1>u DEF TypeOK
<1>2. Alone'
  BY <1>0, <1>u, NullAssumption DEF Alone, Picked
<1>3. Chosen'
  BY <1>0, <1>u, NullAssumption DEF Chosen, On
<1>4. NoDangling'
  BY <1>0, <1>u DEF NoDangling
<1>5. MovesRequested'
  BY <1>0, <1>u, NullAssumption DEF MovesRequested, Ops, Picked
<1>6. Bounded'
  <2>1. UNCHANGED scenario /\ nodes' \subseteq nodes
    BY <1>u DEF Picked
  <2>2. ASSUME NEW d \in nodes'
        PROVE  /\ node'[d].maxContainers = node[d].maxContainers
               /\ On(d)' \subseteq On(d) /\ Pending(d)' \subseteq Pending(d)
    BY <1>0, <1>u, NullAssumption DEF TypeOK, On, Pending
  <2>3. QED  BY <1>0, <2>1, <2>2, NoneAdded
<1>7. QED  BY <1>1, <1>2, <1>3, <1>4, <1>5, <1>6 DEF PlacementIInv

\* The target is there.
LEMMA MoveStartKeeps ==
  ASSUME PlacementIInv, NEW p \in Procs, NEW n \in Names, NEW d \in NodeIds,
         MoveStart(p, n, d)
  PROVE  PlacementIInv'
<1>0. TypeOK /\ Alone /\ Chosen /\ NoDangling /\ MovesRequested /\ Bounded
  BY DEF PlacementIInv
<1>b. /\ pc' \in [Procs -> PCs] /\ pc[p] = "idle" /\ pc'[p] = "move"
      /\ \A q \in Procs : q # p => pc'[q] = pc[q]
      /\ scenario' = scenario
      /\ scenario.serial => \A q \in Procs : pc[q] = "idle"
  BY <1>0, BeginType DEF MoveStart, PCs
<1>l. /\ loc' \in [Procs -> [node : NodeIds \cup {NoNode}, host : Hosts,
                             name : Names \cup {NoName}]]
      /\ loc'[p].node = d /\ loc'[p].name = n
      /\ \A q \in Procs : q # p => loc'[q] = loc[q]
  BY <1>0, LocType, HostsAssumption DEF MoveStart, SomeHost
<1>u. UNCHANGED <<nodes, node, where>> /\ d \in nodes /\ "move" \in Ops
  BY DEF MoveStart
<1>1. TypeOK'
  BY <1>0, <1>b, <1>l, <1>u DEF TypeOK
<1>2. Alone'
  BY <1>b DEF Alone
<1>3. Chosen'
  BY <1>b, <1>l, <1>u DEF Chosen
<1>4. NoDangling'
  BY <1>0, <1>b, <1>u DEF NoDangling
<1>5. MovesRequested'
  BY <1>b, <1>u DEF MovesRequested, Ops
<1>6. Bounded'
  <2>1. UNCHANGED scenario /\ nodes' \subseteq nodes
    BY <1>b, <1>u
  <2>2. ASSUME NEW k \in nodes'
        PROVE  /\ node'[k].maxContainers = node[k].maxContainers
               /\ On(k)' \subseteq On(k) /\ Pending(k)' \subseteq Pending(k)
    BY <1>b, <1>l, <1>u DEF On, Pending
  <2>3. QED  BY <1>0, <2>1, <2>2, NoneAdded
<1>7. QED  BY <1>1, <1>2, <1>3, <1>4, <1>5, <1>6 DEF PlacementIInv

\* The container is on the target, which is there still if the move had no
\* other request beside it.
LEMMA MoveEndKeeps ==
  ASSUME PlacementIInv, NEW p \in Procs, MoveEnd(p)
  PROVE  PlacementIInv'
<1>0. TypeOK /\ Alone /\ Chosen /\ NoDangling /\ MovesRequested /\ Bounded
  BY DEF PlacementIInv
<1>b. /\ loc' \in [Procs -> [node : NodeIds \cup {NoNode}, host : Hosts,
                             name : Names \cup {NoName}]]
      /\ pc' \in [Procs -> PCs] /\ pc[p] = "move" /\ pc'[p] = "idle"
      /\ \A q \in Procs : q # p => pc'[q] = pc[q] /\ loc'[q] = loc[q]
      /\ scenario' = scenario
  BY <1>0, IdleType DEF MoveEnd
<1>u. /\ UNCHANGED <<nodes, node>>
      /\ where' \in [Names -> NodeIds \cup {NoNode}]
      /\ \A m \in Names : where'[m] \in {where[m], loc[p].node}
  BY <1>0 DEF MoveEnd, TypeOK
<1>v. \A m \in Names : where[m] = NoNode => where'[m] = NoNode
  BY <1>0 DEF MoveEnd, TypeOK
<1>1. TypeOK'
  BY <1>0, <1>b, <1>u DEF TypeOK
<1>2. Alone'
  BY <1>0, <1>b DEF Alone, Ops
<1>3. Chosen'
  BY <1>0, <1>b DEF Chosen, Alone
<1>4. NoDangling'
  BY <1>0, <1>b, <1>u DEF NoDangling, Chosen
<1>5. MovesRequested'
  BY <1>0, <1>b DEF MovesRequested, Ops
<1>6. Bounded'
  BY <1>0, <1>b DEF Bounded, MovesRequested, Picked, Ops
<1>7. QED  BY <1>1, <1>2, <1>3, <1>4, <1>5, <1>6 DEF PlacementIInv

\* A new node has no containers, and none is being created on it.
LEMMA AddKeeps ==
  ASSUME PlacementIInv, NEW p \in Procs, NEW d \in NodeIds, NEW h \in Hosts,
         NEW c \in Caps, addNode(p, d, h, c)
  PROVE  PlacementIInv'
<1>0. TypeOK /\ Alone /\ Chosen /\ NoDangling /\ MovesRequested /\ Bounded
  BY DEF PlacementIInv
<1>b. /\ pc' \in [Procs -> PCs] /\ pc[p] = "idle" /\ pc'[p] = "provision"
      /\ \A q \in Procs : q # p => pc'[q] = pc[q]
      /\ scenario' = scenario
      /\ scenario.serial => \A q \in Procs : pc[q] = "idle"
  BY <1>0, BeginType DEF addNode, PCs
<1>l. /\ loc' \in [Procs -> [node : NodeIds \cup {NoNode}, host : Hosts,
                             name : Names \cup {NoName}]]
      /\ loc'[p].node = d /\ loc'[p].name = NoName
      /\ \A q \in Procs : q # p => loc'[q] = loc[q]
  BY <1>0, LocType DEF addNode, SomeHost
<1>u. /\ UNCHANGED where /\ nodes' = nodes \cup {d}
      /\ node' = [node EXCEPT ![d] = [state |-> "creating", maxContainers |-> c,
                                      sshHost |-> h]]
      /\ On(d) = {} /\ Pending(d) = {}
  BY DEF addNode, NewId, Pending
<1>1. TypeOK'
  BY <1>0, <1>b, <1>l, <1>u DEF TypeOK, NodeRecord
<1>2. Alone'
  BY <1>b DEF Alone, Picked
<1>3. Chosen'
  BY <1>b DEF Chosen
<1>4. NoDangling'
  BY <1>0, <1>b, <1>u DEF NoDangling
<1>5. MovesRequested'
  BY <1>0, <1>b DEF MovesRequested, Ops, Picked
<1>6. Bounded'
  <2> SUFFICES ASSUME Picked, NEW e \in nodes'
               PROVE  Count(e)' + Cardinality(Pending(e)')
                        < node'[e].maxContainers + Cardinality(Procs)
    BY <1>b DEF Bounded, Picked, Ops
  <2>1. On(e)' = On(e) /\ Pending(e)' = Pending(e)
    BY <1>b, <1>l, <1>u DEF On, Pending
  <2>2. CASE e = d
    <3>1. Count(e)' = 0 /\ Cardinality(Pending(e)') = 0
      BY <1>u, <2>1, <2>2, FS_EmptySet DEF Count
    <3>2. node'[d].maxContainers \in Nat
      BY <1>0, <1>u, CapsAssumption DEF TypeOK
    <3>3. Cardinality(Procs) > 0 /\ Cardinality(Procs) \in Nat
      BY FiniteAssumption, FS_EmptySet, FS_CardinalityType
    <3>4. QED  BY <2>2, <3>1, <3>2, <3>3
  <2>3. CASE e # d
    <3>1. e \in nodes /\ node'[e] = node[e]
      BY <1>u, <2>3
    <3>2. QED  BY <1>0, <2>1, <3>1 DEF Bounded, Count
  <2>4. QED  BY <2>2, <2>3
<1>7. QED  BY <1>1, <1>2, <1>3, <1>4, <1>5, <1>6 DEF PlacementIInv

\* The capacity and the containers of the node stay.
LEMMA ProvisionedKeeps ==
  ASSUME PlacementIInv, NEW p \in Procs, Provisioned(p)
  PROVE  PlacementIInv'
<1>0. TypeOK /\ Alone /\ Chosen /\ NoDangling /\ MovesRequested /\ Bounded
  BY DEF PlacementIInv
<1>b. /\ loc' \in [Procs -> [node : NodeIds \cup {NoNode}, host : Hosts,
                             name : Names \cup {NoName}]]
      /\ pc' \in [Procs -> PCs] /\ pc[p] = "provision" /\ pc'[p] = "idle"
      /\ \A q \in Procs : q # p => pc'[q] = pc[q] /\ loc'[q] = loc[q]
      /\ scenario' = scenario
  BY <1>0, IdleType DEF Provisioned
<1>u. /\ UNCHANGED <<nodes, where>>
      /\ node' \in [NodeIds -> NodeRecord]
      /\ \A e \in NodeIds : node'[e].maxContainers = node[e].maxContainers
  BY <1>0 DEF Provisioned, TypeOK, NodeRecord
<1>1. TypeOK'
  BY <1>0, <1>b, <1>u DEF TypeOK
<1>2. Alone'
  BY <1>0, <1>b DEF Alone, Picked
<1>3. Chosen'
  BY <1>0, <1>b, <1>u DEF Chosen, On
<1>4. NoDangling'
  BY <1>0, <1>b, <1>u DEF NoDangling
<1>5. MovesRequested'
  BY <1>0, <1>b DEF MovesRequested, Ops, Picked
<1>6. Bounded'
  <2>1. UNCHANGED scenario /\ nodes' \subseteq nodes
    BY <1>b, <1>u DEF Picked
  <2>2. ASSUME NEW d \in nodes'
        PROVE  /\ node'[d].maxContainers = node[d].maxContainers
               /\ On(d)' \subseteq On(d) /\ Pending(d)' \subseteq Pending(d)
    BY <1>0, <1>b, <1>u DEF TypeOK, On, Pending
  <2>3. QED  BY <1>0, <2>1, <2>2, NoneAdded
<1>7. QED  BY <1>1, <1>2, <1>3, <1>4, <1>5, <1>6 DEF PlacementIInv

\* The bound is not claimed where capacities change.
LEMMA UpdateKeeps ==
  ASSUME PlacementIInv, NEW d \in NodeIds, NEW c \in Caps, updateNodeConfig(d, c)
  PROVE  PlacementIInv'
<1>0. TypeOK /\ Alone /\ Chosen /\ NoDangling /\ MovesRequested /\ Bounded
  BY DEF PlacementIInv
<1>u. /\ UNCHANGED <<nodes, where, pc, loc, scenario>> /\ "update" \in scenario.ops
      /\ node' \in [NodeIds -> NodeRecord]
  BY <1>0 DEF updateNodeConfig, TypeOK, NodeRecord, Ops
<1>1. TypeOK'
  BY <1>0, <1>u DEF TypeOK
<1>2. Alone'
  BY <1>0, <1>u DEF Alone, Picked
<1>3. Chosen'
  BY <1>0, <1>u DEF Chosen, On
<1>4. NoDangling'
  BY <1>0, <1>u DEF NoDangling
<1>5. MovesRequested'
  BY <1>0, <1>u DEF MovesRequested, Ops, Picked
<1>6. Bounded'
  BY <1>u DEF Bounded, Picked, Ops
<1>7. QED  BY <1>1, <1>2, <1>3, <1>4, <1>5, <1>6 DEF PlacementIInv

\* The capacity and the containers of the node stay.
LEMMA RebuildStartKeeps ==
  ASSUME PlacementIInv, NEW d \in NodeIds, RebuildStart(d)
  PROVE  PlacementIInv'
<1>0. TypeOK /\ Alone /\ Chosen /\ NoDangling /\ MovesRequested /\ Bounded
  BY DEF PlacementIInv
<1>u. /\ UNCHANGED <<nodes, where, pc, loc, scenario>>
      /\ node' \in [NodeIds -> NodeRecord]
      /\ \A e \in NodeIds : node'[e].maxContainers = node[e].maxContainers
  BY <1>0 DEF RebuildStart, TypeOK, NodeRecord
<1>1. TypeOK'
  BY <1>0, <1>u DEF TypeOK
<1>2. Alone'
  BY <1>0, <1>u DEF Alone, Picked
<1>3. Chosen'
  BY <1>0, <1>u DEF Chosen, On
<1>4. NoDangling'
  BY <1>0, <1>u DEF NoDangling
<1>5. MovesRequested'
  BY <1>0, <1>u DEF MovesRequested, Ops, Picked
<1>6. Bounded'
  <2>1. UNCHANGED scenario /\ nodes' \subseteq nodes
    BY <1>u DEF Picked
  <2>2. ASSUME NEW k \in nodes'
        PROVE  /\ node'[k].maxContainers = node[k].maxContainers
               /\ On(k)' \subseteq On(k) /\ Pending(k)' \subseteq Pending(k)
    BY <1>0, <1>u DEF TypeOK, On, Pending
  <2>3. QED  BY <1>0, <2>1, <2>2, NoneAdded
<1>7. QED  BY <1>1, <1>2, <1>3, <1>4, <1>5, <1>6 DEF PlacementIInv

\* The capacity and the containers of the node stay.
LEMMA RebuildEndKeeps ==
  ASSUME PlacementIInv, NEW d \in NodeIds, RebuildEnd(d)
  PROVE  PlacementIInv'
<1>0. TypeOK /\ Alone /\ Chosen /\ NoDangling /\ MovesRequested /\ Bounded
  BY DEF PlacementIInv
<1>u. /\ UNCHANGED <<nodes, where, pc, loc, scenario>>
      /\ node' \in [NodeIds -> NodeRecord]
      /\ \A e \in NodeIds : node'[e].maxContainers = node[e].maxContainers
  BY <1>0 DEF RebuildEnd, TypeOK, NodeRecord
<1>1. TypeOK'
  BY <1>0, <1>u DEF TypeOK
<1>2. Alone'
  BY <1>0, <1>u DEF Alone, Picked
<1>3. Chosen'
  BY <1>0, <1>u DEF Chosen, On
<1>4. NoDangling'
  BY <1>0, <1>u DEF NoDangling
<1>5. MovesRequested'
  BY <1>0, <1>u DEF MovesRequested, Ops, Picked
<1>6. Bounded'
  <2>1. UNCHANGED scenario /\ nodes' \subseteq nodes
    BY <1>u DEF Picked
  <2>2. ASSUME NEW k \in nodes'
        PROVE  /\ node'[k].maxContainers = node[k].maxContainers
               /\ On(k)' \subseteq On(k) /\ Pending(k)' \subseteq Pending(k)
    BY <1>0, <1>u DEF TypeOK, On, Pending
  <2>3. QED  BY <1>0, <2>1, <2>2, NoneAdded
<1>7. QED  BY <1>1, <1>2, <1>3, <1>4, <1>5, <1>6 DEF PlacementIInv

\* Nothing is chosen.
LEMMA RehostStartKeeps ==
  ASSUME PlacementIInv, NEW p \in Procs, NEW d \in NodeIds, NEW h \in Hosts,
         RehostStart(p, d, h)
  PROVE  PlacementIInv'
<1>0. TypeOK /\ Alone /\ Chosen /\ NoDangling /\ MovesRequested /\ Bounded
  BY DEF PlacementIInv
<1>b. /\ pc' \in [Procs -> PCs] /\ pc[p] = "idle" /\ pc'[p] = "rehost"
      /\ \A q \in Procs : q # p => pc'[q] = pc[q]
      /\ scenario' = scenario
      /\ scenario.serial => \A q \in Procs : pc[q] = "idle"
  BY <1>0, BeginType DEF RehostStart, PCs
<1>l. /\ loc' \in [Procs -> [node : NodeIds \cup {NoNode}, host : Hosts,
                             name : Names \cup {NoName}]]
      /\ loc'[p].node = d /\ loc'[p].name = NoName
      /\ \A q \in Procs : q # p => loc'[q] = loc[q]
  BY <1>0, LocType DEF RehostStart, SomeHost
<1>u. UNCHANGED <<nodes, node, where>>
  BY DEF RehostStart
<1>1. TypeOK'
  BY <1>0, <1>b, <1>l, <1>u DEF TypeOK
<1>2. Alone'
  BY <1>b DEF Alone, Picked
<1>3. Chosen'
  BY <1>b DEF Chosen
<1>4. NoDangling'
  BY <1>0, <1>b, <1>u DEF NoDangling
<1>5. MovesRequested'
  BY <1>0, <1>b DEF MovesRequested, Ops, Picked
<1>6. Bounded'
  <2>1. UNCHANGED scenario /\ nodes' \subseteq nodes
    BY <1>b, <1>u DEF Picked
  <2>2. ASSUME NEW k \in nodes'
        PROVE  /\ node'[k].maxContainers = node[k].maxContainers
               /\ On(k)' \subseteq On(k) /\ Pending(k)' \subseteq Pending(k)
    BY <1>b, <1>l, <1>u DEF On, Pending
  <2>3. QED  BY <1>0, <2>1, <2>2, NoneAdded
<1>7. QED  BY <1>1, <1>2, <1>3, <1>4, <1>5, <1>6 DEF PlacementIInv

\* The capacity and the containers of the node stay.
LEMMA RehostEndKeeps ==
  ASSUME PlacementIInv, NEW p \in Procs, RehostEnd(p)
  PROVE  PlacementIInv'
<1>0. TypeOK /\ Alone /\ Chosen /\ NoDangling /\ MovesRequested /\ Bounded
  BY DEF PlacementIInv
<1>b. /\ loc' \in [Procs -> [node : NodeIds \cup {NoNode}, host : Hosts,
                             name : Names \cup {NoName}]]
      /\ pc' \in [Procs -> PCs] /\ pc[p] = "rehost" /\ pc'[p] = "idle"
      /\ \A q \in Procs : q # p => pc'[q] = pc[q] /\ loc'[q] = loc[q]
      /\ scenario' = scenario
  BY <1>0, IdleType DEF RehostEnd
<1>u. /\ UNCHANGED <<nodes, where>>
      /\ node' \in [NodeIds -> NodeRecord]
      /\ \A e \in NodeIds : node'[e].maxContainers = node[e].maxContainers
  BY <1>0 DEF RehostEnd, TypeOK, NodeRecord
<1>1. TypeOK'
  BY <1>0, <1>b, <1>u DEF TypeOK
<1>2. Alone'
  BY <1>0, <1>b DEF Alone, Picked
<1>3. Chosen'
  BY <1>0, <1>b, <1>u DEF Chosen, On
<1>4. NoDangling'
  BY <1>0, <1>b, <1>u DEF NoDangling
<1>5. MovesRequested'
  BY <1>0, <1>b DEF MovesRequested, Ops, Picked
<1>6. Bounded'
  <2>1. UNCHANGED scenario /\ nodes' \subseteq nodes
    BY <1>b, <1>u DEF Picked
  <2>2. ASSUME NEW d \in nodes'
        PROVE  /\ node'[d].maxContainers = node[d].maxContainers
               /\ On(d)' \subseteq On(d) /\ Pending(d)' \subseteq Pending(d)
    BY <1>0, <1>b, <1>u DEF TypeOK, On, Pending
  <2>3. QED  BY <1>0, <2>1, <2>2, NoneAdded
<1>7. QED  BY <1>1, <1>2, <1>3, <1>4, <1>5, <1>6 DEF PlacementIInv

\* Nothing is dropped yet.
LEMMA RemoveStartKeeps ==
  ASSUME PlacementIInv, NEW p \in Procs, NEW d \in NodeIds, RemoveStart(p, d)
  PROVE  PlacementIInv'
<1>0. TypeOK /\ Alone /\ Chosen /\ NoDangling /\ MovesRequested /\ Bounded
  BY DEF PlacementIInv
<1>b. /\ pc' \in [Procs -> PCs] /\ pc[p] = "idle" /\ pc'[p] = "count"
      /\ \A q \in Procs : q # p => pc'[q] = pc[q]
      /\ scenario' = scenario
      /\ scenario.serial => \A q \in Procs : pc[q] = "idle"
  BY <1>0, BeginType DEF RemoveStart, PCs
<1>l. /\ loc' \in [Procs -> [node : NodeIds \cup {NoNode}, host : Hosts,
                             name : Names \cup {NoName}]]
      /\ loc'[p].node = d /\ loc'[p].name = NoName
      /\ \A q \in Procs : q # p => loc'[q] = loc[q]
  BY <1>0, LocType, HostsAssumption DEF RemoveStart, SomeHost
<1>u. UNCHANGED <<nodes, node, where>>
  BY DEF RemoveStart
<1>1. TypeOK'
  BY <1>0, <1>b, <1>l, <1>u DEF TypeOK
<1>2. Alone'
  BY <1>b DEF Alone, Picked
<1>3. Chosen'
  BY <1>b, <1>l DEF Chosen
<1>4. NoDangling'
  BY <1>0, <1>b, <1>u DEF NoDangling
<1>5. MovesRequested'
  BY <1>0, <1>b DEF MovesRequested, Ops, Picked
<1>6. Bounded'
  <2>1. UNCHANGED scenario /\ nodes' \subseteq nodes
    BY <1>b, <1>u DEF Picked
  <2>2. ASSUME NEW k \in nodes'
        PROVE  /\ node'[k].maxContainers = node[k].maxContainers
               /\ On(k)' \subseteq On(k) /\ Pending(k)' \subseteq Pending(k)
    BY <1>b, <1>l, <1>u DEF On, Pending
  <2>3. QED  BY <1>0, <2>1, <2>2, NoneAdded
<1>7. QED  BY <1>1, <1>2, <1>3, <1>4, <1>5, <1>6 DEF PlacementIInv

\* Only a node without containers is dropped.
LEMMA RemoveCountKeeps ==
  ASSUME PlacementIInv, NEW p \in Procs, RemoveCount(p)
  PROVE  PlacementIInv'
<1>0. TypeOK /\ Alone /\ Chosen /\ NoDangling /\ MovesRequested /\ Bounded
  BY DEF PlacementIInv
<1>b. /\ loc' \in [Procs -> [node : NodeIds \cup {NoNode}, host : Hosts,
                             name : Names \cup {NoName}]]
      /\ pc' \in [Procs -> PCs] /\ pc[p] = "count" /\ pc'[p] \in {"idle", "drop"}
      /\ \A q \in Procs : q # p => pc'[q] = pc[q] /\ loc'[q] = loc[q]
      /\ scenario' = scenario
      /\ pc'[p] = "drop" => loc'[p] = loc[p] /\ On(loc[p].node) = {}
  <2>1. CASE Return(p, "count")
    BY <1>0, <2>1, IdleType
  <2>2. CASE Count(loc[p].node) = 0 /\ Goto(p, "count", "drop") /\ UNCHANGED loc
    <3>1. On(loc[p].node) = {}
      BY <2>2, Finite, FS_EmptySet DEF Count
    <3>2. QED  BY <1>0, <2>2, <3>1 DEF Goto, TypeOK, PCs
  <2>3. QED  BY <2>1, <2>2 DEF RemoveCount
<1>u. UNCHANGED <<nodes, node, where>>
  BY DEF RemoveCount
<1>1. TypeOK'
  BY <1>0, <1>b, <1>u DEF TypeOK
<1>2. Alone'
  BY <1>0, <1>b DEF Alone, Picked
<1>3. Chosen'
  BY <1>0, <1>b, <1>u DEF Chosen, On
<1>4. NoDangling'
  BY <1>0, <1>b, <1>u DEF NoDangling
<1>5. MovesRequested'
  BY <1>0, <1>b DEF MovesRequested, Ops, Picked
<1>6. Bounded'
  <2>1. UNCHANGED scenario /\ nodes' \subseteq nodes
    BY <1>b, <1>u DEF Picked
  <2>2. ASSUME NEW d \in nodes'
        PROVE  /\ node'[d].maxContainers = node[d].maxContainers
               /\ On(d)' \subseteq On(d) /\ Pending(d)' \subseteq Pending(d)
    BY <1>b, <1>u DEF On, Pending
  <2>3. QED  BY <1>0, <2>1, <2>2, NoneAdded
<1>7. QED  BY <1>1, <1>2, <1>3, <1>4, <1>5, <1>6 DEF PlacementIInv

\* The dropped node is without containers if no other request overlapped.
LEMMA RemoveDropKeeps ==
  ASSUME PlacementIInv, NEW p \in Procs, RemoveDrop(p)
  PROVE  PlacementIInv'
<1>0. TypeOK /\ Alone /\ Chosen /\ NoDangling /\ MovesRequested /\ Bounded
  BY DEF PlacementIInv
<1>b. /\ loc' \in [Procs -> [node : NodeIds \cup {NoNode}, host : Hosts,
                             name : Names \cup {NoName}]]
      /\ pc' \in [Procs -> PCs] /\ pc[p] = "drop" /\ pc'[p] = "idle"
      /\ \A q \in Procs : q # p => pc'[q] = pc[q] /\ loc'[q] = loc[q]
      /\ scenario' = scenario
  BY <1>0, IdleType DEF RemoveDrop
<1>u. UNCHANGED <<node, where>> /\ nodes' = nodes \ {loc[p].node}
  BY DEF RemoveDrop
<1>1. TypeOK'
  BY <1>0, <1>b, <1>u DEF TypeOK
<1>2. Alone'
  BY <1>0, <1>b DEF Alone, Picked
<1>3. Chosen'
  BY <1>0, <1>b DEF Chosen, Alone
<1>4. NoDangling'
  BY <1>0, <1>b, <1>u DEF NoDangling, Chosen, On
<1>5. MovesRequested'
  BY <1>0, <1>b DEF MovesRequested, Ops, Picked
<1>6. Bounded'
  <2>1. UNCHANGED scenario /\ nodes' \subseteq nodes
    BY <1>b, <1>u DEF Picked
  <2>2. ASSUME NEW d \in nodes'
        PROVE  /\ node'[d].maxContainers = node[d].maxContainers
               /\ On(d)' \subseteq On(d) /\ Pending(d)' \subseteq Pending(d)
    BY <1>b, <1>u DEF On, Pending
  <2>3. QED  BY <1>0, <2>1, <2>2, NoneAdded
<1>7. QED  BY <1>1, <1>2, <1>3, <1>4, <1>5, <1>6 DEF PlacementIInv

\* Nothing changes.
LEMMA StutterKeeps ==
  ASSUME PlacementIInv, UNCHANGED vars
  PROVE  PlacementIInv'
<1>0. TypeOK /\ Alone /\ Chosen /\ NoDangling /\ MovesRequested /\ Bounded
  BY DEF PlacementIInv
<1>1. TypeOK'
  BY <1>0 DEF TypeOK, vars
<1>2. Alone'
  BY <1>0 DEF Alone, vars
<1>3. Chosen'
  BY <1>0 DEF Chosen, On, vars
<1>4. NoDangling'
  BY <1>0 DEF NoDangling, vars
<1>5. MovesRequested'
  BY <1>0 DEF MovesRequested, Ops, vars
<1>6. Bounded'
  <2>1. UNCHANGED scenario /\ nodes' \subseteq nodes
    BY DEF vars
  <2>2. ASSUME NEW d \in nodes'
        PROVE  /\ node'[d].maxContainers = node[d].maxContainers
               /\ On(d)' \subseteq On(d) /\ Pending(d)' \subseteq Pending(d)
    BY DEF On, Pending, vars
  <2>3. QED  BY <1>0, <2>1, <2>2, NoneAdded
<1>7. QED  BY <1>1, <1>2, <1>3, <1>4, <1>5, <1>6 DEF PlacementIInv

LEMMA InitOK == Init => PlacementIInv
<1> SUFFICES ASSUME Init PROVE PlacementIInv
  OBVIOUS
<1>1. TypeOK
  <2>1. SomeHost \in Hosts /\ (CHOOSE c \in Caps : TRUE) \in Caps
    BY HostsAssumption, CapsAssumption DEF SomeHost
  <2>2. QED  BY <2>1 DEF Init, TypeOK, NodeRecord, PCs, Idle
<1>2. Alone /\ Chosen /\ NoDangling /\ MovesRequested /\ Bounded
  BY DEF Init, Alone, Chosen, NoDangling, MovesRequested, Bounded
<1>3. QED  BY <1>1, <1>2 DEF PlacementIInv

\* Every action keeps the invariant.
LEMMA NextKeeps == PlacementIInv /\ [Next]_vars => PlacementIInv'
<1> SUFFICES ASSUME PlacementIInv, [Next]_vars PROVE PlacementIInv'
  OBVIOUS
<1>1. CASE UNCHANGED vars
  BY <1>1, StutterKeeps
<1>2. CASE \E p \in Procs : ContainerStep(p)
  BY <1>2, PickKeeps, DefaultKeeps, RegisterKeeps, CreateOKKeeps,
     CreateFailKeeps, MoveStartKeeps, MoveEndKeeps DEF ContainerStep
<1>3. CASE \E p \in Procs : NodeStep(p)
  BY <1>3, AddKeeps, RehostStartKeeps, RemoveStartKeeps, ProvisionedKeeps,
     RehostEndKeeps, RemoveCountKeeps, RemoveDropKeeps DEF NodeStep
<1>4. CASE \E n \in Names : Delete(n)
  BY <1>4, DeleteKeeps
<1>5. CASE \E d \in NodeIds, c \in Caps : updateNodeConfig(d, c)
  BY <1>5, UpdateKeeps
<1>6. CASE \E d \in NodeIds : RebuildStart(d) \/ RebuildEnd(d)
  BY <1>6, RebuildStartKeeps, RebuildEndKeeps
<1>7. QED
  BY <1>1, <1>2, <1>3, <1>4, <1>5, <1>6 DEF Next

\* The node of a registered container exists, as long as requests are made one
\* after another.
THEOREM PlacementSafe == Spec => []PlacementInv
<1>1. PlacementIInv => PlacementInv
  BY DEF PlacementIInv, PlacementInv
<1>2. QED
  BY InitOK, NextKeeps, <1>1, PTL DEF Spec

\* However many creations are in flight at once, they overshoot a capacity by
\* less than their number.
THEOREM OvershootIsBounded == Spec => []OvershootBounded
<1>1. PlacementIInv => OvershootBounded
  <2> SUFFICES ASSUME PlacementIInv, Picked, NEW d \in nodes
               PROVE  Count(d) < node[d].maxContainers + Cardinality(Procs)
    BY DEF OvershootBounded
  <2>1. Count(d) + Cardinality(Pending(d))
          < node[d].maxContainers + Cardinality(Procs)
    BY DEF PlacementIInv, Bounded
  <2>2. node[d].maxContainers \in Nat
    BY CapsAssumption DEF PlacementIInv, TypeOK, NodeRecord
  <2>3. QED  BY <2>1, <2>2, Finite
<1>2. QED
  BY InitOK, NextKeeps, <1>1, PTL DEF Spec

==============================================================================
