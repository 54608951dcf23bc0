----------------------------- MODULE Placement -----------------------------
(***************************************************************************)
(* Which node a container is on (nodes.go, server.go): nodes are added,    *)
(* updated, given a new host and removed; containers are placed by         *)
(* pickNode or getDefaultNodeClient, moved by migrateContainer, deleted.   *)
(* There is one region.  One action is one critical section of nodesMu or  *)
(* instMu; pickNode holds both.                                            *)
(***************************************************************************)
EXTENDS Naturals, FiniteSets

CONSTANTS NodeIds, Hosts, \* node identifiers and SSH hosts
          Names,          \* container names
          Procs,          \* request goroutines
          Caps,           \* the values given to maxContainers
          Scenarios,      \* which requests are made, and do they overlap
          NoNode, NoName

Requests == {"create", "default", "delete", "add", "update", "rehost",
             "remove", "move", "rebuild"}
ASSUME CapsAssumption == Caps \subseteq Nat /\ Caps # {}
ASSUME HostsAssumption == Hosts # {}
ASSUME ScenariosAssumption ==
  Scenarios \subseteq [ops : SUBSET Requests, serial : BOOLEAN]
ASSUME FiniteAssumption == IsFiniteSet(Names) /\ IsFiniteSet(Procs)
ASSUME NullAssumption == NoNode \notin NodeIds /\ NoName \notin Names

VARIABLES
  scenario,\* one of Scenarios, from beginning to end
  nodes,   \* the keys of the map nodes
  node,    \* the record of each node
  where,   \* the Node of each registered container; NoNode: not registered
  pc, loc  \* where each request is, and the node, name and host it works on

vars == <<scenario, nodes, node, where, pc, loc>>
Ops == scenario.ops

NodeRecord == [state : {"creating", "active", "rebuilding"},
               maxContainers : Caps, sshHost : Hosts]
PCs == {"idle", "register", "lxd", "count", "drop", "provision", "rehost",
        "move"}

TypeOK ==
  /\ scenario \in Scenarios
  /\ nodes \subseteq NodeIds
  /\ node \in [NodeIds -> NodeRecord]
  /\ where \in [Names -> NodeIds \cup {NoNode}]
  /\ pc \in [Procs -> PCs]
  /\ loc \in [Procs -> [node : NodeIds \cup {NoNode}, name : Names \cup {NoName},
                        host : Hosts]]

On(d) == {n \in Names : where[n] = d}
Count(d) == Cardinality(On(d))

SomeHost == CHOOSE h \in Hosts : TRUE
Idle == [node |-> NoNode, name |-> NoName, host |-> SomeHost]
Goto(p, from, to) ==
  /\ pc[p] = from /\ pc' = [pc EXCEPT ![p] = to]
  /\ UNCHANGED scenario
\* Serial requests: each begins when the one before it has ended.
Begin(p, to) ==
  /\ Goto(p, "idle", to)
  /\ scenario.serial => \A q \in Procs : pc[q] = "idle"
Return(p, from) == Goto(p, from, "idle") /\ loc' = [loc EXCEPT ![p] = Idle]
Work(p, d, n, h) ==
  loc' = [loc EXCEPT ![p] = [node |-> d, name |-> n, host |-> h]]

(***************************************************************************)
(* Creating and deleting containers                                        *)
(***************************************************************************)
\* Mutant of Eligible: the capacity is exceeded by one.
EligibleOffByOne(d) ==
  /\ d \in nodes /\ node[d].state = "active"
  /\ node[d].maxContainers # 0 /\ Count(d) <= node[d].maxContainers
Eligible(d) ==
  /\ d \in nodes /\ node[d].state = "active"
  /\ node[d].maxContainers # 0 /\ Count(d) < node[d].maxContainers

\* pickNode: an eligible node with the fewest containers.
pickNode(p, d) ==
  /\ "create" \in Ops
  /\ Begin(p, "register")
  /\ Eligible(d) /\ \A e \in NodeIds : Eligible(e) => Count(d) <= Count(e)
  /\ Work(p, d, NoName, SomeHost)
  /\ UNCHANGED <<nodes, node, where>>

\* A request without a region: any node that answers.
getDefaultNodeClient(p, d) ==
  /\ "default" \in Ops
  /\ Begin(p, "register")
  /\ d \in nodes
  /\ Work(p, d, NoName, SomeHost)
  /\ UNCHANGED <<nodes, node, where>>

Unused(n) == where[n] = NoNode /\ \A p \in Procs : loc[p].name # n

Register(p, n) ==
  /\ Unused(n)
  /\ Goto(p, "register", "lxd")
  /\ where' = [where EXCEPT ![n] = loc[p].node]
  /\ Work(p, loc[p].node, n, SomeHost)
  /\ UNCHANGED <<nodes, node>>

CreateOK(p) == Return(p, "lxd") /\ UNCHANGED <<nodes, node, where>>
CreateFail(p) ==
  /\ Return(p, "lxd")
  /\ where' = [where EXCEPT ![loc[p].name] = NoNode]
  /\ UNCHANGED <<nodes, node>>

Delete(n) ==
  /\ "delete" \in Ops
  /\ where[n] # NoNode
  /\ where' = [where EXCEPT ![n] = NoNode]
  /\ UNCHANGED <<nodes, node, pc, loc, scenario>>

\* handleAdminMigrateContainer checks the target; migrateContainer ends by
\* writing it into the record, if there is one still.
MoveStart(p, n, d) ==
  /\ "move" \in Ops
  /\ Begin(p, "move")
  /\ where[n] \notin {NoNode, d} /\ d \in nodes /\ node[d].state = "active"
  /\ Work(p, d, n, SomeHost)
  /\ UNCHANGED <<nodes, node, where>>
MoveEnd(p) ==
  /\ Return(p, "move")
  /\ \/ UNCHANGED where                    \* LXD failed on the target
     \/ where' = [where EXCEPT ![loc[p].name] =
                    IF @ = NoNode THEN NoNode ELSE loc[p].node]
  /\ UNCHANGED <<nodes, node>>

(***************************************************************************)
(* Nodes                                                                   *)
(***************************************************************************)
NewId(d) ==
  /\ d \notin nodes /\ On(d) = {}
  /\ \A p \in Procs : loc[p].node # d

addNode(p, d, h, c) ==
  /\ "add" \in Ops
  /\ Begin(p, "provision")
  /\ NewId(d)
  /\ \A e \in nodes : node[e].sshHost # h
  /\ nodes' = nodes \cup {d}
  /\ node' = [node EXCEPT ![d] = [state |-> "creating", maxContainers |-> c,
                                  sshHost |-> h]]
  /\ Work(p, d, NoName, h)
  /\ UNCHANGED where

\* Mutant of Provisioned: a state that no other code knows.
ProvisionedReady(p) ==
  /\ Return(p, "provision")
  /\ node' = [node EXCEPT ![loc[p].node].state = "ready"]
  /\ UNCHANGED <<nodes, where>>
\* Failed or not, the node becomes active (its health is not kept here).
Provisioned(p) ==
  /\ Return(p, "provision")
  /\ node' = IF loc[p].node \in nodes
             THEN [node EXCEPT ![loc[p].node].state = "active"] ELSE node
  /\ UNCHANGED <<nodes, where>>

updateNodeConfig(d, c) ==
  /\ "update" \in Ops
  /\ d \in nodes
  /\ node' = [node EXCEPT ![d].maxContainers = c]
  /\ UNCHANGED <<nodes, where, pc, loc, scenario>>

\* rebuildNode as far as placement is concerned: the state of the node.
RebuildStart(d) ==
  /\ "rebuild" \in Ops
  /\ d \in nodes /\ node[d].state = "active"
  /\ node' = [node EXCEPT ![d].state = "rebuilding"]
  /\ UNCHANGED <<nodes, where, pc, loc, scenario>>
RebuildEnd(d) ==
  /\ d \in nodes /\ node[d].state = "rebuilding"
  /\ node' = [node EXCEPT ![d].state = "active"]
  /\ UNCHANGED <<nodes, where, pc, loc, scenario>>

\* handleNodeMigrate finds the record under nodesMu and writes it later.
RehostStart(p, d, h) ==
  /\ "rehost" \in Ops
  /\ Begin(p, "rehost")
  /\ d \in nodes
  /\ Work(p, d, NoName, h)
  /\ UNCHANGED <<nodes, node, where>>
RehostEnd(p) ==
  /\ Return(p, "rehost")
  /\ node' = [node EXCEPT ![loc[p].node].sshHost = loc[p].host]
  /\ UNCHANGED <<nodes, where>>

\* removeNode: is there such a node, has it containers, drop it.
RemoveStart(p, d) ==
  /\ "remove" \in Ops
  /\ Begin(p, "count")
  /\ d \in nodes
  /\ Work(p, d, NoName, SomeHost)
  /\ UNCHANGED <<nodes, node, where>>
\* Mutant of RemoveCount: the containers are not counted.
RemoveUncounted(p) ==
  Goto(p, "count", "drop") /\ UNCHANGED <<nodes, node, where, loc>>
RemoveCount(p) ==
  /\ \/ Count(loc[p].node) = 0 /\ Goto(p, "count", "drop") /\ UNCHANGED loc
     \/ Count(loc[p].node) # 0 /\ Return(p, "count")
  /\ UNCHANGED <<nodes, node, where>>
RemoveDrop(p) ==
  /\ Return(p, "drop")
  /\ nodes' = nodes \ {loc[p].node}
  /\ UNCHANGED <<node, where>>

Init ==
  /\ scenario \in Scenarios
  /\ nodes = {}
  /\ node = [d \in NodeIds |-> [state |-> "creating",
                                maxContainers |-> CHOOSE c \in Caps : TRUE,
                                sshHost |-> SomeHost]]
  /\ where = [n \in Names |-> NoNode]
  /\ pc = [p \in Procs |-> "idle"]
  /\ loc = [p \in Procs |-> Idle]

ContainerStep(p) ==
  \/ \E d \in NodeIds : pickNode(p, d) \/ getDefaultNodeClient(p, d)
  \/ \E n \in Names : Register(p, n)
  \/ CreateOK(p) \/ CreateFail(p)
  \/ \E n \in Names, d \in NodeIds : MoveStart(p, n, d)
  \/ MoveEnd(p)
NodeStep(p) ==
  \/ \E d \in NodeIds, h \in Hosts, c \in Caps : addNode(p, d, h, c)
  \/ \E d \in NodeIds, h \in Hosts : RehostStart(p, d, h)
  \/ \E d \in NodeIds : RemoveStart(p, d)
  \/ Provisioned(p) \/ RehostEnd(p) \/ RemoveCount(p) \/ RemoveDrop(p)
Next ==
  \/ \E p \in Procs : ContainerStep(p) \/ NodeStep(p)
  \/ \E n \in Names : Delete(n)
  \/ \E d \in NodeIds, c \in Caps : updateNodeConfig(d, c)
  \/ \E d \in NodeIds : RebuildStart(d) \/ RebuildEnd(d)
Spec == Init /\ [][Next]_vars

(***************************************************************************)
(* Properties                                                              *)
(***************************************************************************)
\* A node is deleted only with no container on it (doc/api.md:591-607): the
\* node of a registered container exists.  removeNode counts, unlocks and
\* removes, so a creation that overlaps it can still register on the node.
NoDangling ==
  scenario.serial => \A n \in Names : where[n] # NoNode => where[n] \in nodes
\* Well typed, without a container on a removed node.
PlacementInv == TypeOK /\ NoDangling

\* pickNode counts before the container is registered, so creations in flight
\* can overshoot a fixed maxContainers, but by less than their number.  The
\* default node and the target of a migration are chosen without counting.
Picked == Ops \cap {"default", "move", "update"} = {}
OvershootBounded ==
  Picked =>
    \A d \in nodes : Count(d) < node[d].maxContainers + Cardinality(Procs)
=============================================================================
