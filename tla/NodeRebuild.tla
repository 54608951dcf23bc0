---------------------------- MODULE NodeRebuild ----------------------------
(***************************************************************************)
(* Rebuilding a node and moving it to another machine (nodes.go:           *)
(* rebuildNode, recreateAllContainersOnNode, handleNodeMigrate), with the  *)
(* health checks and the restarts of the process that interleave with it.  *)
(*                                                                         *)
(* A goroutine g of Goroutines serves one request; an action is one        *)
(* critical section, or one exchange with the machine.  The containers     *)
(* exist before the first step and are neither created nor deleted here.   *)
(***************************************************************************)
EXTENDS Naturals, FiniteSets

CONSTANTS NodeIds, Hosts, Names, Goroutines, NoNode,
          Settings \* what surrounds them: see the assumption

ASSUME NonEmptyAssumption == NodeIds # {} /\ Hosts # {}
ASSUME NullAssumption == NoNode \notin NodeIds
\* nodes: those that there are.  ops: the requests that are made.  faults:
\* "machine": SSH, the setup script or LXD fail.  "crash": the process ends
\* and is started again.
ASSUME SettingsAssumption ==
  Settings \subseteq [nodes : (SUBSET NodeIds) \ {{}},
                      ops : SUBSET {"rebuild", "migrate", "remove"},
                      faults : SUBSET {"machine", "crash"}]

VARIABLES
  setting,    \* one of Settings, from beginning to end
  nodes,      \* the keys of the map nodes
  nState, nHealth, sshHost, \* fields of each node record
  home,       \* the NodePublicIP of each container
  onNode,     \* its Node
  cState, cHealth,          \* its State and Health
  there,      \* per machine, the containers in its LXD
  pc, loc     \* where each goroutine is, and its local variables

nodeVars == <<nodes, nState, nHealth, sshHost>>
instVars == <<home, onNode, cState, cHealth>>
rebuildVars == <<setting, nodeVars, instVars, there, pc, loc>>

Ops == setting.ops
Faults == setting.faults

Transient == {"creating", "rebuilding"}
PCs == {"idle", "mark", "check", "begin", "setup", "failState", "failHealth",
        "assign", "connect", "recreate", "judge", "finish"}
Local == [node : NodeIds \cup {NoNode}, left : SUBSET Names,
          hasContainers : BOOLEAN, allHealthy : BOOLEAN]
Idle == [node |-> NoNode, left |-> {}, hasContainers |-> FALSE,
         allHealthy |-> FALSE]

RebuildTypes ==
  /\ setting \in Settings
  /\ nodes \subseteq NodeIds
  /\ nState \in [NodeIds -> {"creating", "active", "rebuilding"}]
  /\ nHealth \in [NodeIds -> {"", "unhealthy", "lost"}]
  /\ sshHost \in [NodeIds -> Hosts]
  /\ home \in [Names -> Hosts] /\ onNode \in [Names -> NodeIds]
  /\ cState \in [Names -> {"running", "creating"}]
  /\ cHealth \in [Names -> {"", "lost"}]
  /\ there \in [Hosts -> SUBSET Names]
  /\ pc \in [Goroutines -> PCs]
  /\ loc \in [Goroutines -> Local]

MachineMayFail == "machine" \in Faults
Goto(g, from, to) ==
  /\ pc[g] = from /\ pc' = [pc EXCEPT ![g] = to]
  /\ UNCHANGED setting
D(g) == loc[g].node
Return(g, from) == Goto(g, from, "idle") /\ loc' = [loc EXCEPT ![g] = Idle]

(***************************************************************************)
(* Requests                                                                *)
(***************************************************************************)
Steady(d) == d \in nodes /\ nState[d] \notin Transient

\* handleNodeRebuild refuses a node that is in a transient state.
RebuildRequest(g, d) ==
  /\ "rebuild" \in Ops
  /\ Goto(g, "idle", "check")
  /\ Steady(d)
  /\ loc' = [loc EXCEPT ![g] = [Idle EXCEPT !.node = d]]
  /\ UNCHANGED <<nodeVars, instVars, there>>

\* handleNodeMigrate does not look at the state of the node.
MigrateRequest(g, d, h) ==
  /\ "migrate" \in Ops
  /\ Goto(g, "idle", "mark")
  /\ d \in nodes
  /\ sshHost' = [sshHost EXCEPT ![d] = h]
  /\ loc' = [loc EXCEPT ![g] = [Idle EXCEPT !.node = d]]
  /\ UNCHANGED <<nodes, nState, nHealth, instVars, there>>
MigrateMark(g) ==
  /\ Goto(g, "mark", "check")
  /\ cState' = [n \in Names |-> IF onNode[n] = D(g) THEN "creating"
                                ELSE cState[n]]
  /\ cHealth' = [n \in Names |-> IF onNode[n] = D(g) THEN "" ELSE cHealth[n]]
  /\ UNCHANGED <<nodeVars, home, onNode, there, loc>>

RemoveNode(d) ==
  /\ "remove" \in Ops
  /\ d \in nodes /\ \A n \in Names : onNode[n] # d
  /\ nodes' = nodes \ {d}
  /\ UNCHANGED <<nState, nHealth, sshHost, instVars, there, pc, loc, setting>>

(***************************************************************************)
(* rebuildNode                                                             *)
(***************************************************************************)
CheckSteady(g) ==
  /\ \/ Steady(D(g)) /\ Goto(g, "check", "begin") /\ UNCHANGED loc
     \/ ~Steady(D(g)) /\ Return(g, "check")
  /\ UNCHANGED <<nodeVars, instVars, there>>

SetNode(d, state, health) ==
  /\ nState' = IF d \in nodes THEN [nState EXCEPT ![d] = state] ELSE nState
  /\ nHealth' = IF d \in nodes THEN [nHealth EXCEPT ![d] = health] ELSE nHealth
  /\ UNCHANGED <<nodes, sshHost>>

BeginRebuild(g) ==
  /\ Goto(g, "begin", "setup")
  /\ SetNode(D(g), "rebuilding", "")
  /\ UNCHANGED <<instVars, there, loc>>

\* node-setup.sh empties LXD; it may fail before or after that.
Setup(g) ==
  /\ D(g) \in nodes
  /\ \/ /\ Goto(g, "setup", "assign")
        /\ there' = [there EXCEPT ![sshHost[D(g)]] = {}]
     \/ /\ MachineMayFail /\ Goto(g, "setup", "failState")
        /\ there' \in {there, [there EXCEPT ![sshHost[D(g)]] = {}]}
  /\ UNCHANGED <<nodeVars, instVars, loc>>
\* The node was removed meanwhile: getSSHClient does not find it.
SetupGone(g) ==
  /\ D(g) \notin nodes /\ Goto(g, "setup", "failState")
  /\ UNCHANGED <<nodeVars, instVars, there, loc>>

\* Mutant of FailState: an error return that leaves the node rebuilding.
FailStateForgotten(g) ==
  /\ Goto(g, "failState", "failHealth")
  /\ UNCHANGED <<nodeVars, instVars, there, loc>>
FailState(g) ==
  /\ Goto(g, "failState", "failHealth")
  /\ SetNode(D(g), "active", "")
  /\ UNCHANGED <<instVars, there, loc>>
FailHealth(g) ==
  /\ Return(g, "failHealth")
  /\ SetNode(D(g), nState[D(g)], "unhealthy")
  /\ UNCHANGED <<instVars, there>>

\* The containers of a node are those that have its host in their record.
Homed(d) == {n \in Names : home[n] = sshHost[d]}
\* Mutant of Assign: the containers are not marked for recreation.
AssignUnmarked(g) ==
  /\ Goto(g, "assign", "connect")
  /\ onNode' = [n \in Names |-> IF n \in Homed(D(g)) THEN D(g) ELSE onNode[n]]
  /\ loc' = [loc EXCEPT ![g].hasContainers = Homed(D(g)) # {}]
  /\ UNCHANGED <<nodeVars, home, cState, cHealth, there>>
Assign(g) ==
  /\ Goto(g, "assign", "connect")
  /\ onNode' = [n \in Names |-> IF n \in Homed(D(g)) THEN D(g) ELSE onNode[n]]
  /\ cState' = [n \in Names |-> IF n \in Homed(D(g)) THEN "creating"
                                ELSE cState[n]]
  /\ loc' = [loc EXCEPT ![g].hasContainers = Homed(D(g)) # {}]
  /\ UNCHANGED <<nodeVars, home, cHealth, there>>

\* Mutant of Lacking: containers that a migration marked are overlooked.
LackingLost(d) == {n \in Names : onNode[n] = d /\ cHealth[n] = "lost"}
\* recreateAllContainersOnNode: connect, then select under instMu.
Lacking(d) == {n \in Names : /\ onNode[n] = d
                             /\ cState[n] = "creating" \/ cHealth[n] = "lost"}
Connect(g) ==
  /\ \/ /\ D(g) \in nodes
        /\ Goto(g, "connect", "recreate")
        /\ loc' = [loc EXCEPT ![g].left = Lacking(D(g))]
     \/ /\ MachineMayFail \/ D(g) \notin nodes
        /\ Goto(g, "connect", "judge") /\ UNCHANGED loc
  /\ UNCHANGED <<nodeVars, instVars, there>>

\* createContainerOnNode for the next container; an error is logged.
RecreateOK(g, n) ==
  /\ pc[g] = "recreate" /\ n \in loc[g].left
  /\ n \notin there[sshHost[D(g)]]
  /\ there' = [there EXCEPT ![sshHost[D(g)]] = @ \cup {n}]
  /\ cState' = [cState EXCEPT ![n] = "running"]
  /\ cHealth' = [cHealth EXCEPT ![n] = ""]
  /\ home' = [home EXCEPT ![n] = IF D(g) \in nodes THEN sshHost[D(g)] ELSE @]
  /\ loc' = [loc EXCEPT ![g].left = @ \ {n}]
  /\ UNCHANGED <<nodeVars, onNode, pc, setting>>
RecreateFail(g, n) ==
  /\ pc[g] = "recreate" /\ n \in loc[g].left
  /\ MachineMayFail \/ n \in there[sshHost[D(g)]]
  /\ loc' = [loc EXCEPT ![g].left = @ \ {n}]
  /\ UNCHANGED <<nodeVars, instVars, there, pc, setting>>
RecreateDone(g) ==
  /\ loc[g].left = {} /\ Goto(g, "recreate", "judge")
  /\ UNCHANGED <<nodeVars, instVars, there, loc>>

\* Mutant of Judge: only containers found lost make the node unhealthy.
JudgeLostOnly(g) ==
  /\ Goto(g, "judge", "finish")
  /\ loc' = [loc EXCEPT ![g].allHealthy =
               ~\E n \in Names : onNode[n] = D(g) /\ cHealth[n] = "lost"]
  /\ UNCHANGED <<nodeVars, instVars, there>>
Judge(g) ==
  /\ Goto(g, "judge", "finish")
  /\ loc' = [loc EXCEPT ![g].allHealthy =
               ~(loc[g].hasContainers /\ Lacking(D(g)) # {})]
  /\ UNCHANGED <<nodeVars, instVars, there>>

\* The state a restarted process finds: loadNodes ends transient states.
Reloaded ==
  /\ nState' = [d \in NodeIds |-> IF nState[d] \in Transient THEN "active"
                                  ELSE nState[d]]
  /\ nHealth' = [d \in NodeIds |-> IF nState[d] \in Transient
                                   THEN "unhealthy" ELSE nHealth[d]]
  /\ pc' = [g \in Goroutines |-> "idle"]
  /\ loc' = [g \in Goroutines |-> Idle]
  /\ UNCHANGED <<nodes, sshHost, instVars, there, setting>>

\* The log line at the end dereferences nodes[nodeID]: if the node is gone,
\* the goroutine panics, and nothing recovers it.
Finish(g) ==
  \/ /\ D(g) \in nodes
     /\ Return(g, "finish")
     /\ SetNode(D(g), "active", IF loc[g].allHealthy THEN nHealth[D(g)]
                                ELSE "unhealthy")
     /\ UNCHANGED <<instVars, there>>
  \/ /\ pc[g] = "finish" /\ D(g) \notin nodes
     /\ Reloaded
CrashProcess == "crash" \in Faults /\ Reloaded

(***************************************************************************)
(* The health checks, as far as these fields are concerned                 *)
(***************************************************************************)
checkNodeHealth(d) ==
  /\ Steady(d)
  /\ \/ nHealth' = [nHealth EXCEPT ![d] = ""]
     \/ MachineMayFail /\ nHealth' = [nHealth EXCEPT ![d] = "lost"]
  /\ UNCHANGED <<nodes, nState, sshHost, instVars, there, pc, loc, setting>>
checkContainer(n) ==
  /\ cState[n] = "running"
  /\ LET d == onNode[n]
         lost == \/ d \notin nodes \/ nHealth[d] = "lost"
                 \/ nState[d] = "active" /\ n \notin there[sshHost[d]]
     IN  cHealth' = [cHealth EXCEPT ![n] = IF lost THEN "lost" ELSE ""]
  /\ UNCHANGED <<nodeVars, home, onNode, cState, there, pc, loc, setting>>

\* Every node has a machine of its own and its containers run there.
RebuildInit ==
  /\ setting \in Settings
  /\ nodes = setting.nodes
  /\ nState = [d \in NodeIds |-> "active"]
  /\ nHealth = [d \in NodeIds |-> ""]
  /\ sshHost \in [NodeIds -> Hosts]
  /\ \A d, e \in NodeIds : sshHost[d] = sshHost[e] => d = e
  /\ onNode \in [Names -> nodes]
  /\ home = [n \in Names |-> sshHost[onNode[n]]]
  /\ cState = [n \in Names |-> "running"]
  /\ cHealth = [n \in Names |-> ""]
  /\ there = [h \in Hosts |-> {n \in Names : home[n] = h}]
  /\ pc = [g \in Goroutines |-> "idle"]
  /\ loc = [g \in Goroutines |-> Idle]

RebuildStep(g) ==
  \/ MigrateMark(g) \/ CheckSteady(g) \/ BeginRebuild(g)
  \/ Setup(g) \/ SetupGone(g) \/ FailState(g) \/ FailHealth(g)
  \/ Assign(g) \/ Connect(g)
  \/ \E n \in Names : RecreateOK(g, n) \/ RecreateFail(g, n)
  \/ RecreateDone(g) \/ Judge(g) \/ Finish(g)
RebuildNext ==
  \/ \E g \in Goroutines : RebuildStep(g)
  \/ \E g \in Goroutines, d \in NodeIds : RebuildRequest(g, d)
  \/ \E g \in Goroutines, d \in NodeIds, h \in Hosts : MigrateRequest(g, d, h)
  \/ \E d \in NodeIds : RemoveNode(d) \/ checkNodeHealth(d)
  \/ \E n \in Names : checkContainer(n)
  \/ CrashProcess
RebuildSpec == RebuildInit /\ [][RebuildNext]_rebuildVars
\* A goroutine that can go on does; a call to a machine returns.
RebuildFairSpec ==
  RebuildSpec /\ \A g \in Goroutines : WF_rebuildVars(RebuildStep(g))

(***************************************************************************)
(* Properties                                                              *)
(***************************************************************************)
\* "rebuilding -> active (all succeeded) or active with health=unhealthy (some
\* failed)" (doc/api.md:530, 549): a rebuild that ends while containers of the
\* node still wait to be created says so.  After a node migration rebuildNode
\* looks for containers by the new host, finds none, and does not judge.  (Of
\* two rebuilds of a node that both passed the check, one may report before the
\* other marks the containers.)
OneRebuild == \A g, h \in Goroutines : g = h
RebuildReports ==
  [][\A g \in Goroutines :
        (/\ OneRebuild /\ "migrate" \notin Ops
         /\ pc[g] = "finish" /\ pc'[g] = "idle" /\ D(g) \in nodes
         /\ \E n \in Names : onNode[n] = D(g) /\ cState[n] = "creating")
          => nHealth'[D(g)] = "unhealthy"]_rebuildVars

\* A node does not stay in the state rebuilding, whatever fails or crashes.
RebuildingEnds ==
  \A d \in NodeIds : (nState[d] = "rebuilding")
                       ~> (nState[d] # "rebuilding" \/ d \notin nodes)

\* When no machine fails, every container that was marked for recreation by a
\* rebuild or a migration of its node runs again (doc/api.md:524-530).
Recovered ==
  \A n \in Names :
     (Faults = {} /\ cState[n] = "creating") ~> (cState[n] = "running")

\* When no machine fails and nobody is busy with the node, the containers that
\* are reported running on it are in its LXD.  A node may not be moved to the
\* machine of another one, though, which nothing prevents; nor end the process
\* by a rebuild of a node that is gone (see Finish), which leaves the rebuilds
\* of other nodes where they are.
Quiet(d) == \A g \in Goroutines : D(g) # d
Undisturbed ==
  /\ Faults = {}
  /\ \/ \A d, e \in setting.nodes : d = e
     \/ "migrate" \notin Ops /\ ("remove" \notin Ops \/ OneRebuild)
RunningIsThere ==
  Undisturbed =>
    \A n \in Names :
       (Quiet(onNode[n]) /\ cState[n] = "running")
         => n \in there[sshHost[onNode[n]]]
\* Well typed, with the running containers in place.
RebuildInv == RebuildTypes /\ RunningIsThere
=============================================================================
