----------------------------- MODULE Lifecycle -----------------------------
(***************************************************************************)
(* A container's life on one active node, as lxc-manager sees it and as it *)
(* is: the state and health fields of its record (server.go, health.go),   *)
(* the LXD container, its DNAT rules and the health of the node.           *)
(*                                                                         *)
(* A handler is a script: the calls it makes, in order, each one action.   *)
(* instMu is taken and released inside one call, so the calls of different *)
(* goroutines interleave freely.  Requests run in Procs, and the health    *)
(* checks (startStateCheckLoop, handleRefreshContainer) in Checkers.       *)
(***************************************************************************)
EXTENDS Sequences, Naturals, FiniteSets

CONSTANTS Names,    \* container names
          Procs,    \* request goroutines
          Checkers, \* goroutines that run health checks
          Scenarios \* what the surroundings do: see the assumption

Requests == {"create", "start", "stop", "restart", "delete", "destroy",
             "rebuild", "get"}
\* ops: the requests that are made.  serial: a request or check begins when
\* the one before it has ended.  faults: what may go wrong.  "lxd": a call to
\* LXD or SSH fails.  "lost": a call to LXD takes effect, and the wait for its
\* answer fails.  "node": the host goes down and comes back without its
\* iptables rules.  "halt": a container stops by itself.  "mute": a running
\* container answers no command.
ASSUME ScenariosAssumption ==
  Scenarios \subseteq [ops : SUBSET Requests, serial : BOOLEAN,
                      faults : SUBSET {"lxd", "lost", "node", "halt", "mute"}]

ASSUME NamesAssumption == Names # {}

stateMaxFails == 3

VARIABLES
  scenario,      \* one of Scenarios, from beginning to end
  registered,    \* the keys of the map instances
  state, health, \* the fields of each record
  lxd,           \* the container in LXD: "none", "Stopped" or "Running"
  mute,          \* the containers whose processes answer nothing
  rule,          \* the containers whose DNAT rules are on the node
  fails,         \* stateFails, not counted beyond stateMaxFails
  nodeUp, nodeHealth,
  todo,          \* per goroutine, the calls it has still to make
  job            \* per goroutine, its request and the container it is for

record == <<registered, state, health>>
host   == <<lxd, mute, rule>>
node   == <<nodeUp, nodeHealth>>
vars   == <<scenario, record, host, fails, node, todo, job>>

Ops    == scenario.ops
Faults == scenario.faults

Goroutines == Procs \cup Checkers
Checks == {"checkNode", "checkContainer"}
Steps == {"register", "create", "start", "stop", "delete", "find", "forward",
          "unforward", "setRunning", "setStopped", "setCreating", "created",
          "unregister", "nodeUnhealthy", "nodeLost", "nodeClear", "syncDNAT",
          "ping", "askNode", "inspect", "look", "exec", "markLost",
          "markUnhealthy", "clearHealth"}

TypeOK ==
  /\ scenario \in Scenarios
  /\ registered \subseteq Names
  /\ state \in [Names -> {"creating", "running", "stopped"}]
  /\ health \in [Names -> {"", "unhealthy", "lost"}]
  /\ lxd \in [Names -> {"none", "Stopped", "Running"}]
  /\ mute \subseteq Names /\ rule \subseteq Names
  /\ fails \in [Names -> 0 .. stateMaxFails]
  /\ nodeUp \in BOOLEAN /\ nodeHealth \in {"", "unhealthy", "lost"}
  /\ \A g \in Goroutines :
        /\ todo[g] \in Seq(Steps)
        /\ job[g].op \in Requests \cup Checks \cup {"none"}
        /\ job[g].name \in Names

(***************************************************************************)
(* The scripts of the handlers                                             *)
(***************************************************************************)
\* Mutant of createContainerOnNode: the DNAT rules are left out.
createWithoutForward  == <<"create", "start", "created">>
createContainerOnNode == <<"create", "start", "forward", "created">>
createContainerCore   == <<"register">> \o createContainerOnNode
\* Mutant of handleStart: its last call is left out.
handleStartSilent == <<"start">>

handleStart   == <<"start", "setRunning">>
handleStop    == <<"stop", "setStopped">>
handleRestart == <<"stop", "start", "setRunning">>
\* A rebuild begins with the removal of the forwards.
handleRebuild == <<"setCreating", "unforward", "find">>

\* What the removals go on with, each when it has found the container in the
\* given status.  Mutant of handleDelete: without its last call.
handleDeleteKeeping(status) ==
  IF status = "Stopped" THEN <<"unforward", "unregister">>
  ELSE <<"unforward", "unregister", "stop">>
handleDelete(status) ==
  IF status = "Stopped" THEN <<"unforward", "unregister", "delete">>
  ELSE <<"unforward", "unregister", "stop", "delete">>
destroyContainer(status) ==
  IF status = "Stopped" THEN <<"unforward", "delete", "unregister">>
  ELSE <<"unforward", "stop", "delete", "unregister">>
recreate == <<"delete">> \o createContainerOnNode
cleanupContainerLXD(status) ==
  IF status = "Stopped" THEN recreate ELSE <<"stop">> \o recreate

\* What is left to do when the container was found with this status.
Found(op, status) ==
  CASE op = "delete"  -> handleDelete(status)
    [] op = "destroy" -> destroyContainer(status)
    [] op = "rebuild" -> cleanupContainerLXD(status)

Script(op) ==
  CASE op = "create"  -> createContainerCore
    [] op = "start"   -> handleStart
    [] op = "stop"    -> handleStop
    [] op = "restart" -> handleRestart
    [] op \in {"delete", "destroy"} -> <<"find">>
    [] op = "rebuild" -> handleRebuild
    [] op = "get"     -> <<"look">>
    [] op = "checkNode"      -> <<"ping">>
    [] op = "checkContainer" -> <<"askNode">>

\* Mutant of RebuildFailed: an error return that forgets the state.
RebuildFailedSilently == <<>>
\* What a failed rebuild does last.
RebuildFailed == <<"setRunning">>

\* The calls left after step s of request op failed; rest follows s.
OnError(op, s, rest) ==
  CASE op \in {"start", "stop", "restart"} -> <<>>
    [] op \in {"delete", "destroy"} /\ s = "find" -> <<"unregister">>
    [] op = "delete"  /\ s \in {"stop", "delete"} -> <<>>
    [] op = "rebuild" /\ s = "find"   -> createContainerOnNode
    [] op = "rebuild" /\ s = "create" -> RebuildFailed
    [] op = "rebuild" /\ s = "start"  -> <<"delete">> \o RebuildFailed
    [] op = "create"  /\ s = "create" -> <<"unregister", "nodeUnhealthy">>
    [] op = "create"  /\ s = "start"  -> <<"delete", "unregister",
                                          "nodeUnhealthy">>
    [] OTHER -> rest        \* logged, or not even that

(***************************************************************************)
(* Steps of goroutine g                                                    *)
(***************************************************************************)
N(g)  == job[g].name
Op(g) == job[g].op
At(g, s) == todo[g] # <<>> /\ Head(todo[g]) = s
Then(g, rest) ==
  todo' = [todo EXCEPT ![g] = rest] /\ UNCHANGED <<job, scenario>>
Continue(g) == Then(g, Tail(todo[g]))
Fail(g) == Then(g, OnError(Op(g), Head(todo[g]), Tail(todo[g])))

Succeeds == nodeUp
MayFail  == ~nodeUp \/ "lxd" \in Faults

\* Call s takes the LXD container from one of the statuses of from to to: it
\* hands LXD the operation and then waits for it, and either may fail.
LxdCall(g, s, from, to) ==
  /\ At(g, s)
  /\ \/ /\ Succeeds /\ lxd[N(g)] \in from
        /\ lxd' = [lxd EXCEPT ![N(g)] = to]
        /\ Continue(g) \/ ("lost" \in Faults /\ Fail(g))
     \/ /\ MayFail \/ lxd[N(g)] \notin from
        /\ UNCHANGED lxd
        /\ Fail(g)
  /\ mute' = IF lxd'[N(g)] = "Running" THEN mute ELSE mute \ {N(g)}
  /\ UNCHANGED <<record, rule, fails, node>>

CreateContainer(g) == LxdCall(g, "create", {"none"}, "Stopped")
StartContainer(g)  == LxdCall(g, "start", {"Stopped"}, "Running")
StopContainer(g)   == LxdCall(g, "stop", {"Running"}, "Stopped")
DeleteContainer(g) == LxdCall(g, "delete", {"Stopped", "Running"}, "none")

\* clientForInstance finds no node for a name that is gone meanwhile.
HasClient(g) == Op(g) = "rebuild" \/ N(g) \in registered

\* GetContainer before a removal.
FindContainer(g) ==
  /\ At(g, "find")
  /\ \/ /\ Succeeds /\ lxd[N(g)] # "none" /\ HasClient(g)
        /\ Then(g, Found(Op(g), lxd[N(g)]))
     \/ (MayFail \/ lxd[N(g)] = "none" \/ ~HasClient(g)) /\ Fail(g)
  /\ UNCHANGED <<record, host, fails, node>>

\* Errors of the iptables commands are ignored by every caller.
Forward(g) ==
  /\ At(g, "forward")
  /\ \/ Succeeds /\ rule' = rule \cup {N(g)}
     \/ MayFail /\ UNCHANGED rule
  /\ Continue(g)
  /\ UNCHANGED <<record, lxd, mute, fails, node>>
Unforward(g) ==
  /\ At(g, "unforward")
  /\ \/ Succeeds /\ rule' = rule \ {N(g)}
     \/ MayFail /\ UNCHANGED rule
     \/ /\ Op(g) = "destroy" /\ N(g) \notin registered
        /\ UNCHANGED rule
  /\ Continue(g)
  /\ UNCHANGED <<record, lxd, mute, fails, node>>

Register(g) ==
  /\ At(g, "register")
  /\ registered' = registered \cup {N(g)}
  /\ state' = [state EXCEPT ![N(g)] = "creating"]
  /\ health' = [health EXCEPT ![N(g)] = ""]
  /\ Continue(g)
  /\ UNCHANGED <<host, fails, node>>
Unregister(g) ==
  /\ At(g, "unregister")
  /\ registered' = registered \ {N(g)}
  /\ Continue(g)
  /\ UNCHANGED <<state, health, host, fails, node>>

\* Mutant of setState: the health of the old state stays in the record.
setStateKeepingHealth(g, s, new) ==
  /\ At(g, s)
  /\ state' = IF N(g) \in registered
              THEN [state EXCEPT ![N(g)] = new] ELSE state
  /\ Continue(g)
  /\ UNCHANGED <<registered, health, fails, host, node>>

\* Only the transition to running forgets the failed checks.
setState(g, s, new) ==
  /\ At(g, s)
  /\ IF N(g) \in registered
     THEN /\ state' = [state EXCEPT ![N(g)] = new]
          /\ health' = [health EXCEPT ![N(g)] = ""]
          /\ fails' = IF new = "running" THEN [fails EXCEPT ![N(g)] = 0]
                      ELSE fails
     ELSE UNCHANGED <<state, health, fails>>
  /\ Continue(g)
  /\ UNCHANGED <<registered, host, node>>

SetRunning(g)  == setState(g, "setRunning", "running")
SetStopped(g)  == setState(g, "setStopped", "stopped")
SetCreating(g) == setState(g, "setCreating", "creating")

\* The end of createContainerOnNode writes the record itself.
Created(g) ==
  /\ At(g, "created")
  /\ state' = [state EXCEPT ![N(g)] = "running"]
  /\ health' = [health EXCEPT ![N(g)] = ""]
  /\ Continue(g)
  /\ UNCHANGED <<registered, host, fails, node>>

SetHealth(g, s, new) ==
  /\ At(g, s)
  /\ health' = IF N(g) \in registered
               THEN [health EXCEPT ![N(g)] = new] ELSE health
  /\ Continue(g)
  /\ UNCHANGED <<registered, state, host, fails, node>>
MarkLost(g)      == SetHealth(g, "markLost", "lost")
MarkUnhealthy(g) == SetHealth(g, "markUnhealthy", "unhealthy")
\* Mutant of ClearHealth: it has handleGet's condition.
ClearUnhealthy(g) ==
  /\ At(g, "clearHealth")
  /\ health' = [health EXCEPT ![N(g)] = IF @ = "unhealthy" THEN "" ELSE @]
  /\ Continue(g)
  /\ UNCHANGED <<registered, state, host, fails, node>>
ClearHealth(g)   == SetHealth(g, "clearHealth", "")

(***************************************************************************)
(* Health checks                                                           *)
(***************************************************************************)
SetNodeHealth(g, s, new) ==
  /\ At(g, s)
  /\ nodeHealth' = new
  /\ Continue(g)
  /\ UNCHANGED <<record, host, fails, nodeUp>>
NodeUnhealthy(g) == SetNodeHealth(g, "nodeUnhealthy", "unhealthy")
NodeLost(g)      == SetNodeHealth(g, "nodeLost", "lost")
NodeClear(g)     == SetNodeHealth(g, "nodeClear", "")

\* checkNodeHealth: connect and list, then read whether the node was lost.
AfterPing == IF nodeHealth = "lost" THEN <<"nodeClear", "syncDNAT">>
             ELSE <<"nodeClear">>
Ping(g) ==
  /\ At(g, "ping")
  /\ \/ Succeeds /\ Then(g, AfterPing)
     \/ MayFail /\ Then(g, <<"nodeLost">>)
  /\ UNCHANGED <<record, host, fails, node>>

\* syncDNATForNode, under instMu; what fails is skipped.
SyncDNAT(g) ==
  /\ At(g, "syncDNAT")
  /\ LET there == {n \in registered : lxd[n] # "none"}
     IN  \E done \in SUBSET there :
            /\ done # {} => Succeeds
            /\ done # there => MayFail
            /\ rule' = rule \cup done
  /\ Continue(g)
  /\ UNCHANGED <<record, lxd, mute, fails, node>>

\* checkContainer has read that the state is running.
AskNode(g) ==
  /\ At(g, "askNode")
  /\ Then(g, CASE nodeHealth = "lost" -> <<"markLost">>
               [] nodeHealth = "unhealthy" -> <<"markUnhealthy">>
               [] OTHER -> <<"inspect">>)
  /\ UNCHANGED <<record, host, fails, node>>
\* Mutant of AfterInspect: a container that is missing is passed over.
AfterInspectIgnoringMissing(n) ==
  CASE lxd[n] = "none"    -> <<>>
    [] lxd[n] = "Stopped" -> <<"setStopped">>
    [] lxd[n] = "Running" -> <<"exec">>
AfterInspect(n) ==
  CASE lxd[n] = "none"    -> <<"markLost">>
    [] lxd[n] = "Stopped" -> <<"setStopped">>
    [] lxd[n] = "Running" -> <<"exec">>
Inspect(g) ==
  /\ At(g, "inspect")
  /\ \/ Succeeds /\ Then(g, AfterInspect(N(g)))
     \/ MayFail /\ Then(g, <<"markLost">>)
  /\ UNCHANGED <<record, host, fails, node>>

Answers(n) == nodeUp /\ lxd[n] = "Running" /\ n \notin mute
ExecCheck(g) ==
  /\ At(g, "exec") /\ Op(g) = "checkContainer"
  /\ \/ /\ Answers(N(g))
        /\ fails' = [fails EXCEPT ![N(g)] = 0]
        /\ Then(g, <<"clearHealth">>)
     \/ /\ ~Answers(N(g)) \/ MayFail
        /\ LET f == IF fails[N(g)] < stateMaxFails
                    THEN fails[N(g)] + 1 ELSE stateMaxFails
           IN  /\ fails' = [fails EXCEPT ![N(g)] = f]
               /\ Then(g, IF f = stateMaxFails THEN <<"markUnhealthy">>
                          ELSE <<>>)
  /\ UNCHANGED <<record, host, node>>

\* handleGet: the query that a read of a running container makes.
Look(g) ==
  /\ At(g, "look")
  /\ \/ /\ Succeeds /\ lxd[N(g)] # "none"
        /\ Then(g, CASE lxd[N(g)] # "Running" -> <<"markUnhealthy">>
                     [] lxd[N(g)] = "Running" /\ health[N(g)] = "unhealthy"
                          -> <<"exec">>
                     [] OTHER -> <<>>)
     \/ (MayFail \/ lxd[N(g)] = "none") /\ Then(g, <<>>)
  /\ UNCHANGED <<record, host, fails, node>>
GetExec(g) ==
  /\ At(g, "exec") /\ Op(g) = "get"
  /\ \/ Answers(N(g)) /\ Then(g, <<"clearHealth">>)
     \/ (~Answers(N(g)) \/ MayFail) /\ Then(g, <<>>)
  /\ UNCHANGED <<record, host, fails, node>>

(***************************************************************************)
(* Requests, checks and the world around them                              *)
(***************************************************************************)
SomeName == CHOOSE n \in Names : TRUE \* checkNode is about no container

Busy(n) ==
  \E g \in Goroutines : todo[g] # <<>> /\ N(g) = n /\ Op(g) # "checkNode"

Begin(g, op, n) ==
  /\ todo[g] = <<>>
  /\ scenario.serial => \A h \in Goroutines : todo[h] = <<>>
  /\ todo' = [todo EXCEPT ![g] = Script(op)]
  /\ job' = [job EXCEPT ![g] = [op |-> op, name |-> n]]
  /\ UNCHANGED <<scenario, record, host, node>>

\* A new container has a new name: nothing is left of an earlier one.
Create(g, n) ==
  /\ "create" \in Ops
  /\ nodeUp                                \* pickNode connects to the node
  /\ n \notin registered /\ lxd[n] = "none" /\ n \notin rule /\ ~Busy(n)
  /\ fails' = [fails EXCEPT ![n] = 0]
  /\ Begin(g, "create", n)
Request(g, op, n) ==
  /\ op \in Ops \ {"create", "get"}
  /\ n \in registered
  /\ Begin(g, op, n) /\ UNCHANGED fails
Get(g, n) ==
  /\ "get" \in Ops
  /\ n \in registered /\ state[n] = "running"
  /\ Begin(g, "get", n) /\ UNCHANGED fails
CheckContainer(g, n) ==
  /\ n \in registered /\ state[n] = "running"
  /\ Begin(g, "checkContainer", n) /\ UNCHANGED fails
CheckNode(g) == Begin(g, "checkNode", SomeName) /\ UNCHANGED fails

Halt(n) ==
  /\ "halt" \in Faults /\ lxd[n] = "Running"
  /\ lxd' = [lxd EXCEPT ![n] = "Stopped"]
  /\ mute' = mute \ {n}
  /\ UNCHANGED <<record, rule, fails, node, todo, job, scenario>>
Mute(n) ==
  /\ "mute" \in Faults /\ lxd[n] = "Running"
  /\ mute' = IF n \in mute THEN mute \ {n} ELSE mute \cup {n}
  /\ UNCHANGED <<record, lxd, rule, fails, node, todo, job, scenario>>
NodeDown ==
  /\ "node" \in Faults /\ nodeUp
  /\ nodeUp' = FALSE
  /\ rule' = {}
  /\ UNCHANGED <<record, lxd, mute, fails, nodeHealth, todo, job, scenario>>
NodeBack ==
  /\ ~nodeUp
  /\ nodeUp' = TRUE
  /\ UNCHANGED <<record, host, fails, nodeHealth, todo, job, scenario>>

Init ==
  /\ scenario \in Scenarios
  /\ registered = {}
  /\ state = [n \in Names |-> "creating"]
  /\ health = [n \in Names |-> ""]
  /\ lxd = [n \in Names |-> "none"]
  /\ mute = {} /\ rule = {}
  /\ fails = [n \in Names |-> 0]
  /\ nodeUp = TRUE /\ nodeHealth = ""
  /\ todo = [g \in Goroutines |-> <<>>]
  /\ job = [g \in Goroutines |-> [op |-> "none", name |-> SomeName]]

Step(g) ==
  \/ CreateContainer(g) \/ StartContainer(g) \/ StopContainer(g)
  \/ DeleteContainer(g) \/ FindContainer(g) \/ Forward(g) \/ Unforward(g)
  \/ Register(g) \/ Unregister(g)
  \/ SetRunning(g) \/ SetStopped(g) \/ SetCreating(g) \/ Created(g)
  \/ MarkLost(g) \/ MarkUnhealthy(g) \/ ClearHealth(g)
  \/ NodeUnhealthy(g) \/ NodeLost(g) \/ NodeClear(g)
  \/ Ping(g) \/ SyncDNAT(g) \/ AskNode(g) \/ Inspect(g) \/ ExecCheck(g)
  \/ Look(g) \/ GetExec(g)

Next ==
  \/ \E g \in Goroutines : Step(g)
  \/ \E g \in Procs, n \in Names : Create(g, n) \/ Get(g, n)
  \/ \E g \in Procs, n \in Names, op \in Ops : Request(g, op, n)
  \/ \E g \in Checkers, n \in Names : CheckContainer(g, n)
  \/ \E g \in Checkers : CheckNode(g)
  \/ \E n \in Names : Halt(n) \/ Mute(n)
  \/ NodeDown \/ NodeBack

Spec == Init /\ [][Next]_vars

\* Goroutines run, and every round of the check loop visits the node and then
\* each container.  Nothing obliges a node to come back.
Fairness ==
  /\ \A g \in Goroutines : WF_vars(Step(g))
  /\ \A g \in Checkers, n \in Names :
        SF_vars(CheckContainer(g, n)) /\ SF_vars(CheckNode(g))
FairSpec == Spec /\ Fairness

(***************************************************************************)
(* Properties                                                              *)
(***************************************************************************)
\* No request and no check is in the middle of something about n.
Settled(n) == ~Busy(n)

\* "health is meaningful only when state=running", and empty otherwise
\* (doc/api.md:823-841), whatever fails; and "start/stop update state after the
\* LXD operation succeeded; consumers need not doubt the accuracy of state"
\* (doc/api.md:807): when nothing is in flight, a container reported stopped
\* does not run.  Both are false of a check that overlaps a request: it can
\* write the health of a container that was stopped since it looked, or report
\* stopped a container it saw in the middle of a restart.  The second is false
\* of a start whose answer is lost: handleStart returns the error and leaves
\* stopped a container that runs, which no check looks at again.  Lost answers
\* of every other call, the start within a restart, a rebuild or a creation
\* included, leave it true.
HealthOnlyWhenRunning ==
  \A n \in registered : health[n] # "" => state[n] = "running"
StoppedMeansStopped ==
  \A n \in registered :
     (Settled(n) /\ state[n] = "stopped") => lxd[n] # "Running"
NoStartIsLost == "lost" \in Faults => "start" \notin Ops
RecordIsTrue ==
  scenario.serial =>
    /\ HealthOnlyWhenRunning
    /\ NoStartIsLost => StoppedMeansStopped
\* Well typed, with records that are true.
LifecycleInv == TypeOK /\ RecordIsTrue

\* With nothing failing, a container reported running runs and is reachable
\* through its DNAT rules, whatever a health check does meanwhile.
RunningIsReachable ==
  Faults = {} =>
    \A n \in registered :
       (Settled(n) /\ state[n] = "running")
         => lxd[n] = "Running" /\ n \in rule

\* Deleting "stops and deletes the container and clears its forwards"
\* (doc/api.md:355): when nothing fails, nothing is left in LXD or in iptables
\* without a record, whatever checks run meanwhile.
NoOrphan ==
  Faults = {} =>
    \A n \in Names :
       (Settled(n) /\ n \notin registered)
         => lxd[n] = "none" /\ n \notin rule

\* A container that died, or vanished, while it is reported running does not
\* go unnoticed: the check loop reports it, or someone changes it.  Calls that
\* fail at random may hide anything, so they are left to the host's outages.
Orderly == "lxd" \notin Faults
DeathNoticed ==
  \A n \in Names :
     (Orderly /\ n \in registered /\ state[n] = "running" /\ lxd[n] # "Running")
       ~> (\/ n \notin registered \/ state[n] # "running"
           \/ lxd[n] = "Running" \/ health[n] # "")

\* A container that recovers for good is reported healthy again.
RecoveryNoticed ==
  \A n \in Names :
     <>[](Orderly /\ n \in registered /\ state[n] = "running" /\ Answers(n))
       => []<>(health[n] = "")

\* "creating" ends: with running, or with the end of the record.
CreatingEnds ==
  \A n \in Names :
     (Orderly /\ n \in registered /\ state[n] = "creating")
       ~> (n \notin registered \/ state[n] # "creating")
=============================================================================
