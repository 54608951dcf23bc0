----------------------------- MODULE Migration -----------------------------
(***************************************************************************)
(* The migration of a container (server.go:1308-1503) with what it makes   *)
(* and removes on the nodes, beside the other requests for the container,  *)
(* health checks, failing calls and crashes of the process.                *)
(*                                                                         *)
(* One container.  A request is a script, the calls it has still to make,  *)
(* as in Lifecycle.  A port number stands for both external ports; that    *)
(* they are nobody else's is the subject of Registry.                      *)
(***************************************************************************)
EXTENDS Naturals, Sequences, FiniteSets

CONSTANTS Nodes, Workers,
          MaxPort,  \* so many ports are drawn (a bound)
          Scenarios

\* delete: the user's.  destroy: the administrator's, and the one that goes
\* before the deletion of a user.
Requests ==
  {"migrate", "delete", "destroy", "start", "stop", "rebuild", "check"}
\* ops: what is done.  serial: one request after another; health checks may
\* overlap them.  faults: "lxd", calls to a node fail, before or after LXD did
\* what was asked; "crash".
ASSUME ScenariosAssumption ==
  Scenarios \subseteq [ops : SUBSET Requests, serial : BOOLEAN,
                      faults : SUBSET {"lxd", "crash"}]
ASSUME BoundAssumption == Nodes # {} /\ MaxPort \in Nat \ {0}

VARIABLES
  scenario,
  registered, \* is the container a key of the map instances?
  rec,        \* its record, which a request keeps when the key is gone
  disk,       \* instances.json: both of them
  body,       \* the container in the LXD of each node
  rule,       \* the DNAT rules <<node, port>> that lead to it
  lastPort,
  todo, job   \* per worker, the calls left, and what it has read
vars == <<scenario, registered, rec, disk, body, rule, lastPort, todo, job>>

States == {"running", "stopped", "creating", "migrating"}
Record == [node : Nodes, port : 1 .. MaxPort, state : States]
Steps  == {"setRunning", "setStopped", "setCreating", "setMigrating", "claim",
           "create", "start", "forward", "created", "restore", "findOld",
           "unforward", "stop", "delete", "moved", "unregister", "client",
           "inspect"}
\* to, new: where the container is made, and with which ports.  at, old: where
\* calls to LXD go, and which ports are closed there.
Job == [op : Requests \cup {"none"}, to : Nodes, at : Nodes,
        old : 1 .. MaxPort, new : 1 .. MaxPort]

TypeOK ==
  /\ scenario \in Scenarios
  /\ registered \in BOOLEAN /\ rec \in Record
  /\ disk \in [registered : BOOLEAN, rec : Record]
  /\ body \in [Nodes -> {"none", "Stopped", "Running"}]
  /\ rule \subseteq Nodes \X (1 .. MaxPort)
  /\ lastPort \in 1 .. MaxPort
  /\ \A w \in Workers : todo[w] \in Seq(Steps)
  /\ job \in [Workers -> Job]

(***************************************************************************)
(* The scripts of the requests                                             *)
(***************************************************************************)
createContainerOnNode == <<"create", "start", "forward", "created">>
cleanupContainerLXD   == <<"unforward", "findOld", "stop", "delete">>
\* Mutant of migrateContainer: the order of a rebuild, removal first.
migrateRemovingFirst ==
  <<"setMigrating", "claim", "client">> \o cleanupContainerLXD
     \o createContainerOnNode \o <<"moved">>
migrateContainer ==
  <<"setMigrating", "claim">> \o createContainerOnNode
     \o <<"client">> \o cleanupContainerLXD \o <<"moved">>
handleRebuild ==
  <<"setCreating", "client">> \o cleanupContainerLXD \o createContainerOnNode
handleDelete == <<"client", "findOld", "unforward", "unregister", "stop", "delete">>
destroyContainer ==
  <<"client", "findOld", "unforward", "stop", "delete", "unregister">>

Script(op) ==
  CASE op = "migrate" -> migrateContainer
    [] op = "rebuild" -> handleRebuild
    [] op = "delete"  -> handleDelete
    [] op = "destroy" -> destroyContainer
    [] op = "start"   -> <<"client", "start", "setRunning">>
    [] op = "stop"    -> <<"client", "stop", "setStopped">>
    [] op = "check"   -> <<"client", "inspect">>

\* Mutant of MigrateFailed: the record stays as it is.
MigrateFailedSilently == <<"restore">>
\* A migration that could not create the container gives its ports up.
MigrateFailed == <<"restore", "setRunning">>

\* The calls left after call s of request op failed; rest follows s.
OnError(op, s, rest) ==
  CASE op = "migrate" /\ s = "create" -> MigrateFailed
    [] op = "migrate" /\ s = "start"  -> <<"delete">> \o MigrateFailed
    [] op = "migrate" /\ s \in {"client", "findOld"} -> <<"moved">>
    [] op = "rebuild" /\ s = "client" -> <<"setRunning">>
    [] op = "rebuild" /\ s = "findOld" -> createContainerOnNode
    [] op = "rebuild" /\ s = "create" -> <<"setRunning">>
    [] op = "rebuild" /\ s = "start"  -> <<"delete", "setRunning">>
    [] op \in {"delete", "destroy"} /\ s \in {"client", "findOld"}
         -> <<"unregister">>
    [] op = "delete"  /\ s \in {"stop", "delete"} -> <<>>
    [] op \in {"start", "stop", "check"} -> <<>>
    [] OTHER -> rest \* logged

FirstNode == CHOOSE n \in Nodes : TRUE
InitialJob ==
  [op |-> "none", to |-> FirstNode, at |-> FirstNode, old |-> 1, new |-> 1]
At(w, s) == todo[w] # <<>> /\ Head(todo[w]) = s
\* Worker w goes on with rest, and has read what is in j.
Goes(w, rest, j) ==
  /\ todo' = [todo EXCEPT ![w] = rest]
  /\ job' = [job EXCEPT ![w] = IF rest = <<>> THEN InitialJob ELSE j]
  /\ UNCHANGED scenario
Continue(w) == Goes(w, Tail(todo[w]), job[w])
Fail(w) == Goes(w, OnError(job[w].op, Head(todo[w]), Tail(todo[w])), job[w])
MayFail == "lxd" \in scenario.faults

\* saveInstances, which follows most changes of the record.
Save(reg, r) ==
  /\ registered' = reg /\ rec' = r
  /\ disk' = [registered |-> reg, rec |-> r]
\* The record of a registered container gets new values; else nothing happens.
IfRegistered(r) ==
  IF registered THEN Save(TRUE, r) ELSE UNCHANGED <<registered, rec, disk>>

(***************************************************************************)
(* The record                                                              *)
(***************************************************************************)
setState(w, s, new) ==
  /\ At(w, s)
  /\ IfRegistered([rec EXCEPT !.state = new])
  /\ Continue(w)
  /\ UNCHANGED <<body, rule, lastPort>>
SetState(w) ==
  \/ setState(w, "setRunning", "running")
  \/ setState(w, "setStopped", "stopped")
  \/ setState(w, "setCreating", "creating")
  \/ setState(w, "setMigrating", "migrating")

\* Mutant of Claim: the cleanup reads the ports when they are replaced.
ClaimForgettingOld(w) ==
  /\ At(w, "claim")
  /\ lastPort' = lastPort + 1
  /\ rec' = [rec EXCEPT !.port = lastPort + 1]
  /\ Goes(w, Tail(todo[w]),
          [job[w] EXCEPT !.at = job[w].to, !.old = lastPort + 1, !.new = lastPort + 1])
  /\ UNCHANGED <<registered, disk, body, rule>>
\* The new ports are written into the record, and not saved.
Claim(w) ==
  /\ At(w, "claim")
  /\ lastPort' = lastPort + 1
  /\ rec' = [rec EXCEPT !.port = lastPort + 1]
  /\ Goes(w, Tail(todo[w]),
          [job[w] EXCEPT !.at = job[w].to, !.old = rec.port, !.new = lastPort + 1])
  /\ UNCHANGED <<registered, disk, body, rule>>
Restore(w) ==
  /\ At(w, "restore")
  /\ rec' = [rec EXCEPT !.port = job[w].old]
  /\ Continue(w)
  /\ UNCHANGED <<registered, disk, body, rule, lastPort>>

\* The end of createContainerOnNode, for whoever calls it.
Created(w) ==
  /\ At(w, "created")
  /\ Save(registered, [rec EXCEPT !.state = "running"])
  /\ Continue(w)
  /\ UNCHANGED <<body, rule, lastPort>>
Moved(w) ==
  /\ At(w, "moved")
  /\ IF registered
     THEN Save(TRUE, [node |-> job[w].to, port |-> job[w].new, state |-> "running"])
     ELSE Save(FALSE, rec)
  /\ Continue(w)
  /\ UNCHANGED <<body, rule, lastPort>>
Unregister(w) ==
  /\ At(w, "unregister")
  /\ IF registered THEN Save(FALSE, rec) ELSE UNCHANGED <<registered, rec, disk>>
  /\ Continue(w)
  /\ UNCHANGED <<body, rule, lastPort>>

(***************************************************************************)
(* The nodes                                                               *)
(***************************************************************************)
\* A client for the node that the record names now.
NeedsKey(w) == job[w].op \notin {"migrate", "rebuild"}
Client(w) ==
  /\ At(w, "client")
  /\ \/ /\ NeedsKey(w) => registered
        /\ Goes(w, Tail(todo[w]),
                [job[w] EXCEPT !.at = rec.node,
                               !.old = IF job[w].op = "rebuild" THEN rec.port ELSE @])
     \/ (MayFail \/ (NeedsKey(w) /\ ~registered)) /\ Fail(w)
  /\ UNCHANGED <<registered, rec, disk, body, rule, lastPort>>

\* Call s takes the container on node n from a status in from to to.  LXD is
\* asked and then waited for, so a call can fail that has taken effect.
LxdCall(w, s, n, from, to, j) ==
  /\ At(w, s)
  /\ \/ /\ body[n] \in from
        /\ body' = [body EXCEPT ![n] = to]
        /\ Goes(w, Tail(todo[w]), j) \/ (MayFail /\ Fail(w))
     \/ /\ MayFail \/ body[n] \notin from
        /\ UNCHANGED body
        /\ Fail(w)
  /\ UNCHANGED <<registered, rec, disk, rule, lastPort>>
\* A rebuild reads the ports and the node again when it has cleaned up.
CreateContainer(w) ==
  LxdCall(w, "create", job[w].at, {"none"}, "Stopped",
          IF job[w].op = "rebuild"
          THEN [job[w] EXCEPT !.to = rec.node, !.new = rec.port] ELSE job[w])
StartContainer(w) ==
  LxdCall(w, "start", job[w].at, {"Stopped"}, "Running", job[w])
StopContainer(w) ==
  LxdCall(w, "stop", job[w].at, {"Running"}, "Stopped", job[w])
DeleteContainer(w) ==
  LxdCall(w, "delete", job[w].at, {"Stopped", "Running"}, "none", job[w])

\* A container that GetContainer found stopped is not stopped again.
FoundStopped(op, rest) ==
  CASE op = "delete"  -> <<"unforward", "unregister", "delete">>
    [] op = "destroy" -> <<"unforward", "delete", "unregister">>
    [] OTHER -> Tail(rest)
FindOld(w) ==
  /\ At(w, "findOld")
  /\ \/ /\ body[job[w].at] # "none"
        /\ Goes(w, IF body[job[w].at] = "Stopped"
                   THEN FoundStopped(job[w].op, Tail(todo[w])) ELSE Tail(todo[w]),
                job[w])
     \/ (MayFail \/ body[job[w].at] = "none") /\ Fail(w)
  /\ UNCHANGED <<registered, rec, disk, body, rule, lastPort>>

\* checkContainer looks for a container that was running.
Inspect(w) ==
  /\ At(w, "inspect")
  /\ \/ /\ body[job[w].at] = "Stopped"
        /\ Goes(w, <<"setStopped">>, job[w])
     \/ (MayFail \/ body[job[w].at] # "Stopped") /\ Goes(w, <<>>, job[w])
  /\ UNCHANGED <<registered, rec, disk, body, rule, lastPort>>

\* Errors of the iptables commands are ignored.
Forward(w) ==
  /\ At(w, "forward")
  /\ \/ rule' = rule \cup {<<job[w].to, job[w].new>>}
     \/ MayFail /\ UNCHANGED rule
  /\ Continue(w)
  /\ UNCHANGED <<registered, rec, disk, body, lastPort>>
\* Deletions close the ports of the record, and destroyContainer looks it up
\* once more for that.
Unforward(w) ==
  /\ At(w, "unforward")
  /\ \/ /\ job[w].op = "destroy" => registered
        /\ rule' = rule \ {IF job[w].op \in {"delete", "destroy"}
                           THEN <<rec.node, rec.port>>
                           ELSE <<job[w].at, job[w].old>>}
     \/ /\ MayFail \/ (job[w].op = "destroy" /\ ~registered)
        /\ UNCHANGED rule
  /\ Continue(w)
  /\ UNCHANGED <<registered, rec, disk, body, lastPort>>

(***************************************************************************)
(* Requests, checks and crashes                                            *)
(***************************************************************************)
Busy(w) == todo[w] # <<>> /\ job[w].op # "check"
Migrations == {w \in Workers : todo[w] # <<>> /\ job[w].op = "migrate"}
Begin(w, op, to) ==
  /\ todo[w] = <<>>
  /\ registered
  /\ scenario.serial /\ op # "check" => \A v \in Workers : ~Busy(v)
  /\ todo' = [todo EXCEPT ![w] = Script(op)]
  /\ job' = [job EXCEPT ![w] = [InitialJob EXCEPT !.op = op, !.to = to]]
  /\ UNCHANGED <<scenario, registered, rec, disk, body, rule, lastPort>>

\* Nothing is asked of the state of a container that is to be moved.
Migrate(w, to) ==
  /\ "migrate" \in scenario.ops
  /\ rec.node # to
  /\ lastPort + Cardinality(Migrations) < MaxPort
  /\ Begin(w, "migrate", to)
Request(w, op) ==
  /\ op \in scenario.ops \ {"migrate", "check"}
  /\ Begin(w, op, InitialJob.to)
Check(w) ==
  /\ "check" \in scenario.ops
  /\ rec.state = "running"
  /\ Begin(w, "check", InitialJob.to)

\* The process ends and starts again from its file.
Crash ==
  /\ "crash" \in scenario.faults
  /\ registered' = disk.registered /\ rec' = disk.rec
  /\ todo' = [w \in Workers |-> <<>>]
  /\ job' = [w \in Workers |-> InitialJob]
  /\ UNCHANGED <<scenario, disk, body, rule, lastPort>>

Init ==
  /\ scenario \in Scenarios
  /\ registered = TRUE
  /\ rec = [node |-> InitialJob.to, port |-> 1, state |-> "running"]
  /\ disk = [registered |-> TRUE, rec |-> rec]
  /\ body = [n \in Nodes |-> IF n = rec.node THEN "Running" ELSE "none"]
  /\ rule = {<<rec.node, 1>>}
  /\ lastPort = 1
  /\ todo = [w \in Workers |-> <<>>]
  /\ job = [w \in Workers |-> InitialJob]

Step(w) ==
  \/ SetState(w) \/ Claim(w) \/ Restore(w) \/ Created(w) \/ Moved(w)
  \/ Unregister(w) \/ Client(w) \/ CreateContainer(w) \/ StartContainer(w)
  \/ StopContainer(w) \/ DeleteContainer(w) \/ FindOld(w) \/ Inspect(w)
  \/ Forward(w) \/ Unforward(w)
Next ==
  \/ \E w \in Workers : Step(w) \/ Check(w)
  \/ \E w \in Workers, n \in Nodes : Migrate(w, n)
  \/ \E w \in Workers, op \in Requests : Request(w, op)
  \/ Crash
Spec == Init /\ [][Next]_vars

\* Goroutines run, and calls to a node return.
FairSpec == Spec /\ \A w \in Workers : WF_vars(Step(w))

(***************************************************************************)
(* Properties                                                              *)
(***************************************************************************)
Settled == \A w \in Workers : ~Busy(w)

\* When no call fails and requests do not overlap, whatever checks do: a
\* container is on the node of its record and nowhere else, and the rules that
\* lead to it are those of its ports; a deleted one has left nothing.
MovedWhole ==
  scenario.serial /\ scenario.faults = {} /\ Settled =>
    /\ {n \in Nodes : body[n] # "none"} = IF registered THEN {rec.node} ELSE {}
    /\ rule = IF registered THEN {<<rec.node, rec.port>>} ELSE {}
    /\ registered /\ rec.state = "running" => body[rec.node] = "Running"

\* A container that is not rebuilt exists on some node as long as it has a
\* record, and at the end of destroyContainer the record alone is left: a
\* migration makes the new one before it removes the old one, whatever fails,
\* crashes, or runs beside it.  A crash at that end is excluded: it leaves a
\* record without a container for good (server.go:1854-1857).
DestroyEnds ==
  "destroy" \in scenario.ops => "crash" \notin scenario.faults
Survives ==
  ("rebuild" \notin scenario.ops /\ DestroyEnds /\ registered)
    => \/ \E n \in Nodes : body[n] # "none"
       \/ \E w \in Workers :
            job[w].op = "destroy" /\ todo[w] = <<"unregister">>
\* Well typed, with a container that survives.
MigrationInv == TypeOK /\ Survives

\* "migrating" and "creating" end, with or without success.  Only a crash
\* leaves a record in them, and nothing picks it up.
TransitionEnds ==
  ("crash" \notin scenario.faults /\ registered
     /\ rec.state \in {"migrating", "creating"})
    ~> (~registered \/ rec.state \notin {"migrating", "creating"})
=============================================================================
