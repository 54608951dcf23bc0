------------------------------ MODULE ConnPool ------------------------------
(***************************************************************************)
(* The connections to the nodes (nodes.go:514-627) and what changes under  *)
(* them: pool, an LXD client per node, made for the node's URL; sshPool,   *)
(* an SSH connection per node, with a keepalive goroutine each; and the    *)
(* rebuild, the migration and the removal of a node.                       *)
(*                                                                         *)
(* A request is a script, the calls it has still to make.  poolMu is held  *)
(* while a client connects, sshPoolMu while a connection is probed; no     *)
(* mutex is held while one is dialled.                                     *)
(***************************************************************************)
EXTENDS Naturals, Sequences, SequencesExt

CONSTANTS Nodes, Hosts,
          Workers,   \* goroutines of requests and of checks
          Conns,     \* as many SSH connections may be open (a bound)
          None,      \* no node, no client, no connection
          Scenarios

Requests == {"forward", "call", "rebuild", "migrate", "remove"}
\* ops: the requests that are made.  serial: one after another.
ASSUME ScenariosAssumption ==
  Scenarios \subseteq [ops : SUBSET Requests, serial : BOOLEAN]
ASSUME NoneAssumption ==
  None \notin Nodes \cup Hosts \cup Conns \cup [host : Hosts, url : Hosts]
ASSUME SomeAssumption == Nodes # {} /\ Hosts # {}

VARIABLES
  scenario,      \* one of Scenarios, from beginning to end
  nodes,         \* SSHHost and the host in URL of each node, or None
  pool, sshPool, \* the maps, None where a node has no entry
  conn,          \* the SSH connections, pooled or not
  todo,          \* per worker, the calls it has still to make
  job            \* per worker, its request, the node, and what it has read
vars == <<scenario, nodes, pool, sshPool, conn, todo, job>>

Steps == {"lookup", "probe", "dial", "store", "connect", "connecting",
          "setHost", "setUrl", "dropLxd", "dropSsh", "check", "refresh",
          "delete"}
\* keep: the goroutine sshKeepalive of the connection runs.
Connection == [state : {"up", "broken", "closed"}, node : Nodes, host : Hosts,
               keep : BOOLEAN]
Free == [state |-> "closed", node |-> CHOOSE n \in Nodes : TRUE,
         host |-> CHOOSE h \in Hosts : TRUE, keep |-> FALSE]
TypeOK ==
  /\ scenario \in Scenarios
  /\ nodes \in [Nodes -> [host : Hosts, url : Hosts] \cup {None}]
  /\ pool \in [Nodes -> Hosts \cup {None}]
  /\ sshPool \in [Nodes -> Conns \cup {None}]
  /\ conn \in [Conns -> Connection]
  /\ \A w \in Workers : todo[w] \in Seq(Steps)
  /\ job \in [Workers -> [op : Requests, node : Nodes, host : Hosts]]

Idle == [op |-> "call", node |-> Free.node, host |-> Free.host]

Init ==
  /\ scenario \in Scenarios
  /\ nodes \in [Nodes -> {[host |-> h, url |-> h] : h \in Hosts}]
  /\ pool = [n \in Nodes |-> None]
  /\ sshPool = [n \in Nodes |-> None]
  /\ conn = [c \in Conns |-> Free]
  /\ todo = [w \in Workers |-> <<>>]
  /\ job = [w \in Workers |-> Idle]

(***************************************************************************)
(* The scripts of the requests                                             *)
(***************************************************************************)
getSSHClient  == <<"lookup", "dial", "store">>
getNodeClient == <<"connect">>
\* What the connections see of a rebuild: a script by SSH, a new LXD client.
rebuildNode ==
  <<"check">> \o getSSHClient \o <<"dropLxd", "refresh">> \o getNodeClient
\* Mutant of handleNodeMigrate: the client is dropped before the URL changes.
migrateDroppingEarly ==
  <<"dropLxd", "setHost", "setUrl", "dropSsh">> \o rebuildNode
handleNodeMigrate ==
  <<"setHost", "setUrl", "dropLxd", "dropSsh">> \o rebuildNode
removeNode == <<"delete", "dropLxd">>

Script(op) ==
  CASE op = "forward" -> getSSHClient
    [] op = "call"    -> getNodeClient
    [] op = "rebuild" -> rebuildNode
    [] op = "migrate" -> handleNodeMigrate
    [] op = "remove"  -> removeNode

N(w) == job[w].node
Exists(n) == nodes[n] # None
At(w, s) == todo[w] # <<>> /\ Head(todo[w]) = s
Then(w, rest) ==
  /\ todo' = [todo EXCEPT ![w] = rest]
  /\ job' = IF rest = <<>> THEN [job EXCEPT ![w] = Idle] ELSE job
  /\ UNCHANGED scenario
Continue(w) == Then(w, Tail(todo[w]))
Fail(w) == Then(w, <<>>)

SshPoolMuFree == \A w \in Workers : ~At(w, "probe")
PoolMuFree    == \A w \in Workers : ~At(w, "connecting")

(***************************************************************************)
(* getSSHClient                                                            *)
(***************************************************************************)
Lookup(w) ==
  /\ At(w, "lookup") /\ SshPoolMuFree
  /\ Then(w, IF sshPool[N(w)] = None THEN Tail(todo[w])
             ELSE <<"probe">> \o Tail(todo[w]))
  /\ UNCHANGED <<nodes, pool, sshPool, conn>>

\* A keepalive request on the pooled connection, with sshPoolMu held.
ProbeAlive(w) ==
  /\ At(w, "probe") /\ conn[sshPool[N(w)]].state = "up"
  /\ Then(w, SubSeq(todo[w], 4, Len(todo[w])))
  /\ UNCHANGED <<nodes, pool, sshPool, conn>>
ProbeDead(w) ==
  /\ At(w, "probe") /\ conn[sshPool[N(w)]].state # "up"
  /\ conn' = [conn EXCEPT ![sshPool[N(w)]].state = "closed"]
  /\ sshPool' = [sshPool EXCEPT ![N(w)] = None]
  /\ Continue(w)
  /\ UNCHANGED <<nodes, pool>>

\* rebuildNode looks for its node.
Check(w) ==
  /\ At(w, "check")
  /\ IF Exists(N(w)) THEN Continue(w) ELSE Fail(w)
  /\ UNCHANGED <<nodes, pool, sshPool, conn>>

\* sshConnect begins, with the host that the node has now.
Dial(w) ==
  /\ At(w, "dial")
  /\ IF Exists(N(w))
     THEN /\ todo' = [todo EXCEPT ![w] = Tail(@)]
          /\ job' = [job EXCEPT ![w].host = nodes[N(w)].host]
          /\ UNCHANGED scenario
     ELSE Fail(w)
  /\ UNCHANGED <<nodes, pool, sshPool, conn>>

IsFree(c) == conn[c].state # "up" /\ ~conn[c].keep
              /\ \A n \in Nodes : sshPool[n] # c

\* sshConnect ends.  An entry that another dialler has stored is overwritten.
\* Mutant of Stored: no goroutine is started for the connection.
StoredAlone(w) ==
  [state |-> "up", node |-> N(w), host |-> job[w].host, keep |-> FALSE]
Stored(w) ==
  [state |-> "up", node |-> N(w), host |-> job[w].host, keep |-> TRUE]
Store(w) ==
  /\ At(w, "store") /\ SshPoolMuFree
  /\ \E c \in Conns :
        /\ IsFree(c)
        /\ conn' = [conn EXCEPT ![c] = Stored(w)]
        /\ sshPool' = [sshPool EXCEPT ![N(w)] = c]
  /\ Continue(w)
  /\ UNCHANGED <<nodes, pool>>
DialFails(w) ==
  /\ At(w, "store")
  /\ Fail(w)
  /\ UNCHANGED <<nodes, pool, sshPool, conn>>

\* Mutant of Keepalive: it removes whatever the node's entry is.
KeepaliveAny(c) ==
  /\ conn[c].keep /\ conn[c].state # "up" /\ SshPoolMuFree
  /\ conn' = [conn EXCEPT ![c] = Free]
  /\ sshPool' = [sshPool EXCEPT ![conn[c].node] = None]
  /\ UNCHANGED <<scenario, nodes, pool, todo, job>>
\* sshKeepalive finds its connection dead, removes that one only, and ends.
Keepalive(c) ==
  /\ conn[c].keep /\ conn[c].state # "up" /\ SshPoolMuFree
  /\ conn' = [conn EXCEPT ![c] = Free]
  /\ sshPool' = [n \in Nodes |-> IF sshPool[n] = c THEN None ELSE sshPool[n]]
  /\ UNCHANGED <<scenario, nodes, pool, todo, job>>

(***************************************************************************)
(* getNodeClient and the changes of a node                                 *)
(***************************************************************************)
\* The LXD client is made for the URL that the node has when it connects.
ConnectStart(w) ==
  /\ At(w, "connect") /\ PoolMuFree
  /\ \/ pool[N(w)] # None /\ Continue(w)
     \/ pool[N(w)] = None /\ ~Exists(N(w)) /\ Fail(w)
     \/ /\ pool[N(w)] = None /\ Exists(N(w))
        /\ todo' = [todo EXCEPT ![w] = <<"connecting">> \o Tail(@)]
        /\ job' = [job EXCEPT ![w].host = nodes[N(w)].url]
        /\ UNCHANGED scenario
  /\ UNCHANGED <<nodes, pool, sshPool, conn>>
Connected(w) ==
  /\ At(w, "connecting")
  /\ pool' = [pool EXCEPT ![N(w)] = job[w].host]
  /\ Continue(w)
  /\ UNCHANGED <<nodes, sshPool, conn>>
ConnectFails(w) ==
  /\ At(w, "connecting")
  /\ Fail(w)
  /\ UNCHANGED <<nodes, pool, sshPool, conn>>

removeNodeClient(w) ==
  /\ At(w, "dropLxd") /\ PoolMuFree
  /\ pool' = [pool EXCEPT ![N(w)] = None]
  /\ Continue(w)
  /\ UNCHANGED <<nodes, sshPool, conn>>
removeSSHClient(w) ==
  /\ At(w, "dropSsh") /\ SshPoolMuFree
  /\ sshPool' = [sshPool EXCEPT ![N(w)] = None]
  /\ conn' = [c \in Conns |-> IF sshPool[N(w)] = c
                              THEN [conn[c] EXCEPT !.state = "closed"]
                              ELSE conn[c]]
  /\ Continue(w)
  /\ UNCHANGED <<nodes, pool>>

\* Nothing locks the record while it is written; a removed one is garbage.
Write(w, s, new) ==
  /\ At(w, s)
  /\ nodes' = IF Exists(N(w)) THEN [nodes EXCEPT ![N(w)] = new] ELSE nodes
  /\ Continue(w)
  /\ UNCHANGED <<pool, sshPool, conn>>
SetHost(w) ==
  Write(w, "setHost", [host |-> job[w].host, url |-> nodes[N(w)].url])
SetUrl(w) ==
  Write(w, "setUrl", [host |-> nodes[N(w)].host, url |-> job[w].host])
Refresh(w) ==
  Write(w, "refresh", [host |-> nodes[N(w)].host, url |-> nodes[N(w)].host])
Delete(w) == Write(w, "delete", None)

(***************************************************************************)
(* Requests and the network                                                *)
(***************************************************************************)
\* Every handler looks for the node first.  Two migrations of one node at a
\* time are left out: their writes of the host and of the URL can cross.
Begin(w, op, n, h) ==
  /\ op \in scenario.ops
  /\ todo[w] = <<>>
  /\ scenario.serial => \A v \in Workers : todo[v] = <<>>
  /\ op \in {"rebuild", "migrate", "remove"} => Exists(n)
  /\ op = "migrate" =>
       \A v \in Workers : todo[v] # <<>> => job[v].op # op \/ N(v) # n
  /\ todo' = [todo EXCEPT ![w] = Script(op)]
  /\ job' = [job EXCEPT ![w] = [op |-> op, node |-> n, host |-> h]]
  /\ UNCHANGED <<scenario, nodes, pool, sshPool, conn>>

\* The other side of a connection goes away.
Break(c) ==
  /\ conn[c].state = "up"
  /\ conn' = [conn EXCEPT ![c].state = "broken"]
  /\ UNCHANGED <<scenario, nodes, pool, sshPool, todo, job>>

Step(w) ==
  \/ Lookup(w) \/ ProbeAlive(w) \/ ProbeDead(w) \/ Dial(w) \/ Store(w)
  \/ DialFails(w) \/ ConnectStart(w) \/ Connected(w) \/ ConnectFails(w)
  \/ removeNodeClient(w) \/ removeSSHClient(w)
  \/ Check(w) \/ SetHost(w) \/ SetUrl(w) \/ Refresh(w) \/ Delete(w)
Next ==
  \/ \E w \in Workers : Step(w)
  \/ \E w \in Workers, op \in Requests, n \in Nodes :
        \E h \in IF op = "migrate" THEN Hosts ELSE {Free.host} :
           Begin(w, op, n, h)
  \/ \E c \in Conns : Keepalive(c) \/ Break(c)
Spec == Init /\ [][Next]_vars

\* Goroutines run, calls to a node return, so that no mutex stays closed, and
\* the ticker of a keepalive ticks.  Go's mutexes hand over to who waits.
Fairness ==
  /\ \A w \in Workers : WF_vars(Step(w))
  /\ \A c \in Conns : SF_vars(Keepalive(c))
FairSpec == Spec /\ Fairness

(***************************************************************************)
(* Properties                                                              *)
(***************************************************************************)
\* An LXD client that leads to an address the node does not have, or to a node
\* that is gone, is one that a goroutine is about to drop: "force new LXD
\* client for the new machine" (nodes.go:987), whatever else connects.
LxdCurrent ==
  \A n \in Nodes :
     \/ pool[n] = None
     \/ Exists(n) /\ pool[n] = nodes[n].url
     \/ \E w \in Workers : N(w) = n /\ Contains(todo[w], "dropLxd")
\* Well typed, with a pool that is current.
PoolInv == TypeOK /\ LxdCurrent

\* Of requests that do not overlap, every open SSH connection is the one in
\* the pool, and it leads to the host that its node has: no keepalive closes
\* another's connection, and none is forgotten.  (A removed node keeps its
\* connection.)  Two diallers of one node leave one behind, and one that began
\* before a migration stores a connection to the old host after it.
OneConnection ==
  scenario.serial =>
    \A c \in Conns : conn[c].state = "up" =>
       LET n == conn[c].node
       IN  /\ sshPool[n] = c
           /\ \/ ~Exists(n) \/ conn[c].host = nodes[n].host
              \/ \E w \in Workers : N(w) = n /\ Contains(todo[w], "dropSsh")

\* A connection that breaks leaves the pool, by its keepalive or by the next
\* request, so that no node stays behind a dead connection.
BrokenLeaves ==
  \A n \in Nodes :
     (sshPool[n] # None /\ conn[sshPool[n]].state = "broken")
       ~> (sshPool[n] = None \/ conn[sshPool[n]].state = "up")
=============================================================================
