----------------------------- MODULE LockOrder -----------------------------
(***************************************************************************)
(* The mutexes of lxc-manager.  Each operation is the sequence of locks it *)
(* takes and releases, and of the shared maps it touches between, along    *)
(* its longest path; what it computes is left out.  A function of the code *)
(* is a sequence here, a call is a concatenation, and a critical section   *)
(* is Under(mutex, body), so a definition reads like the function.         *)
(*                                                                         *)
(* Of the error paths only those are kept that skip an unlock or end the   *)
(* goroutine elsewhere: the panics of a pool that has run dry.             *)
(*                                                                         *)
(* Go's mutexes are not reentrant.  A pending writer of a RWMutex also     *)
(* holds back new readers; no function read-locks twice, so this adds no   *)
(* circular wait that the model lacks.                                     *)
(***************************************************************************)
EXTENDS Naturals, Sequences, FiniteSets

CONSTANTS Workers,      \* goroutines: requests, check loop, keepalives
          NoWorker,
          Scenarios     \* what is asked of them: see the assumption

Mutexes == {"instMu", "cursorMu", "nodesMu", "poolMu", "sshPoolMu", "usersMu",
            "userTokensMu", "stateMu", "plansMu", "sseClientsMu"}
Variables == {"instances", "used", "cursors", "nodes", "regionNodes", "pool",
              "sshPool", "users", "userTokens", "stateFails", "sseClients"}
Pools == {"ports", "addresses"}
Allocators == {"create", "migrate"}
AllOps == Allocators \cup
  {"delete", "start", "list", "checkNode", "checkContainer", "keepalive",
   "removeNode", "rebuildNode", "listUsers", "resetToken", "deleteUser"}

ASSUME WorkersAssumption == NoWorker \notin Workers
\* workers: the goroutines there are.  ops: the operations they are asked for.
\* oneAllocator: one create or migrate is in flight at a time.  watched: the
\* variables whose accesses are steps of their own.  dry: the pools that may
\* run dry.
ASSUME ScenariosAssumption ==
  Scenarios \subseteq [workers : SUBSET Workers, ops : SUBSET AllOps,
                      oneAllocator : BOOLEAN, watched : SUBSET Variables,
                      dry : SUBSET Pools]

VARIABLES
  scenario, \* one of Scenarios, from beginning to end
  op,      \* the operation each worker serves, or "idle"; "dead" if it has
           \* ended and left a mutex locked
  left,    \* the steps it still has to take
  holder,  \* per mutex, who has locked it
  readers  \* per RWMutex, who has read-locked it
vars == <<scenario, op, left, holder, readers>>

(***************************************************************************)
(* Building blocks                                                         *)
(***************************************************************************)
Do(what, on) == <<[do |-> what, on |-> on]>>
Under(m, body) == Do("lock", m) \o body \o Do("unlock", m)
Sharing(m, body) == Do("rlock", m) \o body \o Do("runlock", m)
Get(v) == IF v \in scenario.watched THEN Do("read", v) ELSE <<>>
Set(v) == IF v \in scenario.watched THEN Do("write", v) ELSE <<>>
\* allocWithCursor: the next free member of a pool, or a panic.
allocWithCursor(pool) == Do("draw", pool)

(***************************************************************************)
(* Functions of server.go, nodes.go, health.go, auth.go and events.go.     *)
(* dial: no live SSH connection is pooled, so one is opened.               *)
(***************************************************************************)
saveCursors   == Under("cursorMu", Get("cursors"))
saveInstances == Get("instances")
\* Mutant of AllocPort: the pool's lock is not taken.
AllocPortUnlocked ==
  Set("cursors") \o allocWithCursor("ports") \o Set("used")
AllocPort ==
  Under("cursorMu", Set("cursors") \o allocWithCursor("ports") \o Set("used"))
ipInUse       == Under("instMu", Get("instances"))
allocateStaticIP ==
  Under("cursorMu", Set("cursors") \o ipInUse \o allocWithCursor("addresses")
                    \o Set("cursors"))
\* Mutant of registerInstance: the address is chosen after instMu is taken.
registerAllocatingLate ==
  AllocPort \o AllocPort
  \o Under("instMu", allocateStaticIP \o Set("instances") \o saveInstances
                     \o saveCursors)
registerInstance ==
  AllocPort \o AllocPort \o allocateStaticIP
  \o Under("instMu", Set("instances") \o saveInstances \o saveCursors)
unregisterInstance ==
  Under("instMu", Set("used") \o Set("instances") \o saveInstances)

broadcastSSE == Under("sseClientsMu", Get("sseClients"))
setState == Under("instMu", Get("instances")) \o saveInstances
            \o Under("stateMu", Set("stateFails")) \o broadcastSSE
setHealth == Under("instMu", Get("instances")) \o broadcastSSE
setNodeHealth == Under("nodesMu", Get("nodes")) \o broadcastSSE
setNodeState  == Under("nodesMu", Get("nodes")) \o Get("nodes") \o broadcastSSE

getNodeClient == Under("poolMu", Get("pool") \o Get("nodes") \o Set("pool"))
removeNodeClient == Under("poolMu", Set("pool"))
getSSHClient(dial) ==
  Under("sshPoolMu", Get("sshPool"))
  \o IF dial THEN Under("nodesMu", Get("nodes"))
                  \o Under("sshPoolMu", Set("sshPool"))
     ELSE <<>>
clientForInstance == Under("instMu", Get("instances")) \o getNodeClient
pickNode == Under("nodesMu", Get("regionNodes")
                             \o Under("instMu", Get("instances"))
                             \o Get("nodes"))
            \o getNodeClient

createContainerOnNode(dial) ==
  getSSHClient(dial) \o Under("nodesMu", Get("nodes")) \o saveInstances
\* instMu is held from the first container to the last.
syncDNATForNode(dial) ==
  Under("instMu", Get("instances") \o getNodeClient \o getSSHClient(dial)
                  \o getSSHClient(FALSE))
destroyContainer(dial) ==
  clientForInstance \o Under("instMu", Get("instances")) \o getSSHClient(dial)
  \o unregisterInstance
migrateContainer(dial) ==
  Under("instMu", Set("used")) \o AllocPort \o AllocPort \o allocateStaticIP
  \o createContainerOnNode(dial) \o getNodeClient \o getSSHClient(dial)
  \o Under("nodesMu", Get("nodes")) \o Under("instMu", Get("instances"))
  \o saveInstances

(***************************************************************************)
(* Operations                                                              *)
(***************************************************************************)
createContainerCore(dial) ==
  pickNode \o Under("plansMu", <<>>) \o Under("nodesMu", Get("nodes"))
  \o registerInstance \o createContainerOnNode(dial)
handleMigrate(dial) ==
  Under("instMu", Get("instances")) \o Under("nodesMu", Get("nodes"))
  \o getNodeClient \o Under("instMu", Get("instances")) \o saveInstances
  \o migrateContainer(dial)
\* validateUser looks the token up before a user's request is served.
validateUser == Sharing("userTokensMu", Get("userTokens"))
handleDelete(dial) ==
  validateUser \o Under("instMu", Get("instances")) \o clientForInstance
  \o getSSHClient(dial) \o unregisterInstance
handleStart ==
  validateUser \o Under("instMu", Get("instances")) \o clientForInstance
  \o setState
handleList ==
  validateUser \o Under("instMu", Get("instances"))
  \o Under("nodesMu", Get("nodes"))
checkNodeHealth(dial) ==
  Under("nodesMu", Get("nodes")) \o getNodeClient \o setNodeHealth
  \o syncDNATForNode(dial)
checkContainer ==
  Under("instMu", Get("instances")) \o Under("nodesMu", Get("nodes"))
  \o getNodeClient \o Under("stateMu", Set("stateFails")) \o setHealth
sshKeepalive == Under("sshPoolMu", Set("sshPool"))
removeNode ==
  Under("nodesMu", Get("nodes")) \o Under("instMu", Get("instances"))
  \o Under("nodesMu", Set("regionNodes") \o Set("nodes")) \o Get("nodes")
  \o removeNodeClient
rebuildNode(dial) ==
  Under("nodesMu", Get("nodes")) \o setNodeState \o getSSHClient(dial)
  \o Under("instMu", Get("instances")) \o saveInstances \o removeNodeClient
  \o getNodeClient \o Under("instMu", Get("instances") \o Set("used"))
  \o createContainerOnNode(FALSE) \o Under("instMu", Get("instances"))
  \o Under("nodesMu", Get("nodes")) \o Get("nodes")
\* The users are counted one by one under usersMu.
listUsers == Sharing("usersMu", Get("users")
                                \o Under("instMu", Get("instances")))
regenerateUserToken ==
  Under("usersMu", Get("users") \o Under("userTokensMu", Set("userTokens"))
                   \o Get("users"))
\* Mutant of deleteUser: the containers are destroyed under the lock that
\* they were listed under.
deleteUserLocked(dial) ==
  Sharing("usersMu", Get("users"))
  \o Under("instMu", Get("instances") \o destroyContainer(dial))
  \o Under("userTokensMu", Set("userTokens"))
  \o Under("usersMu", Set("users")) \o Get("users")
deleteUser(dial) ==
  Sharing("usersMu", Get("users")) \o Under("instMu", Get("instances"))
  \o destroyContainer(dial) \o Under("userTokensMu", Set("userTokens"))
  \o Under("usersMu", Set("users")) \o Get("users")

Script(dial) ==
  [create |-> createContainerCore(dial), migrate |-> handleMigrate(dial),
   delete |-> handleDelete(dial), start |-> handleStart, list |-> handleList,
   checkNode |-> checkNodeHealth(dial), checkContainer |-> checkContainer,
   keepalive |-> sshKeepalive, removeNode |-> removeNode,
   rebuildNode |-> rebuildNode(dial), listUsers |-> listUsers,
   resetToken |-> regenerateUserToken, deleteUser |-> deleteUser(dial)]

(***************************************************************************)
(* Steps                                                                   *)
(***************************************************************************)
Step == [do : {"lock", "unlock", "rlock", "runlock"}, on : Mutexes]
          \cup [do : {"read", "write"}, on : Variables]
          \cup [do : {"draw"}, on : Pools]
TypeOK ==
  /\ scenario \in Scenarios
  /\ op \in [Workers -> {"idle", "dead"} \cup scenario.ops]
  /\ \A g \in Workers : \A i \in DOMAIN left[g] : left[g][i] \in Step
  /\ \A g \in Workers : op[g] \in {"idle", "dead"} => left[g] = <<>>
  /\ holder \in [Mutexes -> Workers \cup {NoWorker}]
  /\ readers \in [Mutexes -> SUBSET Workers]

Init ==
  /\ scenario \in Scenarios
  /\ op = [g \in Workers |-> "idle"]
  /\ left = [g \in Workers |-> <<>>]
  /\ holder = [m \in Mutexes |-> NoWorker]
  /\ readers = [m \in Mutexes |-> {}]

Allowed(g, o) ==
  (scenario.oneAllocator /\ o \in Allocators) =>
    \A h \in Workers \ {g} : op[h] \notin Allocators
Start(g, o, dial) ==
  /\ op[g] = "idle" /\ Allowed(g, o)
  /\ g \in scenario.workers /\ o \in scenario.ops
  /\ op' = [op EXCEPT ![g] = o]
  /\ left' = [left EXCEPT ![g] = Script(dial)[o]]
  /\ UNCHANGED <<scenario, holder, readers>>

At(g, what, x) == left[g] # <<>> /\ Head(left[g]) = [do |-> what, on |-> x]
Advance(g) == left' = [left EXCEPT ![g] = Tail(@)] /\ UNCHANGED <<scenario, op>>
Lock(g, m) ==
  /\ At(g, "lock", m) /\ holder[m] = NoWorker /\ readers[m] = {}
  /\ holder' = [holder EXCEPT ![m] = g]
  /\ Advance(g) /\ UNCHANGED readers
RLock(g, m) ==
  /\ At(g, "rlock", m) /\ holder[m] = NoWorker
  /\ readers' = [readers EXCEPT ![m] = @ \cup {g}]
  /\ Advance(g) /\ UNCHANGED holder
Unlock(g, m) ==
  /\ \/ At(g, "unlock", m) /\ holder' = [holder EXCEPT ![m] = NoWorker]
                           /\ UNCHANGED readers
     \/ At(g, "runlock", m) /\ readers' = [readers EXCEPT ![m] = @ \ {g}]
                            /\ UNCHANGED holder
  /\ Advance(g)
Access(g, v) ==
  /\ At(g, "read", v) \/ At(g, "write", v)
  /\ Advance(g) /\ UNCHANGED <<holder, readers>>
Draw(g, pool) ==
  /\ At(g, "draw", pool)
  /\ Advance(g) /\ UNCHANGED <<holder, readers>>

\* Mutant of PanicInHandler: the ports are drawn without a deferred unlock too.
PanicWithoutDefer(g, pool) ==
  /\ op[g] = "create"
  /\ op' = [op EXCEPT ![g] = "dead"]
  /\ left' = [left EXCEPT ![g] = <<>>]
  /\ UNCHANGED <<holder, readers>>
\* corsHandler recovers the panic of a creation, when what is deferred has run:
\* the unlock after a port, and nothing after an address.
PanicInHandler(g, pool) ==
  /\ op[g] = "create"
  /\ \/ /\ pool = "ports"
        /\ left' = [left EXCEPT ![g] = Do("unlock", "cursorMu")]
        /\ UNCHANGED op
     \/ /\ pool = "addresses"
        /\ op' = [op EXCEPT ![g] = "dead"]
        /\ left' = [left EXCEPT ![g] = <<>>]
  /\ UNCHANGED <<holder, readers>>
\* A migration runs in a goroutine of its own, where nothing recovers it: the
\* process ends, and with it every goroutine and lock.
PanicInGoroutine(g) ==
  /\ op[g] = "migrate"
  /\ op' = [h \in Workers |-> "idle"]
  /\ left' = [h \in Workers |-> <<>>]
  /\ holder' = [m \in Mutexes |-> NoWorker]
  /\ readers' = [m \in Mutexes |-> {}]
Panic(g, pool) ==
  /\ At(g, "draw", pool) /\ pool \in scenario.dry
  /\ PanicInHandler(g, pool) \/ PanicInGoroutine(g)
  /\ UNCHANGED scenario

Return(g) ==
  /\ op[g] \notin {"idle", "dead"} /\ left[g] = <<>>
  /\ op' = [op EXCEPT ![g] = "idle"]
  /\ UNCHANGED <<scenario, left, holder, readers>>

Acquire(g) == \E m \in Mutexes : Lock(g, m) \/ RLock(g, m)
Proceed(g) == \/ \E m \in Mutexes : Unlock(g, m)
              \/ \E v \in Variables : Access(g, v)
              \/ \E pool \in Pools : Draw(g, pool) \/ Panic(g, pool)
              \/ Return(g)
Next ==
  \E g \in Workers : \/ \E o \in AllOps, dial \in BOOLEAN : Start(g, o, dial)
                     \/ Acquire(g) \/ Proceed(g)
Spec == Init /\ [][Next]_vars
\* Goroutines run, and sync.Mutex hands the lock to a goroutine that has
\* waited for a millisecond, so a waiter is not overtaken for ever.
FairSpec == Spec /\ \A g \in Workers : WF_vars(Proceed(g)) /\ SF_vars(Acquire(g))

(***************************************************************************)
(* Properties                                                              *)
(***************************************************************************)
\* Whom g waits for with its next step.
WaitsFor(g) ==
  {h \in Workers : \E m \in Mutexes :
     \/ At(g, "lock", m) /\ (holder[m] = h \/ h \in readers[m])
     \/ At(g, "rlock", m) /\ holder[m] = h}

\* No set of goroutines waits for each other: "Allocate ports and IP BEFORE
\* locking instMu to avoid instMu -> cursorMu -> instMu deadlock"
\* (server.go:362-363).  A goroutine that locks a mutex it holds, which the
\* comment at server.go:1825 warns of, is a set of one.
NobodyWaitsInACircle ==
  \A S \in (SUBSET Workers) \ {{}} : \E g \in S : WaitsFor(g) \cap S = {}

\* It holds of all paths of all operations as long as allocations do not
\* overlap and no node recovers: those are the only two inversions there are.
Ordered == scenario.oneAllocator /\ "checkNode" \notin scenario.ops
NoCircularWait == Ordered => NobodyWaitsInACircle

\* Every request of two goroutines that has started ends, under the same
\* condition: nobody waits for ever.  (With a third, that readers do not starve
\* a writer is RWMutex's own affair.)  One path leaves a mutex locked: where the
\* addresses of a node run out, allocateStaticIP panics with cursorMu locked,
\* and every later allocation hangs.  The other requests end all the same.
Pairs == Cardinality(scenario.workers) = 2
MayHang(g) ==
  "addresses" \in scenario.dry /\ op[g] \in Allocators \cup {"dead"}
RequestsEnd ==
  \A g \in Workers :
     (Ordered /\ Pairs /\ op[g] # "idle" /\ ~MayHang(g)) ~> (op[g] = "idle")

\* The variables that one mutex guards.  (instances, nodes, users and the maps
\* of used ports and addresses are also touched outside their writers' mutex.)
Guarded == {"regionNodes", "cursors", "pool", "sshPool", "userTokens",
            "stateFails", "sseClients"}

\* No two goroutines are about to touch one of them when one of the two writes
\* it: concurrent map writes end the process.
NoRace ==
  \A g \in Workers, h \in Workers : \A v \in Guarded :
     (g # h /\ At(g, "write", v)) => ~(At(h, "read", v) \/ At(h, "write", v))
\* Well typed, without races.
LockInv == TypeOK /\ NoRace
=============================================================================
