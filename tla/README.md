# Specifications of lxc-manager

`lxc-manager` is one Go process that runs LXD containers on a set of hosts. It
answers a REST API, keeps its registry in maps guarded by mutexes, mirrors them
in JSON files, and talks to the hosts over SSH and the LXD API. These modules
describe what happens when its requests, its health checks, its backup loop and
its restarts interleave. Paths without a directory are in
`src/cmd/lxc-manager/`.

Run anything here with `tlc -config X.cfg M` (X and M from the tables below) and
`tlapm M.tla` for the
modules of proofs.

## The system

Every HTTP request is a goroutine. `cmdServe` (server.go:2178) restores the data
files from R2 when there are none, loads them, and serves; behind a domain it
also starts the check loop (health.go) and the backup loop (backup.go). Every
SSH connection has a keepalive goroutine, every node rebuild and container
migration one that goes on after the request was answered. They share maps; one
mutex guards each map by convention, and several functions hold two.

| component | state | operations | what makes it correct |
|---|---|---|---|
| instance registry and allocator (server.go) | `instances`, `usedSSH`, `usedSvc`, cursors, `instances.json`, `cursors.json` | `registerInstance`, `unregisterInstance`, `migrateContainer`, `loadInstances` | a port or address has one owner; the used maps are exact; ports stay bound to a container through restarts |
| container lifecycle and checks (server.go, health.go) | `State`, `Health` of a record, `stateFails`; the container and its DNAT rules on the host | create, start, stop, restart, delete, rebuild, refresh; `checkAllContainers` | state and health mean what the API says; nothing runs without a record; a death is noticed |
| nodes and placement (nodes.go) | `nodes`, `regionNodes` | add, update, migrate, remove, `pickNode` | no container on a node that is gone; capacity and drain respected; one node per host |
| node rebuild and migration (nodes.go) | node state and health, records of its containers | `rebuildNode`, `handleNodeMigrate`, `recreateAllContainersOnNode` | a rebuild ends, says whether it succeeded, and leaves its containers running |
| mutexes (all files) | ten mutexes | | no deadlock, no unguarded access |
| container migration (server.go, nodes.go) | the record; containers and rules on two nodes | `handleAdminMigrateContainer`, `migrateContainer`, beside the other requests | the container is never without a body; afterwards it and its rules are on one node, the one of its record |
| data files (all files; plans.go, regions.go and cli.go too) | the JSON files | `saveInstances`, `saveNodes`, `saveUsers`, ...; commands | a file holds what the server has in memory |
| backup (backup.go) | `syncChan`, pending names, the bucket | `triggerSync`, `startSyncLoop`, `restoreFromR2` | the bucket catches up and is never set back |
| connection pools (nodes.go) | `pool`, `sshPool`, keepalives | `getNodeClient`, `getSSHClient`, `removeNodeClient`, `removeSSHClient` | no client for an old address; one connection per node; broken ones leave |
| event stream (events.go) | `sseClients`, a channel per client | `broadcastSSE`, `handleEvents` | a client's view follows the record; a slow client holds nobody up |
| users (auth.go) | `users`, `userTokens`, `users.json` | add, reset token, rename, delete | names unique; the index agrees with the records; a deleted user leaves no token and no container |
| self-update (update.go) | the executable, `.lxc-manager.new` | `doUpdate` | the executable is always a verified release |
| router, TLS, terminal, configuration, provisioning script, deployment | none of their own | | not modelled, see below |

How they interact: a creation asks placement for a node, the registry for ports
and an address, the LXD client for a container; a failure goes back into the
registry and into the node's health. Deleting a user destroys containers. The
check loop reads nodes first and containers after, and restores DNAT rules when
a node answers again. Rebuilding a node rewrites the records of its containers.
Every save ends in `triggerSync`, and a change of state or health in
`broadcastSSE`. All calls to a node go through its pooled connections, which a
rebuild or a migration of the node replaces.

What is hard to test here, and what the properties are for: critical sections of
two mutexes in two orders; state read under a mutex and used after an exchange
with a host; handlers whose calls interleave with a check's; files written after
the unlock; a restart from files of different ages; pools that run dry (the
allocator panics and `net/http` goes on); a full channel; a rebuild that fails
half-way. `PROJECT.json` lists each with its line.

## Modules

One action is one critical section, or one exchange with the world outside; what
the code does between an unlock and the next lock is part of one of the two.

Registry is told by its constants what happens. Every other module has a variable
`scenario` that Init chooses from the constant `Scenarios` and no step changes
(Events and NodeRebuild: `setting` from `Settings`; Update: a Boolean `overlap`).
A scenario says which operations are asked for,
which faults happen, and whether requests overlap; a property that holds only
without some of these says so in its first line, and one run covers all
scenarios of a module. The **MC** modules hold the scenarios and the symmetry;
nothing in them models code.

**Leases** is what the registry promises: a port is free or leased to one holder;
a request is granted free ports, hands them to the container it creates, and a
lease ends with its holder; a restart may forget containers or bring old ones
back, but nobody gets another's port. No map, cursor or file appears in it.

**Registry** (server.go:147-490, 564-670, 1370-1480). `registered` is the key set
of `instances`, and `rec` the record objects: a migration keeps a pointer to one
while the map may lose it. `used`, `cursor`, `ipCursor` are the allocator's.
`pc`/`loc` are the position and local variables of a request in
`registerInstance` or `migrateContainer`. `registerInstance` writes two files
inside one critical section; it is two actions, so that a crash can fall between
them, and `InstMuFree` keeps the mutex closed. `Restart` is a crash at any point
followed by `loadInstances`, `loadCursors` and `rebuildCursorsFromInstances`.
`allocWithCursor` is the set of the values it can return; exhaustion is the panic
of the code and leaves `pc` in a `panic...` state in which the dead request still
holds what it claimed (and, after `panicIp`, cursorMu, which is not unlocked by a
defer). `LeaseSpec` is `Spec` without migrations. LXD does not appear: a creation
may fail after its registration, which is all the registry sees of it.

`leasesBar` reads the leases off `Registry`: what a request holds between taking
a port and registering, and what registered records say. Under it `Registry`
without migrations implements `Leases` (`ImplementsLeases`).

**RegistryProofs** holds the proofs about Registry, the refinement included; each
other proof is in the module named after its subject: LifecycleProofs,
LockOrderProofs, PlacementProofs, ConnPoolProofs; R2SyncProofs, which is also
about Update; UsersProofs, also about Events; MigrationProofs, also about
NodeRebuild. Three modules are thus extended beside another one, and so their
`Init`, `Next` and `Spec` carry a prefix: `UpdateSpec`, `EventsSpec`, `RebuildSpec`.

**Lifecycle** (server.go:524-560, 670-1014, 1081-1306, 1824-1859; health.go). One
active node. A handler is a script, the sequence of the calls it makes; an action
takes the first call of one goroutine's `todo`, so the calls of a request and of a
check interleave freely. `Found` is what is left of a removal or a rebuild once it
has seen the container's status. `state`, `health`, `registered` are the record; `lxd`,
`rule`, `mute` are the container, its DNAT rules and whether it answers;
`nodeUp`, `nodeHealth` the host and what the program thinks of it. The faults are
failing calls, reboots of the host, and containers that halt or hang. The LXD
client hands an operation to LXD and then waits for it (lxc/client.go:84-119), so
a call can fail before LXD did anything (`"lxd"`) or after (`"lost"`).

**Placement** (nodes.go:95-260, 639-650, 940-1012; server.go:1507-1736). `where`
is the `Node` of each registered container. `pickNode` is one action, since it
holds both mutexes; registration is a second; `removeNode` counts in one and
deletes in another. There is one region, so `regionNodes` follows from `nodes`.

**NodeRebuild** (nodes.go:330-505, 930-1012). Nodes, machines (`Hosts`) and the
containers in each machine's LXD (`there`). One of `Goroutines` goes through
the handler, `rebuildNode` and the goroutine that goes on. The check of a node and the crash of the process
interleave. The nil dereference at nodes.go:452, after a removal, ends the process.

**LockOrder** (all files). A function is a sequence of lock, unlock and access
steps; a call is a concatenation, and `Under(m, body)` a critical section. The
paths are the longest of each function. `watched` names the shared variables whose
accesses are steps of their own. Error paths matter where they skip an unlock:
`allocWithCursor` panics when a pool runs dry (`dry`). After a port, the deferred
unlock runs and `corsHandler` answers the request; after an address,
`allocateStaticIP` has no defer and cursorMu stays locked (`"dead"`); in the
goroutine of a migration nothing recovers the panic and the process ends.

**Migration** (server.go:832-944, 1258-1503; health.go:122-244). One container,
several nodes. `body` is the container in the LXD of each node, `rule` the DNAT
rules that lead to it, `rec` its record, `registered` whether the record is in
`instances`: a migration or rebuild goes on writing to a record that was
deregistered meanwhile. Handlers are scripts, as in Lifecycle; `OnError` holds
their error paths. The two deletions are two scripts: `handleDelete`, the user's,
drops the record before the container, and `destroyContainer`, which the
administrator's deletion and the deletion of a user call, after it. A failing
call may have taken effect. A port number stands for the pair of ports that a migration
draws; that they are free is Registry's subject. `Crash` restarts from
`instances.json`, which `Claim` and `Restore` do not write.

**R2Sync** (backup.go:105-330; the save functions of server.go, nodes.go, auth.go,
plans.go, regions.go; cli.go). A file's content is the set of the changes in it. A
save has changed its map, has its bytes, has the file truncated, has written it
and sent its name; it holds the mutex of the map through all of it, or, where the
code saves after the unlock (`unlocked`), for the change only. Two that have the
file open at once may leave it torn. A command is one more saver, with what it
reads from the file for memory. The loop collects names, and at a tick uploads
the files whose age is `debounce`; time is counted in ticks. A crash may take the
machine with it; a start without `instances.json` restores, and a start refuses a
torn file.

**ConnPool** (nodes.go:170-207, 344-425, 518-627, 970-1003). The pools, every
connection that is open, pooled or not, with its keepalive, and the records of
the nodes, whose SSH host and URL change in two steps. `poolMu` is closed while a
client connects, `sshPoolMu` while a connection is probed; dialling holds neither.

**Events** (events.go; health.go:214-285; nodes.go:277-302). One record, which
writers change, some silently, and clients follow: subscribe, read the list, apply
the events. `Late` marks a field of an event that the code reads after the unlock.

**Users** (auth.go:39-258; server.go:492-498, 670-690). Records, the token index,
the file, and the creations that users make meanwhile.

**Update** (update.go). Each invocation is a process; `open` says where the file
is that it has open, since a rename by another process moves it.

No module uses a RECURSIVE operator, so any of them can be proved about.

## Runs

| run | module | what it shows |
|---|---|---|
| registry_lease | MCRegistry | two creations at once, deletions, failures, panics of dry pools and restarts at every point: `PortsBound`; `LeaseInv`, the inductive invariant of the proofs, which says `PortsExclusive` and that the used maps are exact; and `ImplementsLeases` |
| registry_serial | MCRegistry | one request at a time, migrations, wrapping cursors, panics and restarts: `PortsExclusive`, `IpsExclusive` |
| lifecycle | MCLifecycle | one request or check at a time, every fault: `RecordIsTrue` (in `LifecycleInv`), with its part `StoppedMeansStopped` where no start fails after it took effect; such starts are in a scenario of their own. A check beside a request, no fault: `NoOrphan`, `RunningIsReachable`. A check beside a request, reboots, halts, hangs, and calls that fail after they took effect: `DeathNoticed`, `RecoveryNoticed`, `CreatingEnds` |
| migration | MCMigration | every request of one container, one at a time, and a check beside it: `MovedWhole`. Failing calls and crashes, or failing calls and overlapping migrations and deletions of both kinds: `Survives` (in `MigrationInv`). All without a crash: `TransitionEnds` |
| placement | MCPlacement | all operations, one at a time: `NoDangling` (in `PlacementInv`). Overlapping creations that choose by `pickNode`, with additions, removals and rebuilds of nodes: `OvershootBounded` |
| node_rebuild | MCNodeRebuild | a node beside another, failing machines, crashes, checks and removals: `RebuildReports`. Two nodes, or one that moves, on machines that work: `RunningIsThere` (in `RebuildInv`), `Recovered`. Everything, all failing: `RebuildingEnds` |
| conn_pool | MCConnPool | requests that overlap a migration, a rebuild or a removal of their node: `LxdCurrent` (in `PoolInv`), `BrokenLeaves`. One request at a time: `OneConnection` |
| lock_order | MCLockOrder | three goroutines on the operations that nest mutexes, two on all, without overlapping allocations and recovering nodes, with pools that run dry: `NoCircularWait`, and of the two `RequestsEnd`. Two goroutines without that restriction: `NoRace` (in `LockInv`) of the variables that one mutex guards |
| sync | MCR2Sync | two savers, of which one may save unlocked, crashes, lost machines, restorations, commands between two runs of the server: `FileAgrees` (in `FilesInv`). No failure, room in the channel: `CatchesUp`. Failed uploads, crashes, lost machines, dropped names: `BackupGrows` |
| events | MCEvents | announced changes, one after the other: `ViewAgrees` (in `EventsInv`). Overlapping and silent ones: `SeesRunning`. Clients that do not read: `NotHeldUp` |
| users | MCUsers | two requests at once, crashes: `NamesUnique`, `IndexAgrees` (in `UsersInv`). One at a time, crashes: `OwnersExist`, `TokensDie`, `DiskAgrees` |
| update | Update | every fault, one update at a time: `InstalledWhole` (in `UpdateInv`), `InstallsItsTag`. Two that overlap: `InstalledWhole` as far as no unverified byte is installed |

The first invariant of a run is the type invariant together with the property
named in parentheses.

### What the conditions exclude

Where a property carries a condition, the code breaks it without the condition.
Each case below is a behaviour of the modules: drop the condition and TLC prints
it (for NoOrphan, Recovered, RebuildReports and the panic of RunningIsThere, allow a
second request or goroutine; for its move, two nodes that migrate; for LxdCurrent,
a second migration of the node; for Survives, a failed rebuild, or a crash beside
a destroyContainer). They disagree
with what a document or comment says, or with what a reader of the code would
take for granted.

| property | without the condition |
|---|---|
| PortsExclusive, ImplementsLeases | a migration frees ports that its container still owns, and another request takes them (server.go:1374; server.go:151-152) |
| IpsExclusive | an address is chosen before its container is registered (server.go:348): while one creation waits in between, others take the cursor once round the range, and the address is chosen again |
| NoCircularWait, RequestsEnd | of two creations, one holds instMu and wants cursorMu (server.go:411), the other the reverse (server.go:348), although ports are allocated "BEFORE locking instMu to avoid instMu -> cursorMu -> instMu deadlock" (server.go:362). A recovering node takes nodesMu under instMu (health.go:290), pickNode instMu under nodesMu (nodes.go:221): a creation and a check stop each other |
| RequestsEnd | where the addresses of a node run out, `allocWithCursor` panics (server.go:189) and `allocateStaticIP`, which unlocks without a defer (server.go:348-357), leaves cursorMu locked: the request is answered (server.go:1964), and every creation and migration after it hangs |
| HealthOnlyWhenRunning | a check that read `running` writes the health of a container stopped meanwhile (health.go:135; doc/api.md:823) |
| StoppedMeansStopped | a check that looks between the stop and the start of a restart writes `stopped` after the restart wrote `running` (health.go:176; doc/api.md:807). That a check writes `state` at all is against its own comment (health.go:123-124). A start that took effect and whose wait failed (lxc/client.go:91-99) is answered with an error and leaves `stopped` on a container that runs (server.go:908-911); checks skip stopped records, so it stays |
| NoOrphan | a deletion during a creation finds nothing in LXD and drops the record; the container comes to life without one (server.go:854; doc/api.md:355). A deletion whose LXD calls fail has dropped the record first (server.go:866; doc/api.md:877) |
| RunningIsReachable | a creation that fails on a lost node overwrites `lost`; its rules are not restored (server.go:662; health.go:116) |
| NoDangling | a creation registers between the count and the removal of its node (nodes.go:190; doc/api.md:593) |
| OvershootBounded | the default node and the target of a migration are chosen without a count, also when drained (nodes.go:641; doc/api.md:448) |
| RebuildReports | after a node migration the rebuild looks for its containers by the new address, finds none and reports success (nodes.go:400; doc/api.md:530). Of two rebuilds that passed the test of the state, one may report before the other marks the containers (nodes.go:338) |
| RunningIsThere | a node that is moved to the machine of another has it emptied, with the containers of the other (nodes.go:979). A rebuild of a node that was removed ends the process (nodes.go:452) while the machine of another node is emptied and its containers not yet marked |
| Recovered | a node migration during a rebuild marks containers `creating`, and its own rebuild is refused (nodes.go:939). Two rebuild requests pass the test of the state (nodes.go:338; server.go:1688) |
| MovedWhole | a deletion during a migration removes the old container and leaves the new one without a record (server.go:854, 1455); two migrations at once leave a container, or its rules, on a node that no record names (server.go:1308); a cleanup whose calls fail leaves the old container, and a crash leaves the new one (server.go:1445, 1482) |
| Survives | a rebuild removes the container first: when the creation fails, the record says `running` and there is none (server.go:1289-1302). destroyContainer drops the record after the container (server.go:1854, 1857): a crash between the two leaves a record of nothing |
| TransitionEnds | a crash leaves `migrating` or `creating` in the file, and no start looks for it (server.go:657, 1355; server.go:240) |
| FileAgrees | two saves after the unlock write in another order than they read: the file stays behind until the next save (health.go:230, auth.go:203, 328). A command overwrites what the server has saved since, and the server the command (cli.go:168; auth.go:24) |
| LxdCurrent | two migrations of one node cross in the writes of host and URL (nodes.go:979-985): the client of the first is kept for the second's address |
| OneConnection | two requests find no connection and both dial; the second stored hides the first, which stays open with its keepalive (nodes.go:593). A dial that began before a node migration stores a connection to the old host |
| ViewAgrees | two changes send their events in another order than they were made (health.go:222); a successful creation, rebuild, migration or provisioning sends none (server.go:558, 1471; nodes.go:442; doc/api.md:55); a full channel drops (events.go:46) |
| CatchesUp | a command puts its name into the channel of its own process, which ends. A name dropped from a full channel, and a failed upload, are not made up for (backup.go:230, 324; backup.go:231, readme.md:391) |
| BackupGrows | what FileAgrees excludes reaches the bucket too. A restoration that stops half way leaves a file out, and its next save replaces the backup (server.go:2188) |
| TokensDie, OwnersExist, DiskAgrees | a token reset, a creation, or a save beside a deletion of the user (auth.go:197, 185, 203; auth.go:170, 25) |
| InstalledWhole | `updateMu` is a variable of each process: two updates share the temporary file (update.go:71; update.go:68, 134) |

Seven more have no property, because one step shows them: `maxContainers` 0 takes
in no container (nodes.go:239), as doc/api.md:448 says, while doc/api.md:391 and
nodes.go:37 call it unlimited; a node migration may name
the host of another node (nodes.go:979; doc/api.md:387); the commands `remove-user`
and `remove-node` run in a process that has not loaded `instances.json`, so the
first destroys no container (auth.go:177; readme.md:41) and the second finds none
to refuse for (nodes.go:178; doc/api.md:593); the end of a record is not an event,
so a client keeps it (server.go:415); the cursors of a first start are 0 and not the bases of the pools (server.go:243), a restart with
the top port in use sets the cursor past the pool (server.go:318), and a file is
uploaded while it is still being written (backup.go:321; backup.go:295-296). One
is bound to a counter: a rebuilt container inherits the failed checks of the one
it replaces (server.go:558; doc/api.md:847).

### Bounds

Two names, two nodes, two requests and pools of two values are the least with
which two owners can meet on one port, a pool can run dry and a cursor can wrap; a
third request adds no kind of conflict to critical sections that each touch one
container, and the theorems below hold for any number. `CursorSlack` bounds how
far a cursor outside its pool is followed. placement has four
containers for capacities up to two, so that an overshoot by one is reached and an
overshoot by two could be. Lifecycle counts failed checks up to the three that the
code looks at. lock_order has three goroutines, the length of the longest chain of
mutexes that nest. In R2Sync, `debounce` is one or two ticks for the six of the
code (60 s at 10 s), the channel has one to three places for sixteen, and
`MaxSaves` is three: what matters is a full channel, a save within the quiet
period and one after it. Two savers and a command can have one file open at once.
Migration has three nodes, so that a second migration can go to a third, and three
pairs of ports, so that there are two migrations. ConnPool has one node, with two hosts
to move between, two workers and two connections, so that one dialler can find the entry of another; a
channel of Events has two places for 64, which is enough for one event to be kept
and the next to be dropped, and two writers, which is enough to announce in the
wrong order. Users draw at most three tokens, so a reset can follow a creation
and a reset. Registry and Placement stop when every identifier is drawn or when a
lock is lost with a panic, Migration when its container is deleted or its ports
are drawn, Update when an overlap has left a torn executable, and
LockOrder in the deadlocks it knows: their runs switch the deadlock check off.
Symmetry is declared for names, nodes, requests, identifiers and tokens, in runs
that check safety only; no definition tells such values apart.

### Fairness

- Lifecycle: the check loop and the steps of a request that has started are
  weakly fair: goroutines run, calls to LXD return. A round of the loop visits
  the node and then every container, so each is visited again and again. Faults
  and new requests have no fairness. The loop runs only behind a domain
  (server.go:2275), which `FairSpec` presupposes.
- LockOrder: a goroutine that can take its step takes it; Go's mutexes hand over
  to the longest waiter after a millisecond, so taking a lock is strongly fair.
- R2Sync: the ticker ticks, the loop is scheduled, and a `select` with two ready
  channels is random, so neither is passed over for ever.
- Migration: a request that has started goes on; calls to a node return or fail.
- ConnPool: the same, and a keepalive ticks: it needs `sshPoolMu`, which is free
  again and again, so it is strongly fair.
- Events: a writer that has changed the record goes on to announce it, the check
  loop comes back, and a client that reads at all goes on reading.
- NodeRebuild: a goroutine's started request goes on; SSH and the script return or
  fail. Requests and crashes have no fairness.

## Theorems

Each is proved for every value of the constants that satisfies the assumptions of
its module. An invariant that a run checks is rarely inductive; the module of its
proof names the parts that are added, and has one lemma per action or kind of step.

### Registry

`RegistryProofs` proves of `Registry`, for all pools, names, nodes and numbers of
requests, from the assumptions on constants named in that module:

- `TypeCorrect`: `Spec => []TypeOK`, migrations included. The conjunct that
  strengthens it says that images of `instances.json`, on disk and in memory, are
  sets of well-typed records.
- `LeaseInvariant`: `LeaseSpec => []LeaseInv`, and from it `ExclusivePorts`,
  `ExactLedger` and, for steps, `PortsStayBound`.

`PortsExclusive` is not inductive: a request that registers must know that its
ports are in nobody's record (`HeldNotOwned`) and in no other request's hands
(`HeldOnce`), and it knows because the used maps are exact (`PortLedger`). A
restart replaces the registry by whatever image is on disk, so every image that
may get there must be exclusive itself (`ImagesExclusive`) and agree with the
records that are still registered (`ImagesAgree`). The proof has one lemma per
kind of step: a request claims a port, releases one, registers, drops a record,
writes an image, or the process restarts; every action of the module is one of
these or leaves the lease alone (`QuietStep`).

`LeaseInvariant` is about `LeaseSpec` because it is false with migrations, see the
table above; migrations one at a time are the subject of `SerialPorts` below.

`RegistryImplementsLeases` is `LeaseSpec => ImplementsLeases`.
The initial states map to no lease. Every action of the registry is shown to be a
grant, a hand-over, an end, a recovery, or to leave `leasesBar` alone; the lemmas
say which, from `LeaseInv` in the state before, which is what makes a port that is
free in the used maps free of leases. `LeasesExclusive` proves that `Leases` keeps
every port with one holder, so the abstract specification says enough.

`SerialIps` and `SerialPorts` are about `Spec`, migrations included, under
`OneRequest`: the set of requests has one element, as in registry_serial. A
migration frees the ports that its record still names and takes them back when it
fails, so the used maps are not exact. The invariant (`SInv`) says instead, of the
request that is there: what it has claimed is in no other record (`ClaimsOwn`),
nor is what it gives back or may take back (`MigratesOwn`), nor the address it has
chosen (`ChosenIp`); and that the images of the file are exclusive.

### Users, files, placement

`UsersProofs`: `UsersSafe` for overlapping requests and crashes. A restart reads
what is on disk, so every image that may be written (`ImagesOK`) must itself have
unique names and tokens that are apart, and nothing may be drawn twice
(`AllDrawn`). `TokensDieWithUsers`, `ContainersHaveOwners` and `FileHoldsUsers`
hold in scenarios without overlap; `SerialStrong` adds how far the one request is
(`Progress`: what a deletion has listed is all that the user owns) and that an
owner is in the file too (`OwnersSaved`), which is what a crash in the middle of
a deletion comes back to.

`R2SyncProofs`: `FilesSafe`, because the save of an ordered file that is under way
has the mutex (`SaversOK`), is the only one (`OneHolder`), and a command saves
only while the server is down (`CommandOK`). `UploadsGrow`, an action property,
needs to know where a change of the bucket is kept: in memory while the server is
up, in the file when it can be read, in the bytes of the upload that is under way,
in what a command is about to write (`AllKept`).

`PlacementProofs`: `PlacementSafe`, and `OvershootIsBounded` for any finite number
of containers and requests. The bound is not inductive: `Bounded` counts a
creation that has chosen a node as placed on it, so the one that chose last
counted less than the capacity and each other one adds one.

### Mutexes

`LockOrderProofs`: `LocksSafe` (no race) and `NoDeadlock` (no circular wait), for
any set of goroutines, infinite ones included. A discipline says of a step,
the locks held before and those held after, whether it is legal: a variable is
accessed under its guard, and inside a mutex only those that come after it are
taken. Each function is shown to keep the discipline when it is called with the
locks its callers hold, from the functions it calls (`Call`), as a programmer
would argue; so what is left of every operation keeps it (`InOrder`), and the
mutexes are exclusive (`Exclusive`). A circle of waiting goroutines would climb
the order for ever. cursorMu, which is taken inside instMu and outside it, is
settled apart: at most one goroutine allocates (`OneAllocation`). A goroutine that
a panic has ended keeps no discipline (`Alive`): it may hold cursorMu for ever, but
waits for nothing, so it closes no circle.

### Connections

`ConnPoolProofs`: `PoolSafe` for whatever overlaps, `OneConnectionEach` for
requests that do not. A pooled client is for the address of its node, or a worker
is past the point where it can still give up and will drop it (`Current`,
`WillDropLxd`). How far a worker is, is said by the number of the calls that it
has left of its script (`InScript`).

### Lifecycle

`LifecycleProofs` begins with the table of the places in the scripts (`Places`);
`TInv` says that a goroutine is at one of those of its operation. From it:

- `RecordsAreTrue`: `LifecycleInv` with every fault, calls that fail after they
  took effect included, of requests and checks that do not overlap. The one that
  is at work is at a place, and the place says what the record and the container
  are (`SerialInv`). That a stopped record is a stopped container is claimed, and
  proved, where no start can fail that took effect (`NoStartIsLost`); after every
  other call its error path writes the record, or the record did not say stopped.
- `NothingOrphaned` and `RunningIsInReach`: without faults, of one request
  (`OneRequest`) beside any checks. The container of the request at work is in the
  phase that its place names (`Phase`); every other one is settled (`Base`); and
  what a check is about to write is what the record has already (`QuietInv`).

### Migration

`MigrationProofs` begins, as LifecycleProofs does, with the table of the places in
the scripts (`Places`) and of the call that is next at each (`Turns`).

- `ContainerSurvives`: `MigrationInv` of any number of requests that overlap, with
  failing calls and crashes. One cannot say where the container is: several
  migrations may each have made a copy and have still to remove one. So the
  invariant counts (`OneMore`): the migrations that have made a copy and not yet
  removed one (`Owers`) are fewer than the nodes with a copy (`Bodies`). Making a
  copy adds one to each side, removing one takes one from each, giving up without
  removing takes one from the left. A call that fails may have made or removed a
  copy all the same, which the count allows for. The user's deletion removes the
  container when the record is gone (`TakenAway`); destroyContainer removes it
  first, and from then on its last step is due (`Pending`), which is why a crash
  is excluded where containers are destroyed (`DestroyEnds`). `PortsLeft` says that a migration which has
  yet to draw a port finds one below the bound `MaxPort`.
- `ContainerMovedWhole`: without overlap and failures, beside any checks. The one
  request at work is in one of the phases (`MigratePhase`, `RebuildPhase`,
  `DeletePhase`, `DestroyPhase`, `StatusPhase`), and each says on which nodes the container is and
  which rules lead to it (`WholeInv`). When it is done, all is as the record says
  (`Tidy`), or there is neither container nor rule (`Gone`). A check changes
  nothing of that: at most it marks the container stopped (`SeenStopped`), and no
  phase relies on the record for that.

### Rebuild of nodes

`MigrationProofs` again, second part, for any nodes, machines, containers and
goroutines:

- `RunningAreThere`: `RebuildInv`. A rebuild empties a machine in one step and
  marks the containers in the next, and a migration changes the host of a node
  before it marks them. `InPlace` says so: a container that is reported running is
  on its node's machine, unless a goroutine has emptied the machine (`Emptied`)
  or moved the node (`Waits`) and is about to mark it. `Fixed` keeps containers,
  nodes and machines together where nothing moves, so that one rebuild does not
  empty the machine of another node.
- `RebuildsReport`: failing machines, crashes, checks and removals included. A
  rebuild that has passed `Assign` remembers whether its node has containers, and
  one that has judged, whether one of them waits (`Judged`). Meanwhile the node
  keeps its mark (`Marked`), so a process that ends half-way and starts again
  calls the node unhealthy too.

### Event stream

`UsersProofs`, second part: `ViewsFollow` (`EventsSpec => []EventsInv`) for any
number of writers and clients and any capacity. `ViewAgrees` speaks of a
client with an empty channel; the invariant says of every client that was not
passed over that the last event in its channel, or else its view, is the record
(`UpToDate`), unless a change is under way, of which there is one (`OneChange`)
and whose event will say what the record says once its late fields are read
(`Truthful`). An event older than the list that a client has read may still be in
its channel, but then so is every later one.

### Self-update

`R2SyncProofs`, second part: `UpdateSafe` (`UpdateSpec => []UpdateInv`) and
`UpdateInstallsItsTag`, for all releases, numbers of invocations and faults. The
invariant needs two parts to be inductive. `Verified`: from the comparison on, an
invocation holds whole bytes of its release, so whatever file its writes end in gets
no others. `Alone`: without overlap the temporary file is that of the one
invocation there is, torn until the write has ended, and what it downloaded at the
rename.

### What is assumed

The constants are as the assumptions of the modules say: a value that means none
is not one of the others, the pools and the sets that are drawn from are not empty, the sets
that are counted are finite, the scenarios are records of the right form (`cli`
without `instances.json`: no command saves it, since the commands that load it do
not change it, server.go:2198, auth.go:180). `OneRequest` is a hypothesis of four
theorems because their properties are false with two requests, see the table
above; where a property names its condition itself, the theorem has none.

Every safety property of the runs has a theorem. Only model-checked is the
liveness, which needs fairness and ENABLED and so is out of the proof system's
reach: `RequestsEnd`, `DeathNoticed`, `RecoveryNoticed`, `CreatingEnds`,
`RebuildingEnds`, `Recovered`, `CatchesUp`, `BrokenLeaves`, `SeesRunning`,
`NotHeldUp` and `TransitionEnds`.

## Not modelled

Router, authorisation of requests, TLS, terminal, configuration: no state that
two actors share. Of the command line only the commands that save a data file are
modelled; `backup` and `restore` by hand would interleave with the upload loop and
the savers as two more processes, and nothing that is stated here survives them.
What refers to a plan or a region that was deleted keeps its name; no code relies
on it. `node-setup.sh` and the LXD API are outcomes of a call. `server/` and
`config/` hold earlier copies that the program does not import. Terraform and
workflows are not the program. Content that no property tells apart is left out:
passwords, plans and sizes of a container, user data, log lines. A call to a host
is taken to return: an SSH connection without a timeout that hangs while
`sshPoolMu` is held is listed as a hazard. readme.md describes a recovery of
containers when a deleted node is added again; the code refuses to delete a node
with containers and has no such recovery, so there is nothing to model.

## Plan

Done: every component listed as modelled, and a theorem for every safety property
that a run checks.

Left: crashes in Lifecycle, which only Migration has so far; a manual backup
beside the upload loop; and `RebuildReports` for rebuilds of several nodes at
once, of which each is the only one of its node.
