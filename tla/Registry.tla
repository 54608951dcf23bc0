------------------------------ MODULE Registry ------------------------------
(***************************************************************************)
(* The instance registry of lxc-manager (server.go): the map of registered *)
(* containers, the external ports and internal addresses they own, the     *)
(* cursors the allocator walks the pools with, and the files both are kept *)
(* in.  Request goroutines create containers (createContainerCore) and     *)
(* migrate them (migrateContainer); deletion ends in unregisterInstance.   *)
(*                                                                         *)
(* One action is one critical section of instMu or cursorMu, or one step   *)
(* taken under neither.  registerInstance writes two files and takes       *)
(* cursorMu inside instMu, so it is two actions and InstMuFree keeps every *)
(* other holder of instMu out between them.  AllocIP takes both locks at   *)
(* once: that the code takes them in two orders is module LockOrder.       *)
(***************************************************************************)
EXTENDS Naturals

CONSTANTS Names,          \* container names (UUIDs) that may be drawn
          Nodes,          \* node identifiers
          Procs,          \* request goroutines in flight at the same time
          PoolLo, PoolHi, \* sshPortBase/servicePortBase and their maxima
          IpLo, IpHi,     \* ipStart and ipMax
          CursorSlack,    \* bound: how far past its pool a cursor is followed
          NoName, NoNode  \* "no name drawn", "no node chosen"

Kinds == {"ssh", "svc"}

ASSUME PoolAssumption ==
  /\ PoolLo \in [Kinds -> Nat \ {0}] /\ PoolHi \in [Kinds -> Nat]
  /\ \A k \in Kinds : PoolLo[k] <= PoolHi[k]
ASSUME IpAssumption == IpLo \in Nat \ {0} /\ IpHi \in Nat /\ IpLo <= IpHi
ASSUME SlackAssumption == CursorSlack \in Nat
ASSUME NullAssumption == NoName \notin Names /\ NoNode \notin Nodes

VARIABLES
  registered, \* the keys of the map instances
  rec,        \* the record object of each name; it outlives its map entry
              \* while a migration still points to it
  used,       \* usedSSH and usedSvc
  cursor,     \* sshCursor and svcCursor
  ipCursor,   \* per node; 0 while the map has no entry
  pc, loc,    \* where each goroutine is, and its local variables
  img,        \* the bytes a goroutine is about to write to instances.json
  disk,       \* instances.json: does it exist, and the records in it
  diskCursor  \* cursors.json: does it exist, and the cursors in it

mem  == <<registered, rec, used, cursor, ipCursor>>
vars == <<registered, rec, used, cursor, ipCursor, pc, loc, img, disk,
          diskCursor>>

Record == [node : Nodes \cup {NoNode}, ip : Nat, port : [Kinds -> Nat]]
NoPorts == [k \in Kinds |-> 0]
Blank  == [node |-> NoNode, ip |-> 0, port |-> NoPorts]
Local  == [name : Names \cup {NoName}, node : Nodes \cup {NoNode}, ip : Nat,
           port : [Kinds -> Nat], orig : [Kinds -> Nat]]
Idle   == [name |-> NoName, node |-> NoNode, ip |-> 0, port |-> NoPorts,
           orig |-> NoPorts]
IsImage(I) == DOMAIN I \subseteq Names /\ I \in [DOMAIN I -> Record]
NoImage == [n \in {} |-> Blank]

CreatePC  == {"ssh", "svc", "ip", "register", "cursors", "lxd", "write",
              "panicSvc", "panicIp"}
MigratePC == {"mMark", "mFree", "mSsh", "mSvc", "mIp", "mInstall", "mLxd",
              "mFinish"}

TypeOK ==
  /\ registered \in SUBSET Names
  /\ rec \in [Names -> Record]
  /\ used \in [Kinds -> SUBSET Nat]
  /\ cursor \in [Kinds -> Nat]
  /\ ipCursor \in [Nodes -> Nat]
  /\ pc \in [Procs -> {"idle"} \cup CreatePC \cup MigratePC]
  /\ loc \in [Procs -> Local]
  /\ img = [p \in Procs |-> img[p]] /\ \A p \in Procs : IsImage(img[p])
  /\ disk = [kept |-> disk.kept, inst |-> disk.inst]
  /\ disk.kept \in BOOLEAN /\ IsImage(disk.inst)
  /\ diskCursor \in [kept : BOOLEAN, cursor : [Kinds -> Nat],
                     ip : [Nodes -> Nat]]

(***************************************************************************)
(* allocWithCursor: the i-th value tried from cursor c in the pool lo..hi. *)
(* The first is c itself, even when c is outside the pool; the cursor is   *)
(* bumped after each try, so it is left at Try(lo, hi, c, i + 1).          *)
(***************************************************************************)
Bump(lo, hi, c) == IF c + 1 > hi THEN lo ELSE c + 1
Try(lo, hi, c, i) ==
  IF i = 0 THEN c
  ELSE LET t == Bump(lo, hi, c) + (i - 1)
       IN  IF t > hi THEN lo + (t - (hi + 1)) ELSE t

Tries(lo, hi) == 0 .. (hi - lo)

PortTry(k, i) == Try(PoolLo[k], PoolHi[k], cursor[k], i)
\* Mutant of FirstFreePort: the used map is not consulted.
FirstFreePortTrustingCursor(k, i) == i = 0
FirstFreePort(k, i) ==
  /\ i \in Tries(PoolLo[k], PoolHi[k])
  /\ PortTry(k, i) \notin used[k]
  /\ \A j \in 0 .. (i - 1) : PortTry(k, j) \in used[k]
PortsExhausted(k) ==
  \A i \in Tries(PoolLo[k], PoolHi[k]) : PortTry(k, i) \in used[k]

ipInUse(d, s) == \E n \in registered : rec[n].node = d /\ rec[n].ip = s
IpTry(d, i) == Try(IpLo, IpHi, IF ipCursor[d] = 0 THEN IpLo ELSE ipCursor[d], i)
\* Mutant of FirstFreeIp: the registered records are not consulted.
FirstFreeIpTrustingCursor(d, i) == i = 0
FirstFreeIp(d, i) ==
  /\ i \in Tries(IpLo, IpHi)
  /\ ~ipInUse(d, IpTry(d, i))
  /\ \A j \in 0 .. (i - 1) : ipInUse(d, IpTry(d, j))
IpsExhausted(d) == \A i \in Tries(IpLo, IpHi) : ipInUse(d, IpTry(d, i))

\* A panic inside allocateStaticIP unwinds without cursorMu.Unlock().
CursorMuFree == \A q \in Procs : pc[q] # "panicIp"
InstMuFree   == \A q \in Procs : pc[q] # "cursors"

(***************************************************************************)
(* Files                                                                   *)
(***************************************************************************)
Snapshot == [n \in registered |-> rec[n]]
saveInstances == disk' = [kept |-> TRUE, inst |-> Snapshot']
saveCursors   == diskCursor' = [kept |-> TRUE, cursor |-> cursor,
                                ip |-> ipCursor]

\* Ports of the same kind in a set of records.
PortsOf(k, I) == {I[n].port[k] : n \in DOMAIN I}
Greatest(m, S) == m \in S /\ \A x \in S : x <= m
\* A cursor that is not past the greatest value in use is moved past it.
PastGreatest(S, c) ==
  IF \E m \in S : Greatest(m, S) /\ c <= m
  THEN (CHOOSE m \in S : Greatest(m, S)) + 1 ELSE c

\* loadCursors, then rebuildCursorsFromInstances.  Without instances.json
\* loadInstances returns first and the cursors stay zero.
loadCursors(k) ==
  CASE ~disk.kept -> 0
    [] disk.kept /\ ~diskCursor.kept -> PoolLo[k]
    [] OTHER -> diskCursor.cursor[k]
rebuildCursors(k) ==
  PastGreatest({x \in PortsOf(k, disk.inst) : x >= PoolLo[k]}, loadCursors(k))
IpsOf(d, I) == {I[n].ip : n \in {m \in DOMAIN I : /\ I[m].node = d
                                               /\ I[m].ip \in IpLo .. IpHi}}
rebuildIpCursor(d) ==
  PastGreatest(IpsOf(d, disk.inst), IF disk.kept THEN diskCursor.ip[d] ELSE 0)

\* The process ends (crash, kill, or a panic in a goroutine of its own) and
\* cmdServe loads the files again.  Each restart with the top port of a pool
\* in use moves the cursor one further out of the pool, so the guard bounds it.
Restart ==
  /\ \A k \in Kinds : rebuildCursors(k) <= PoolHi[k] + CursorSlack
  /\ \A d \in Nodes : rebuildIpCursor(d) <= IpHi + CursorSlack
  /\ registered' = DOMAIN disk.inst
  /\ rec' = [n \in Names |-> IF n \in DOMAIN disk.inst THEN disk.inst[n]
                             ELSE Blank]
  /\ used' = [k \in Kinds |-> PortsOf(k, disk.inst)]
  /\ cursor' = [k \in Kinds |-> rebuildCursors(k)]
  /\ ipCursor' = [d \in Nodes |-> rebuildIpCursor(d)]
  /\ pc' = [p \in Procs |-> "idle"]
  /\ loc' = [p \in Procs |-> Idle]
  /\ img' = [p \in Procs |-> NoImage]
  /\ UNCHANGED <<disk, diskCursor>>

(***************************************************************************)
(* Steps of a goroutine                                                    *)
(***************************************************************************)
Goto(p, from, to) == pc[p] = from /\ pc' = [pc EXCEPT ![p] = to]
Return(p, from) == Goto(p, from, "idle") /\ loc' = [loc EXCEPT ![p] = Idle]
Claim(k, s) == used' = [used EXCEPT ![k] = @ \cup s]
Freed(ports) == [k \in Kinds |-> used[k] \ {ports[k]}]
Held(ports)  == [k \in Kinds |-> used[k] \cup {ports[k]}]

\* createContainerCore up to registerInstance: the node has been picked.
StartCreate(p, d) ==
  /\ Goto(p, "idle", "ssh")
  /\ loc' = [loc EXCEPT ![p] = [Idle EXCEPT !.node = d]]
  /\ UNCHANGED <<mem, img, disk, diskCursor>>

\* Allocate a port of kind k into loc[p].port.  The callers differ in what
\* they do with the port 0, which they take for "no free port".
TakePort(p, k, i) ==
  /\ FirstFreePort(k, i)
  /\ PortTry(k, i) # 0
  /\ Claim(k, {PortTry(k, i)})
  /\ cursor' = [cursor EXCEPT ![k] = PortTry(k, i + 1)]
  /\ loc' = [loc EXCEPT ![p].port[k] = PortTry(k, i)]
  /\ UNCHANGED <<registered, rec, ipCursor, img, disk, diskCursor>>
ZeroPort(k, i) ==
  /\ FirstFreePort(k, i)
  /\ PortTry(k, i) = 0
  /\ cursor' = [cursor EXCEPT ![k] = PortTry(k, i + 1)]
  /\ UNCHANGED <<registered, rec, ipCursor, img, disk, diskCursor>>

AllocSSH(p) ==
  /\ CursorMuFree
  /\ \E i \in Tries(PoolLo["ssh"], PoolHi["ssh"]) :
        \/ Goto(p, "ssh", "svc") /\ TakePort(p, "ssh", i)
        \/ Return(p, "ssh") /\ ZeroPort("ssh", i) /\ UNCHANGED used

AllocSvc(p) ==
  /\ CursorMuFree
  /\ \E i \in Tries(PoolLo["svc"], PoolHi["svc"]) :
        \/ Goto(p, "svc", "ip") /\ TakePort(p, "svc", i)
        \/ /\ Return(p, "svc") /\ ZeroPort("svc", i)
           /\ used' = [used EXCEPT !["ssh"] = @ \ {loc[p].port["ssh"]}]

\* The address is chosen but not reserved: ipInUse sees registered records.
AllocIP(p) ==
  /\ CursorMuFree /\ InstMuFree
  /\ Goto(p, "ip", "register")
  /\ \E i \in Tries(IpLo, IpHi) :
        /\ FirstFreeIp(loc[p].node, i)
        /\ loc' = [loc EXCEPT ![p].ip = IpTry(loc[p].node, i)]
        /\ ipCursor' = [ipCursor EXCEPT ![loc[p].node] =
                          IpTry(loc[p].node, i + 1)]
  /\ UNCHANGED <<registered, rec, used, cursor, img, disk, diskCursor>>

\* Mutant of PanicSSH: exhaustion is reported as -1, not as a panic.
PanicSSHAsMinusOne(p) ==
  /\ CursorMuFree /\ PortsExhausted("ssh") /\ Goto(p, "ssh", "svc")
  /\ loc' = [loc EXCEPT ![p].port["ssh"] = 0 - 1]
  /\ UNCHANGED <<mem, img, disk, diskCursor>>

\* allocWithCursor panics; the request's goroutine unwinds to corsHandler,
\* which recovers.  Ports already claimed stay in the used maps, and
\* allocateStaticIP never releases cursorMu.
PanicSSH(p) ==
  /\ CursorMuFree /\ PortsExhausted("ssh") /\ Return(p, "ssh")
  /\ cursor' = [cursor EXCEPT !["ssh"] =
                  PortTry("ssh", PoolHi["ssh"] - PoolLo["ssh"] + 1)]
  /\ UNCHANGED <<registered, rec, used, ipCursor, img, disk, diskCursor>>
PanicSvc(p) ==
  /\ CursorMuFree /\ PortsExhausted("svc") /\ Goto(p, "svc", "panicSvc")
  /\ cursor' = [cursor EXCEPT !["svc"] =
                  PortTry("svc", PoolHi["svc"] - PoolLo["svc"] + 1)]
  /\ UNCHANGED <<registered, rec, used, ipCursor, loc, img, disk, diskCursor>>
PanicIp(p) ==
  /\ CursorMuFree /\ InstMuFree /\ IpsExhausted(loc[p].node)
  /\ Goto(p, "ip", "panicIp")
  /\ ipCursor' = [ipCursor EXCEPT ![loc[p].node] = IF @ = 0 THEN IpLo ELSE @]
  /\ UNCHANGED <<registered, rec, used, cursor, loc, img, disk, diskCursor>>

\* Mutant of Fresh: only the registered names are avoided.
FreshInMemory(n) == n \notin registered

\* generateUUID never repeats a name that anything still refers to.
Fresh(n) ==
  /\ n \notin registered \cup DOMAIN disk.inst
  /\ \A p \in Procs : loc[p].name # n /\ n \notin DOMAIN img[p]

\* Mutant of Register: a name collision leaves the ports claimed.
RegisterNoRollback(p, n) ==
  /\ InstMuFree
  /\ \/ /\ n \in registered
        /\ Return(p, "register")
        /\ UNCHANGED <<mem, img, disk, diskCursor>>
     \/ /\ Fresh(n)
        /\ Goto(p, "register", "cursors")
        /\ registered' = registered \cup {n}
        /\ rec' = [rec EXCEPT ![n] = [node |-> loc[p].node, ip |-> loc[p].ip,
                                      port |-> loc[p].port]]
        /\ loc' = [loc EXCEPT ![p].name = n]
        /\ saveInstances
        /\ UNCHANGED <<used, cursor, ipCursor, img, diskCursor>>

Register(p, n) ==
  /\ InstMuFree
  /\ \/ /\ n \in registered             \* name collision: roll the ports back
        /\ Return(p, "register")
        /\ used' = Freed(loc[p].port)
        /\ UNCHANGED <<registered, rec, cursor, ipCursor, img, disk, diskCursor>>
     \/ /\ Fresh(n)
        /\ Goto(p, "register", "cursors")
        /\ registered' = registered \cup {n}
        /\ rec' = [rec EXCEPT ![n] = [node |-> loc[p].node, ip |-> loc[p].ip,
                                      port |-> loc[p].port]]
        /\ loc' = [loc EXCEPT ![p].name = n]
        /\ saveInstances
        /\ UNCHANGED <<used, cursor, ipCursor, img, diskCursor>>

\* The tail of registerInstance, still under instMu.
SaveCursors(p) ==
  /\ CursorMuFree
  /\ Goto(p, "cursors", "lxd")
  /\ saveCursors
  /\ UNCHANGED <<mem, loc, img, disk>>

\* Does a migration still hold the record object of n?
Pointed(n) == \E p \in Procs : pc[p] \in MigratePC /\ loc[p].name = n

Drop(n) ==
  IF n \in registered
  THEN /\ registered' = registered \ {n}
       /\ used' = Freed(rec[n].port)
       /\ rec' = IF Pointed(n) THEN rec ELSE [rec EXCEPT ![n] = Blank]
       /\ saveInstances
  ELSE UNCHANGED <<registered, used, rec, disk>>

\* createContainerOnNode succeeded: its saveInstances runs without a lock,
\* so the bytes are marshalled in one step and reach the file in another.
CreateOK(p) ==
  /\ Goto(p, "lxd", "write")
  /\ img' = [img EXCEPT ![p] = Snapshot]
  /\ UNCHANGED <<mem, loc, disk, diskCursor>>
WriteInstances(p) ==
  /\ Return(p, "write")
  /\ disk' = [kept |-> TRUE, inst |-> img[p]]
  /\ img' = [img EXCEPT ![p] = NoImage]
  /\ UNCHANGED <<mem, diskCursor>>

\* LXD refused the container: createContainerCore unregisters it.
CreateFail(p) ==
  /\ InstMuFree
  /\ Return(p, "lxd")
  /\ Drop(loc[p].name)
  /\ UNCHANGED <<cursor, ipCursor, img, diskCursor>>

\* unregisterInstance as the last act of a delete request.
unregisterInstance(n) ==
  /\ InstMuFree
  /\ n \in registered
  /\ Drop(n)
  /\ UNCHANGED <<cursor, ipCursor, pc, loc, img, diskCursor>>

(***************************************************************************)
(* handleAdminMigrateContainer and the goroutine migrateContainer.  They   *)
(* share the record with every other goroutine through its pointer, and    *)
(* the state of the record is not checked.                                 *)
(***************************************************************************)
StartMigrate(p, n, d) ==
  /\ InstMuFree
  /\ n \in registered /\ rec[n].node # d
  /\ Goto(p, "idle", "mMark")
  /\ loc' = [loc EXCEPT ![p] = [Idle EXCEPT !.name = n, !.node = d]]
  /\ UNCHANGED <<mem, img, disk, diskCursor>>

Rec(p) == rec[loc[p].name]

\* setState("migrating"), then the ports are marked used once more.
MigrateMark(p) ==
  /\ InstMuFree
  /\ Goto(p, "mMark", "mFree")
  /\ used' = Held(Rec(p).port)
  /\ IF loc[p].name \in registered
     THEN disk' = [kept |-> TRUE, inst |-> Snapshot] ELSE UNCHANGED disk
  /\ UNCHANGED <<registered, rec, cursor, ipCursor, loc, img, diskCursor>>

\* The goroutine starts by giving the old ports back to the pool.
MigrateFree(p) ==
  /\ InstMuFree
  /\ Goto(p, "mFree", "mSsh")
  /\ used' = Freed(Rec(p).port)
  /\ UNCHANGED <<registered, rec, cursor, ipCursor, loc, img, disk, diskCursor>>

\* The undo after "no free port" and its setState are one action here.
MigrateSSH(p) ==
  /\ CursorMuFree
  /\ \E i \in Tries(PoolLo["ssh"], PoolHi["ssh"]) :
        \/ Goto(p, "mSsh", "mSvc") /\ TakePort(p, "ssh", i)
        \/ Return(p, "mSsh") /\ ZeroPort("ssh", i) /\ used' = Held(Rec(p).port)

MigrateSvc(p) ==
  /\ CursorMuFree
  /\ \E i \in Tries(PoolLo["svc"], PoolHi["svc"]) :
        \/ Goto(p, "mSvc", "mIp") /\ TakePort(p, "svc", i)
        \/ /\ Return(p, "mSvc") /\ ZeroPort("svc", i)
           /\ used' = [Held(Rec(p).port) EXCEPT !["ssh"] =
                         (used["ssh"] \ {loc[p].port["ssh"]})
                           \cup {Rec(p).port["ssh"]}]

MigrateIp(p) ==
  /\ CursorMuFree /\ InstMuFree
  /\ Goto(p, "mIp", "mInstall")
  /\ \E i \in Tries(IpLo, IpHi) :
        /\ FirstFreeIp(loc[p].node, i)
        /\ loc' = [loc EXCEPT ![p].ip = IpTry(loc[p].node, i)]
        /\ ipCursor' = [ipCursor EXCEPT ![loc[p].node] =
                          IpTry(loc[p].node, i + 1)]
  /\ UNCHANGED <<registered, rec, used, cursor, img, disk, diskCursor>>

\* No handler recovers a panic here: an exhausted pool ends the process.
MigratePanic(p) ==
  /\ CursorMuFree
  /\ \/ pc[p] = "mSsh" /\ PortsExhausted("ssh")
     \/ pc[p] = "mSvc" /\ PortsExhausted("svc")
     \/ pc[p] = "mIp" /\ IpsExhausted(loc[p].node)
  /\ Restart

\* The new ports go into the shared record before LXD is asked.
MigrateInstall(p) ==
  /\ Goto(p, "mInstall", "mLxd")
  /\ loc' = [loc EXCEPT ![p].orig = Rec(p).port]
  /\ rec' = [rec EXCEPT ![loc[p].name].port = loc[p].port]
  /\ UNCHANGED <<registered, used, cursor, ipCursor, img, disk, diskCursor>>

\* Mutant of MigrateFail: the old ports are not marked used again.
MigrateFailNoReclaim(p) ==
  /\ InstMuFree
  /\ Return(p, "mLxd")
  /\ rec' = [rec EXCEPT ![loc[p].name].port = loc[p].orig]
  /\ used' = Freed(loc[p].port)
  /\ UNCHANGED <<registered, cursor, ipCursor, img, diskCursor>>
  /\ IF loc[p].name \in registered THEN saveInstances ELSE UNCHANGED disk

MigrateFail(p) ==
  /\ InstMuFree
  /\ Return(p, "mLxd")
  /\ rec' = [rec EXCEPT ![loc[p].name].port = loc[p].orig]
  /\ used' = [k \in Kinds |-> (used[k] \ {loc[p].port[k]})
                                 \cup {loc[p].orig[k]}]
  /\ UNCHANGED <<registered, cursor, ipCursor, img, diskCursor>>
  /\ IF loc[p].name \in registered THEN saveInstances ELSE UNCHANGED disk

MigrateOK(p) ==
  /\ Goto(p, "mLxd", "mFinish")
  /\ UNCHANGED <<mem, loc, img, diskCursor>>
  /\ saveInstances

MigrateFinish(p) ==
  /\ InstMuFree
  /\ Return(p, "mFinish")
  /\ rec' = IF loc[p].name \in registered
            THEN [rec EXCEPT ![loc[p].name] =
                    [node |-> loc[p].node, ip |-> loc[p].ip,
                     port |-> loc[p].port]]
            ELSE rec
  /\ UNCHANGED <<registered, used, cursor, ipCursor, img, diskCursor>>
  /\ saveInstances

(***************************************************************************)
(* The specifications                                                      *)
(***************************************************************************)
\* A first start: no files, and therefore cursors at zero.
Init ==
  /\ registered = {}
  /\ rec = [n \in Names |-> Blank]
  /\ used = [k \in Kinds |-> {}]
  /\ cursor = [k \in Kinds |-> 0]
  /\ ipCursor = [d \in Nodes |-> 0]
  /\ pc = [p \in Procs |-> "idle"]
  /\ loc = [p \in Procs |-> Idle]
  /\ img = [p \in Procs |-> NoImage]
  /\ disk = [kept |-> FALSE, inst |-> NoImage]
  /\ diskCursor = [kept |-> FALSE, cursor |-> [k \in Kinds |-> 0],
                   ip |-> [d \in Nodes |-> 0]]

CreateStep(p) ==
  \/ \E d \in Nodes : StartCreate(p, d)
  \/ AllocSSH(p) \/ AllocSvc(p) \/ AllocIP(p)
  \/ PanicSSH(p) \/ PanicSvc(p) \/ PanicIp(p)
  \/ \E n \in Names : Register(p, n)
  \/ SaveCursors(p) \/ CreateOK(p) \/ WriteInstances(p) \/ CreateFail(p)

MigrateStep(p) ==
  \/ \E n \in Names, d \in Nodes : StartMigrate(p, n, d)
  \/ MigrateMark(p) \/ MigrateFree(p) \/ MigrateSSH(p) \/ MigrateSvc(p)
  \/ MigrateIp(p) \/ MigratePanic(p) \/ MigrateInstall(p)
  \/ MigrateFail(p) \/ MigrateOK(p) \/ MigrateFinish(p)

\* Creation, deletion and restarts.
LeaseNext ==
  \/ \E p \in Procs : CreateStep(p)
  \/ \E n \in Names : unregisterInstance(n)
  \/ Restart
LeaseSpec == Init /\ [][LeaseNext]_vars

\* ... and migrations.
Next == LeaseNext \/ \E p \in Procs : MigrateStep(p)
Spec == Init /\ [][Next]_vars

(***************************************************************************)
(* Properties                                                              *)
(***************************************************************************)
\* Ports a create request has claimed and not yet handed to a record; a
\* request that panicked holds them until the process restarts.
Holds(p, k) ==
  \/ pc[p] \in {"ip", "register", "panicIp"}
  \/ k = "ssh" /\ pc[p] \in {"svc", "panicSvc"}

\* No two registered containers own the same external port: DNAT on a node
\* sends a port to one container only (registerInstance, unregisterInstance).
PortsExclusive ==
  \A k \in Kinds, m, n \in registered :
     m # n => rec[m].port[k] # rec[n].port[k]

\* The used maps say exactly which ports are owned by a registered container
\* or held by a request that is still creating one: no port is handed out
\* twice and none is lost by a rollback (server.go:388, 400, 421).
PortLedger ==
  \A k \in Kinds :
     used[k] = {rec[n].port[k] : n \in registered}
                 \cup {loc[p].port[k] : p \in {q \in Procs : Holds(q, k)}}

\* "Ports are allocated when the container is created ... and stay bound
\* until it is deleted" (readme.md:340): while a name stays registered its
\* ports do not change, restarts from an older file included.
PortsBound ==
  [][\A n \in registered \cap registered' :
        rec'[n].port = rec[n].port]_vars

\* Why PortsExclusive and PortLedger survive every step of creation, deletion
\* and restart: a port held by a request is nobody else's, and every image of
\* instances.json, written or about to be, was itself a consistent registry
\* that gave the containers still registered the ports they have.
Images == {disk.inst} \cup {img[p] : p \in Procs}
HeldNotOwned ==
  \A k \in Kinds, p \in Procs, n \in registered :
     Holds(p, k) => loc[p].port[k] # rec[n].port[k]
HeldOnce ==
  \A k \in Kinds, p, q \in Procs :
     (p # q /\ Holds(p, k) /\ Holds(q, k)) => loc[p].port[k] # loc[q].port[k]
ImagesExclusive ==
  \A I \in Images : \A k \in Kinds, m, n \in DOMAIN I :
     m # n => I[m].port[k] # I[n].port[k]
ImagesAgree ==
  \A I \in Images : \A n \in DOMAIN I \cap registered :
     I[n].port = rec[n].port
LeaseInv ==
  /\ \A p \in Procs : pc[p] \notin MigratePC
  /\ PortsExclusive /\ PortLedger
  /\ HeldNotOwned /\ HeldOnce /\ ImagesExclusive /\ ImagesAgree

\* Creation, deletion and restarts keep the promise of Leases: the maps usedSSH
\* and usedSvc, which say of a port only that it is taken, are enough for every
\* port to pass from nobody to one request, from it to the container it creates,
\* and back, and for every file to say the same (server.go:155, 383-470).
Request(p)   == <<"request", p>>
Container(n) == <<"container", n>>
LeaseOf(h, k, port) == [port |-> <<k, port>>, holder |-> h]
leasesBar ==
  UNION { {LeaseOf(Request(p), k, loc[p].port[k]) :
             p \in {q \in Procs : Holds(q, k)}}
          \cup {LeaseOf(Container(n), k, rec[n].port[k]) : n \in registered} :
          k \in Kinds }
L == INSTANCE Leases WITH Ports <- Kinds \X Nat,
                          Requests <- {Request(p) : p \in Procs},
                          Containers <- {Container(n) : n \in Names},
                          leases <- leasesBar
ImplementsLeases == L!Spec

\* The same address is never given to two containers of a node.
IpsExclusive ==
  \A m, n \in registered :
     (m # n /\ rec[m].node = rec[n].node) => rec[m].ip # rec[n].ip
=============================================================================
