--------------------------- MODULE RegistryProofs ---------------------------
(***************************************************************************)
(* What TLAPS proves of Registry for every pool, every set of names, nodes *)
(* and requests.  Migrations included: the types, and, when requests do    *)
(* not overlap, that ports and addresses are exclusive.  For creation,     *)
(* deletion and restarts, whatever overlaps: that ports are exclusive,     *)
(* accounted for, and bound to a container while it is registered, and     *)
(* that they implement Leases, which never lets a port have two holders.   *)
(***************************************************************************)
EXTENDS Registry, TLAPS

\* Local variables are set before the steps that read them.
LocalsOK ==
  \A p \in Procs : /\ pc[p] \in MigratePC => loc[p].name \in Names
                   /\ pc[p] # "idle" => loc[p].node \in Nodes

TInv == TypeOK /\ LocalsOK

LEMMA KindsElems == \A k : k \in Kinds <=> (k = "ssh" \/ k = "svc")
BY DEF Kinds

\* Every value the allocator tries is a natural number.
LEMMA TryNat ==
  ASSUME NEW lo \in Nat, NEW hi \in Nat, NEW c \in Nat, NEW i \in Nat
  PROVE  Try(lo, hi, c, i) \in Nat
BY DEF Try, Bump

LEMMA PortTryNat ==
  ASSUME TypeOK, NEW k \in Kinds, NEW i \in Nat
  PROVE  PortTry(k, i) \in Nat
<1>1. PoolLo[k] \in Nat /\ PoolHi[k] \in Nat /\ cursor[k] \in Nat
  BY PoolAssumption DEF TypeOK
<1> QED BY <1>1, TryNat DEF PortTry

LEMMA IpTryNat ==
  ASSUME TypeOK, NEW d \in Nodes, NEW i \in Nat
  PROVE  IpTry(d, i) \in Nat
<1>1. IpLo \in Nat /\ IpHi \in Nat /\ ipCursor[d] \in Nat
  BY IpAssumption DEF TypeOK
<1> QED BY <1>1, TryNat DEF IpTry

LEMMA TriesNat ==
  ASSUME NEW k \in Kinds
  PROVE  /\ Tries(PoolLo[k], PoolHi[k]) \subseteq Nat
         /\ Tries(IpLo, IpHi) \subseteq Nat
BY PoolAssumption, IpAssumption DEF Tries

\* What is in a file, or about to be written to one, are records of names.
LEMMA SnapshotImage == TypeOK => IsImage(Snapshot)
BY DEF TypeOK, IsImage, Snapshot

LEMMA SnapshotImagePrime == TypeOK' => IsImage(Snapshot')
BY DEF TypeOK, IsImage, Snapshot

LEMMA ImageRecord ==
  ASSUME NEW I, IsImage(I), NEW n \in DOMAIN I
  PROVE  n \in Names /\ I[n] \in Record
BY DEF IsImage

LEMMA NoImageImage == IsImage(NoImage)
BY DEF NoImage, IsImage

LEMMA BlankRecord == Blank \in Record /\ Idle \in Local
BY DEF Blank, Record, NoPorts, Idle, Local

LEMMA PastGreatestNat ==
  ASSUME NEW S, S \subseteq Nat, NEW c \in Nat
  PROVE  PastGreatest(S, c) \in Nat
<1>1. CASE \E m \in S : Greatest(m, S) /\ c <= m
  <2> DEFINE g == CHOOSE m \in S : Greatest(m, S)
  <2>1. g \in S
    BY <1>1
  <2>2. PastGreatest(S, c) = g + 1
    BY <1>1 DEF PastGreatest
  <2> HIDE DEF g
  <2> QED BY <2>1, <2>2
<1>2. CASE ~ \E m \in S : Greatest(m, S) /\ c <= m
  BY <1>2 DEF PastGreatest
<1> QED BY <1>1, <1>2

\* Loading the files leaves natural numbers in the cursors.
LEMMA RebuildNat ==
  ASSUME TypeOK
  PROVE  /\ \A k \in Kinds : rebuildCursors(k) \in Nat
         /\ \A d \in Nodes : rebuildIpCursor(d) \in Nat
<1>1. IsImage(disk.inst) /\ disk.kept \in BOOLEAN
  BY DEF TypeOK
<1>2. ASSUME NEW k \in Kinds PROVE rebuildCursors(k) \in Nat
  <2>1. loadCursors(k) \in Nat
    BY <1>1, PoolAssumption DEF loadCursors, TypeOK
  <2>2. {x \in PortsOf(k, disk.inst) : x >= PoolLo[k]} \subseteq Nat
    BY <1>1, ImageRecord DEF PortsOf, Record
  <2> QED BY <2>1, <2>2, PastGreatestNat DEF rebuildCursors
<1>3. ASSUME NEW d \in Nodes PROVE rebuildIpCursor(d) \in Nat
  <2>1. IpsOf(d, disk.inst) \subseteq Nat
    BY <1>1, ImageRecord DEF IpsOf, Record
  <2>2. (IF disk.kept THEN diskCursor.ip[d] ELSE 0) \in Nat
    BY DEF TypeOK
  <2> QED BY <2>1, <2>2, PastGreatestNat DEF rebuildIpCursor
<1> QED BY <1>2, <1>3

LEMMA InitTInv == Init => TInv
BY BlankRecord, NoImageImage
   DEF Init, TInv, TypeOK, LocalsOK, MigratePC, NoPorts, Local, Idle

\* Forgetting a record keeps the registry well typed.
LEMMA DropTypes ==
  ASSUME TypeOK, NEW n \in Names, Drop(n)
  PROVE  /\ registered' \in SUBSET Names
         /\ rec' \in [Names -> Record]
         /\ used' \in [Kinds -> SUBSET Nat]
         /\ disk' = [kept |-> disk'.kept, inst |-> disk'.inst]
         /\ disk'.kept \in BOOLEAN /\ IsImage(disk'.inst)
<1>1. CASE n \in registered
  <2>1. registered' \in SUBSET Names /\ rec' \in [Names -> Record]
    BY <1>1, BlankRecord DEF Drop, TypeOK
  <2>2. used' \in [Kinds -> SUBSET Nat]
    BY <1>1 DEF Drop, TypeOK, Freed
  <2>3. disk' = [kept |-> TRUE, inst |-> Snapshot']
    BY <1>1 DEF Drop, saveInstances
  <2>4. IsImage(Snapshot')
    BY <2>1 DEF IsImage, Snapshot
  <2> QED BY <2>1, <2>2, <2>3, <2>4
<1>2. CASE n \notin registered
  BY <1>2 DEF Drop, TypeOK
<1> QED BY <1>1, <1>2

LEMMA TakePortTypes ==
  ASSUME TInv, NEW p \in Procs, NEW k \in Kinds,
         NEW i \in Tries(PoolLo[k], PoolHi[k]), TakePort(p, k, i)
  PROVE  /\ used' \in [Kinds -> SUBSET Nat]
         /\ cursor' \in [Kinds -> Nat]
         /\ loc' \in [Procs -> Local]
         /\ \A q \in Procs : loc'[q].name = loc[q].name
                               /\ loc'[q].node = loc[q].node
<1>1. i \in Nat /\ i + 1 \in Nat
  BY TriesNat
<1>2. PortTry(k, i) \in Nat /\ PortTry(k, i + 1) \in Nat
  BY <1>1, PortTryNat DEF TInv
<1> QED BY <1>2 DEF TakePort, Claim, TInv, TypeOK, Local

LEMMA ZeroPortTypes ==
  ASSUME TInv, NEW k \in Kinds, NEW i \in Tries(PoolLo[k], PoolHi[k]),
         ZeroPort(k, i)
  PROVE  cursor' \in [Kinds -> Nat]
<1>1. i + 1 \in Nat
  BY TriesNat
<1>2. PortTry(k, i + 1) \in Nat
  BY <1>1, PortTryNat DEF TInv
<1> QED BY <1>2 DEF ZeroPort, TInv, TypeOK

LEMMA RestartTypes == TInv /\ Restart => TInv'
<1> SUFFICES ASSUME TInv, Restart PROVE TInv'
  OBVIOUS
<1>1. IsImage(disk.inst)
  BY DEF TInv, TypeOK
<1>2. registered' \in SUBSET Names /\ rec' \in [Names -> Record]
  BY <1>1, ImageRecord, BlankRecord DEF Restart, IsImage
<1>3. used' \in [Kinds -> SUBSET Nat]
  BY <1>1, ImageRecord DEF Restart, PortsOf, Record
<1>4. cursor' \in [Kinds -> Nat] /\ ipCursor' \in [Nodes -> Nat]
  BY RebuildNat DEF Restart, TInv
<1>5. pc' \in [Procs -> {"idle"} \cup CreatePC \cup MigratePC]
      /\ loc' \in [Procs -> Local] /\ LocalsOK'
  BY BlankRecord DEF Restart, LocalsOK, MigratePC
<1>6. img' = [p \in Procs |-> img'[p]] /\ \A p \in Procs : IsImage(img'[p])
  BY NoImageImage DEF Restart
<1>7. disk' = disk /\ diskCursor' = diskCursor
  BY DEF Restart
<1> QED BY <1>2, <1>3, <1>4, <1>5, <1>6, <1>7 DEF TInv, TypeOK

\* Where a goroutine is, after a step from one of its own places to another.
LEMMA GotoTypes ==
  ASSUME TypeOK, NEW p \in Procs, NEW from, NEW to,
         to \in {"idle"} \cup CreatePC \cup MigratePC, Goto(p, from, to)
  PROVE  /\ pc' \in [Procs -> {"idle"} \cup CreatePC \cup MigratePC]
         /\ pc[p] = from /\ pc'[p] = to
         /\ \A q \in Procs \ {p} : pc'[q] = pc[q]
BY DEF Goto, TypeOK

LEMMA CreateTypes ==
  ASSUME TInv, NEW p \in Procs, CreateStep(p)
  PROVE  TInv'
<1> USE DEF TInv
<1>1. ASSUME NEW d \in Nodes, StartCreate(p, d) PROVE TInv'
  <2>1. loc' \in [Procs -> Local] /\ loc'[p].node = d
        /\ \A q \in Procs \ {p} : loc'[q] = loc[q]
    BY <1>1, BlankRecord DEF StartCreate, TypeOK, Local
  <2>2. Goto(p, "idle", "ssh")
    BY <1>1 DEF StartCreate
  <2>3. TypeOK'
    <3>1. UNCHANGED <<registered, rec, used, cursor, ipCursor, img, disk,
                      diskCursor>>
      BY <1>1 DEF StartCreate, mem
    <3>2. pc' \in [Procs -> {"idle"} \cup CreatePC \cup MigratePC]
      BY <2>2, GotoTypes DEF CreatePC
    <3> QED BY <2>1, <3>1, <3>2 DEF TypeOK
  <2>4. LocalsOK'
    BY <2>1, <2>2, GotoTypes DEF LocalsOK, MigratePC, CreatePC
  <2> QED BY <2>3, <2>4
<1>2. ASSUME AllocSSH(p) PROVE TInv'
  <2>1. PICK i \in Tries(PoolLo["ssh"], PoolHi["ssh"]) :
          \/ Goto(p, "ssh", "svc") /\ TakePort(p, "ssh", i)
          \/ Return(p, "ssh") /\ ZeroPort("ssh", i) /\ UNCHANGED used
    BY <1>2 DEF AllocSSH
  <2>2. CASE Goto(p, "ssh", "svc") /\ TakePort(p, "ssh", i)
    <3>1. TypeOK'
      BY <2>2, TakePortTypes, GotoTypes, KindsElems
         DEF TypeOK, TakePort, CreatePC
    <3>2. LocalsOK'
      BY <2>2, TakePortTypes, GotoTypes, KindsElems
         DEF LocalsOK, CreatePC, MigratePC
    <3> QED BY <3>1, <3>2
  <2>3. CASE Return(p, "ssh") /\ ZeroPort("ssh", i) /\ UNCHANGED used
    <3>1. TypeOK'
      BY <2>3, ZeroPortTypes, GotoTypes, KindsElems, BlankRecord
         DEF TypeOK, ZeroPort, Return
    <3>2. LocalsOK'
      BY <2>3, GotoTypes DEF LocalsOK, MigratePC, Return, TypeOK
    <3> QED BY <3>1, <3>2
  <2> QED BY <2>1, <2>2, <2>3
<1>3. ASSUME AllocSvc(p) PROVE TInv'
  <2>1. PICK i \in Tries(PoolLo["svc"], PoolHi["svc"]) :
          \/ Goto(p, "svc", "ip") /\ TakePort(p, "svc", i)
          \/ /\ Return(p, "svc") /\ ZeroPort("svc", i)
             /\ used' = [used EXCEPT !["ssh"] = @ \ {loc[p].port["ssh"]}]
    BY <1>3 DEF AllocSvc
  <2>2. CASE Goto(p, "svc", "ip") /\ TakePort(p, "svc", i)
    <3>1. TypeOK'
      BY <2>2, TakePortTypes, GotoTypes, KindsElems
         DEF TypeOK, TakePort, CreatePC
    <3>2. LocalsOK'
      BY <2>2, TakePortTypes, GotoTypes, KindsElems
         DEF LocalsOK, CreatePC, MigratePC
    <3> QED BY <3>1, <3>2
  <2>3. CASE /\ Return(p, "svc") /\ ZeroPort("svc", i)
             /\ used' = [used EXCEPT !["ssh"] = @ \ {loc[p].port["ssh"]}]
    <3>1. TypeOK'
      BY <2>3, ZeroPortTypes, GotoTypes, KindsElems, BlankRecord
         DEF TypeOK, ZeroPort, Return
    <3>2. LocalsOK'
      BY <2>3, GotoTypes DEF LocalsOK, MigratePC, Return, TypeOK
    <3> QED BY <3>1, <3>2
  <2> QED BY <2>1, <2>2, <2>3
<1>4. ASSUME AllocIP(p) PROVE TInv'
  <2>1. PICK i \in Tries(IpLo, IpHi) :
          /\ loc' = [loc EXCEPT ![p].ip = IpTry(loc[p].node, i)]
          /\ ipCursor' = [ipCursor EXCEPT ![loc[p].node] =
                            IpTry(loc[p].node, i + 1)]
    BY <1>4 DEF AllocIP
  <2>2. Goto(p, "ip", "register") /\ loc[p].node \in Nodes
    BY <1>4 DEF AllocIP, LocalsOK, Goto
  <2>3. IpTry(loc[p].node, i) \in Nat /\ IpTry(loc[p].node, i + 1) \in Nat
    BY <2>2, IpTryNat, IpAssumption DEF Tries
  <2>4. TypeOK'
    <3>1. UNCHANGED <<registered, rec, used, cursor, img, disk, diskCursor>>
      BY <1>4 DEF AllocIP
    <3>2. pc' \in [Procs -> {"idle"} \cup CreatePC \cup MigratePC]
      BY <2>2, GotoTypes DEF CreatePC
    <3>3. loc' \in [Procs -> Local] /\ ipCursor' \in [Nodes -> Nat]
      BY <2>1, <2>3 DEF TypeOK, Local
    <3> QED BY <3>1, <3>2, <3>3 DEF TypeOK
  <2>5. LocalsOK'
    BY <2>1, <2>2, GotoTypes DEF LocalsOK, CreatePC, MigratePC, TypeOK, Local
  <2> QED BY <2>4, <2>5
<1>5. ASSUME PanicSSH(p) PROVE TInv'
  <2>1. PortTry("ssh", PoolHi["ssh"] - PoolLo["ssh"] + 1) \in Nat
    BY PortTryNat, KindsElems, PoolAssumption
  <2>2. TypeOK'
    BY <1>5, <2>1, GotoTypes, BlankRecord, KindsElems
       DEF PanicSSH, Return, TypeOK
  <2>3. LocalsOK'
    BY <1>5, GotoTypes DEF PanicSSH, Return, LocalsOK, MigratePC, TypeOK
  <2> QED BY <2>2, <2>3
<1>6. ASSUME PanicSvc(p) PROVE TInv'
  <2>1. PortTry("svc", PoolHi["svc"] - PoolLo["svc"] + 1) \in Nat
    BY PortTryNat, KindsElems, PoolAssumption
  <2>2. TypeOK'
    BY <1>6, <2>1, GotoTypes, KindsElems DEF PanicSvc, TypeOK, CreatePC
  <2>3. LocalsOK'
    BY <1>6, GotoTypes DEF PanicSvc, LocalsOK, MigratePC, CreatePC
  <2> QED BY <2>2, <2>3
<1>7. ASSUME PanicIp(p) PROVE TInv'
  <2>1. TypeOK'
    BY <1>7, GotoTypes, IpAssumption DEF PanicIp, TypeOK, CreatePC
  <2>2. LocalsOK'
    BY <1>7, GotoTypes DEF PanicIp, LocalsOK, MigratePC, CreatePC
  <2> QED BY <2>1, <2>2
<1>8. ASSUME NEW n \in Names, Register(p, n) PROVE TInv'
  <2>1. CASE Return(p, "register") /\ used' = Freed(loc[p].port)
             /\ UNCHANGED <<registered, rec, cursor, ipCursor, img, disk,
                            diskCursor>>
    <3>1. TypeOK'
      BY <2>1, GotoTypes, BlankRecord DEF Return, TypeOK, Freed
    <3>2. LocalsOK'
      BY <2>1, GotoTypes DEF Return, LocalsOK, MigratePC, TypeOK
    <3> QED BY <3>1, <3>2
  <2>2. CASE /\ Goto(p, "register", "cursors")
             /\ registered' = registered \cup {n}
             /\ rec' = [rec EXCEPT ![n] =
                          [node |-> loc[p].node, ip |-> loc[p].ip,
                           port |-> loc[p].port]]
             /\ loc' = [loc EXCEPT ![p].name = n]
             /\ saveInstances
             /\ UNCHANGED <<used, cursor, ipCursor, img, diskCursor>>
    <3>1. registered' \in SUBSET Names /\ rec' \in [Names -> Record]
      BY <2>2 DEF TypeOK, Record, Local
    <3>2. loc' \in [Procs -> Local] /\ loc'[p].node = loc[p].node
          /\ \A q \in Procs \ {p} : loc'[q] = loc[q]
      BY <2>2 DEF TypeOK, Local
    <3>3. IsImage(Snapshot')
      BY <3>1 DEF IsImage, Snapshot
    <3>4. TypeOK'
      BY <2>2, <3>1, <3>2, <3>3, GotoTypes DEF TypeOK, saveInstances, CreatePC
    <3>5. LocalsOK'
      BY <2>2, <3>2, GotoTypes DEF LocalsOK, CreatePC, MigratePC
    <3> QED BY <3>4, <3>5
  <2> QED BY <1>8, <2>1, <2>2 DEF Register
<1>9. ASSUME SaveCursors(p) PROVE TInv'
  <2>1. TypeOK'
    BY <1>9, GotoTypes DEF SaveCursors, saveCursors, mem, TypeOK, CreatePC
  <2>2. LocalsOK'
    BY <1>9, GotoTypes DEF SaveCursors, LocalsOK, CreatePC, MigratePC
  <2> QED BY <2>1, <2>2
<1>10. ASSUME CreateOK(p) PROVE TInv'
  <2>1. img' = [q \in Procs |-> img'[q]] /\ \A q \in Procs : IsImage(img'[q])
    BY <1>10, SnapshotImage DEF CreateOK, TypeOK
  <2>2. TypeOK'
    BY <1>10, <2>1, GotoTypes DEF CreateOK, mem, TypeOK, CreatePC
  <2>3. LocalsOK'
    BY <1>10, GotoTypes DEF CreateOK, LocalsOK, CreatePC, MigratePC
  <2> QED BY <2>2, <2>3
<1>11. ASSUME WriteInstances(p) PROVE TInv'
  <2>1. /\ img' = [q \in Procs |-> img'[q]]
        /\ \A q \in Procs : IsImage(img'[q])
        /\ disk' = [kept |-> disk'.kept, inst |-> disk'.inst]
        /\ disk'.kept \in BOOLEAN /\ IsImage(disk'.inst)
    BY <1>11, NoImageImage DEF WriteInstances, TypeOK
  <2>2. TypeOK'
    BY <1>11, <2>1, GotoTypes, BlankRecord DEF WriteInstances, Return, mem, TypeOK
  <2>3. LocalsOK'
    BY <1>11, GotoTypes DEF WriteInstances, Return, LocalsOK, MigratePC, TypeOK
  <2> QED BY <2>2, <2>3
<1>12. ASSUME CreateFail(p) PROVE TInv'
  <2>1. /\ registered' \in SUBSET Names
        /\ rec' \in [Names -> Record]
        /\ used' \in [Kinds -> SUBSET Nat]
        /\ disk' = [kept |-> disk'.kept, inst |-> disk'.inst]
        /\ disk'.kept \in BOOLEAN /\ IsImage(disk'.inst)
    <3>1. CASE loc[p].name \in registered
      BY <1>12, <3>1, DropTypes DEF CreateFail, TypeOK
    <3>2. CASE loc[p].name \notin registered
      BY <1>12, <3>2 DEF CreateFail, Drop, TypeOK
    <3> QED BY <3>1, <3>2
  <2>2. TypeOK'
    BY <1>12, <2>1, GotoTypes, BlankRecord DEF CreateFail, Return, TypeOK
  <2>3. LocalsOK'
    BY <1>12, GotoTypes DEF CreateFail, Return, LocalsOK, MigratePC, TypeOK
  <2> QED BY <2>2, <2>3
<1> QED BY <1>1, <1>2, <1>3, <1>4, <1>5, <1>6, <1>7, <1>8, <1>9, <1>10,
           <1>11, <1>12 DEF CreateStep

LEMMA UnregisterTypes ==
  ASSUME TInv, NEW n \in Names, unregisterInstance(n)
  PROVE  TInv'
BY DropTypes DEF unregisterInstance, TInv, TypeOK, LocalsOK

\* A migration reads and writes the record of a name it holds.
LEMMA MigrationRecord ==
  ASSUME TInv, NEW p \in Procs, pc[p] \in MigratePC
  PROVE  /\ loc[p].name \in Names /\ Rec(p) \in Record
         /\ loc[p].node \in Nodes /\ loc[p] \in Local
         /\ Rec(p).port \in [Kinds -> Nat]
BY DEF TInv, TypeOK, LocalsOK, Rec, Record, MigratePC, Local

\* A migration that moves to another of its places keeps its name and node.
LEMMA MigrationLocals ==
  ASSUME TInv, NEW p \in Procs, NEW from \in MigratePC,
         NEW to \in MigratePC \cup {"idle"}, Goto(p, from, to),
         \A q \in Procs \ {p} : loc'[q] = loc[q],
         to # "idle" => loc'[p].name = loc[p].name /\ loc'[p].node = loc[p].node
  PROVE  LocalsOK'
BY GotoTypes DEF TInv, LocalsOK, MigratePC, CreatePC

LEMMA PortUpdate ==
  ASSUME TypeOK, NEW n \in Names, NEW P \in [Kinds -> Nat]
  PROVE  [rec EXCEPT ![n].port = P] \in [Names -> Record]
<1> DEFINE r == [node |-> rec[n].node, ip |-> rec[n].ip, port |-> P]
<1>1. rec[n] \in Record /\ r \in Record
  BY DEF TypeOK, Record
<1>2. [rec EXCEPT ![n].port = P] = [rec EXCEPT ![n] = r]
  <2>1. [rec[n] EXCEPT !.port = P] = r
    BY <1>1 DEF Record
  <2>2. [rec EXCEPT ![n].port = P] = [rec EXCEPT ![n] = [rec[n] EXCEPT !.port = P]]
    BY Zenon
  <2> QED BY <2>1, <2>2
<1> HIDE DEF r
<1>3. [rec EXCEPT ![n] = r] \in [Names -> Record]
  BY <1>1 DEF TypeOK
<1> QED BY <1>2, <1>3

LEMMA MigrateTypes ==
  ASSUME TInv, NEW p \in Procs, MigrateStep(p)
  PROVE  TInv'
<1> USE DEF TInv
<1>1. ASSUME NEW n \in Names, NEW d \in Nodes, StartMigrate(p, n, d)
      PROVE  TInv'
  <2>1. /\ loc' \in [Procs -> Local] /\ loc'[p].node = d /\ loc'[p].name = n
        /\ \A q \in Procs \ {p} : loc'[q] = loc[q]
    BY <1>1, BlankRecord DEF StartMigrate, TypeOK, Local
  <2>2. Goto(p, "idle", "mMark")
    BY <1>1 DEF StartMigrate
  <2>3. TypeOK'
    BY <1>1, <2>1, <2>2, GotoTypes DEF StartMigrate, TypeOK, mem, MigratePC
  <2>4. LocalsOK'
    BY <2>1, <2>2, GotoTypes DEF LocalsOK, MigratePC, CreatePC
  <2> QED BY <2>3, <2>4
<1>2. ASSUME MigrateMark(p) PROVE TInv'
  <2>1. Goto(p, "mMark", "mFree") /\ loc' = loc
    BY <1>2 DEF MigrateMark
  <2>2. Rec(p).port \in [Kinds -> Nat]
    BY <2>1, MigrationRecord DEF Goto, MigratePC
  <2>3. used' \in [Kinds -> SUBSET Nat]
    BY <1>2, <2>2 DEF MigrateMark, Held, TypeOK
  <2>4. /\ disk' = [kept |-> disk'.kept, inst |-> disk'.inst]
        /\ disk'.kept \in BOOLEAN /\ IsImage(disk'.inst)
    <3>1. CASE disk' = [kept |-> TRUE, inst |-> Snapshot]
      BY <3>1, SnapshotImage
    <3>2. CASE disk' = disk
      BY <3>2 DEF TypeOK
    <3> QED BY <1>2, <3>1, <3>2 DEF MigrateMark
  <2>5. TypeOK'
    BY <1>2, <2>1, <2>3, <2>4, GotoTypes DEF MigrateMark, TypeOK, MigratePC
  <2>6. LocalsOK'
    BY <2>1, MigrationLocals DEF MigratePC
  <2> QED BY <2>5, <2>6
<1>3. ASSUME MigrateFree(p) PROVE TInv'
  <2>1. Goto(p, "mFree", "mSsh") /\ loc' = loc
    BY <1>3 DEF MigrateFree
  <2>2. used' \in [Kinds -> SUBSET Nat]
    BY <1>3 DEF MigrateFree, Freed, TypeOK
  <2>3. TypeOK'
    BY <1>3, <2>1, <2>2, GotoTypes DEF MigrateFree, TypeOK, MigratePC
  <2>4. LocalsOK'
    BY <2>1, MigrationLocals DEF MigratePC
  <2> QED BY <2>3, <2>4
<1>4. ASSUME MigrateSSH(p) PROVE TInv'
  <2>1. PICK i \in Tries(PoolLo["ssh"], PoolHi["ssh"]) :
          \/ Goto(p, "mSsh", "mSvc") /\ TakePort(p, "ssh", i)
          \/ Return(p, "mSsh") /\ ZeroPort("ssh", i)
             /\ used' = Held(Rec(p).port)
    BY <1>4 DEF MigrateSSH
  <2>2. CASE Goto(p, "mSsh", "mSvc") /\ TakePort(p, "ssh", i)
    <3>1. TypeOK'
      BY <2>2, TakePortTypes, GotoTypes, KindsElems
         DEF TypeOK, TakePort, MigratePC
    <3>2. \A q \in Procs : loc'[q].name = loc[q].name
                             /\ loc'[q].node = loc[q].node
      BY <2>2, TakePortTypes, KindsElems
    <3>3. LocalsOK'
      BY <2>2, <3>2, GotoTypes DEF LocalsOK, MigratePC
    <3> QED BY <3>1, <3>3
  <2>3. CASE Return(p, "mSsh") /\ ZeroPort("ssh", i)
             /\ used' = Held(Rec(p).port)
    <3>1. Rec(p).port \in [Kinds -> Nat]
      BY <2>3, MigrationRecord DEF Return, Goto, MigratePC
    <3>2. used' \in [Kinds -> SUBSET Nat]
      BY <2>3, <3>1 DEF Held, TypeOK
    <3>3. TypeOK'
      BY <2>3, <3>2, ZeroPortTypes, GotoTypes, KindsElems, BlankRecord
         DEF TypeOK, ZeroPort, Return
    <3>4. LocalsOK'
      BY <2>3, GotoTypes DEF LocalsOK, MigratePC, Return, TypeOK
    <3> QED BY <3>3, <3>4
  <2> QED BY <2>1, <2>2, <2>3
<1>5. ASSUME MigrateSvc(p) PROVE TInv'
  <2>1. PICK i \in Tries(PoolLo["svc"], PoolHi["svc"]) :
          \/ Goto(p, "mSvc", "mIp") /\ TakePort(p, "svc", i)
          \/ /\ Return(p, "mSvc") /\ ZeroPort("svc", i)
             /\ used' = [Held(Rec(p).port) EXCEPT !["ssh"] =
                           (used["ssh"] \ {loc[p].port["ssh"]})
                             \cup {Rec(p).port["ssh"]}]
    BY <1>5 DEF MigrateSvc
  <2>2. CASE Goto(p, "mSvc", "mIp") /\ TakePort(p, "svc", i)
    <3>1. TypeOK'
      BY <2>2, TakePortTypes, GotoTypes, KindsElems
         DEF TypeOK, TakePort, MigratePC
    <3>2. \A q \in Procs : loc'[q].name = loc[q].name
                             /\ loc'[q].node = loc[q].node
      BY <2>2, TakePortTypes, KindsElems
    <3>3. LocalsOK'
      BY <2>2, <3>2, GotoTypes DEF LocalsOK, MigratePC
    <3> QED BY <3>1, <3>3
  <2>3. CASE /\ Return(p, "mSvc") /\ ZeroPort("svc", i)
             /\ used' = [Held(Rec(p).port) EXCEPT !["ssh"] =
                           (used["ssh"] \ {loc[p].port["ssh"]})
                             \cup {Rec(p).port["ssh"]}]
    <3>1. Rec(p).port \in [Kinds -> Nat]
      BY <2>3, MigrationRecord DEF Return, Goto, MigratePC
    <3>2. Held(Rec(p).port) \in [Kinds -> SUBSET Nat]
      BY <3>1 DEF Held, TypeOK
    <3>3. (used["ssh"] \ {loc[p].port["ssh"]}) \cup {Rec(p).port["ssh"]}
            \in SUBSET Nat
      BY <3>1, KindsElems DEF TypeOK
    <3>4. used' \in [Kinds -> SUBSET Nat]
      BY <2>3, <3>2, <3>3
    <3>5. TypeOK'
      BY <2>3, <3>4, ZeroPortTypes, GotoTypes, KindsElems, BlankRecord
         DEF TypeOK, ZeroPort, Return
    <3>6. LocalsOK'
      BY <2>3, GotoTypes DEF LocalsOK, MigratePC, Return, TypeOK
    <3> QED BY <3>5, <3>6
  <2> QED BY <2>1, <2>2, <2>3
<1>6. ASSUME MigrateIp(p) PROVE TInv'
  <2>1. PICK i \in Tries(IpLo, IpHi) :
          /\ loc' = [loc EXCEPT ![p].ip = IpTry(loc[p].node, i)]
          /\ ipCursor' = [ipCursor EXCEPT ![loc[p].node] =
                            IpTry(loc[p].node, i + 1)]
    BY <1>6 DEF MigrateIp
  <2>2. Goto(p, "mIp", "mInstall") /\ loc[p].node \in Nodes
    BY <1>6, MigrationRecord DEF MigrateIp, Goto, MigratePC
  <2>3. IpTry(loc[p].node, i) \in Nat /\ IpTry(loc[p].node, i + 1) \in Nat
    BY <2>2, IpTryNat, IpAssumption DEF Tries
  <2>4. loc' \in [Procs -> Local] /\ ipCursor' \in [Nodes -> Nat]
        /\ \A q \in Procs : loc'[q].name = loc[q].name
                              /\ loc'[q].node = loc[q].node
    BY <2>1, <2>3 DEF TypeOK, Local
  <2>5. UNCHANGED <<registered, rec, used, cursor, img, disk, diskCursor>>
    BY <1>6 DEF MigrateIp
  <2>6. TypeOK'
    BY <2>2, <2>4, <2>5, GotoTypes DEF TypeOK, MigratePC
  <2>7. LocalsOK'
    BY <2>2, <2>4, GotoTypes DEF LocalsOK, MigratePC
  <2> QED BY <2>6, <2>7
<1>7. ASSUME MigratePanic(p) PROVE TInv'
  BY <1>7, RestartTypes DEF MigratePanic
<1>8. ASSUME MigrateInstall(p) PROVE TInv'
  <2>1. Goto(p, "mInstall", "mLxd")
    BY <1>8 DEF MigrateInstall
  <2>2. /\ loc[p].name \in Names /\ Rec(p).port \in [Kinds -> Nat]
        /\ loc[p] \in Local
    BY <2>1, MigrationRecord DEF Goto, MigratePC
  <2>3. loc' \in [Procs -> Local]
        /\ \A q \in Procs : loc'[q].name = loc[q].name
                              /\ loc'[q].node = loc[q].node
    BY <1>8, <2>2 DEF MigrateInstall, TypeOK, Local
  <2>4. rec' \in [Names -> Record]
    <3>1. loc[p].port \in [Kinds -> Nat]
      BY <2>2 DEF Local
    <3> QED BY <1>8, <2>2, <3>1, PortUpdate DEF MigrateInstall
  <2>5. UNCHANGED <<registered, used, cursor, ipCursor, img, disk, diskCursor>>
    BY <1>8 DEF MigrateInstall
  <2>6. TypeOK'
    BY <2>1, <2>3, <2>4, <2>5, GotoTypes DEF TypeOK, MigratePC
  <2>7. LocalsOK'
    BY <2>1, <2>3, GotoTypes DEF LocalsOK, MigratePC
  <2> QED BY <2>6, <2>7
<1>9. ASSUME MigrateFail(p) PROVE TInv'
  <2>1. Goto(p, "mLxd", "idle") /\ loc' = [loc EXCEPT ![p] = Idle]
    BY <1>9 DEF MigrateFail, Return
  <2>2. loc[p].name \in Names /\ loc[p] \in Local
    BY <2>1, MigrationRecord DEF Goto, MigratePC
  <2>3. registered' = registered /\ rec' \in [Names -> Record]
    <3>1. loc[p].orig \in [Kinds -> Nat]
      BY <2>2 DEF Local
    <3> QED BY <1>9, <2>2, <3>1, PortUpdate DEF MigrateFail
  <2>4. used' \in [Kinds -> SUBSET Nat]
    BY <1>9, <2>2 DEF MigrateFail, TypeOK, Local
  <2>5. IsImage(Snapshot')
    <3>1. registered' \in SUBSET Names
      BY <2>3 DEF TypeOK
    <3> QED BY <2>3, <3>1 DEF IsImage, Snapshot
  <2>6. /\ disk' = [kept |-> disk'.kept, inst |-> disk'.inst]
        /\ disk'.kept \in BOOLEAN /\ IsImage(disk'.inst)
    <3>1. CASE disk' = [kept |-> TRUE, inst |-> Snapshot']
      BY <3>1, <2>5
    <3>2. CASE disk' = disk
      BY <3>2 DEF TypeOK
    <3> QED BY <1>9, <3>1, <3>2 DEF MigrateFail, saveInstances
  <2>7. UNCHANGED <<cursor, ipCursor, img, diskCursor>>
    BY <1>9 DEF MigrateFail
  <2>8. TypeOK'
    BY <2>1, <2>3, <2>4, <2>6, <2>7, GotoTypes, BlankRecord DEF TypeOK
  <2>9. LocalsOK'
    BY <2>1, GotoTypes DEF LocalsOK, MigratePC, TypeOK
  <2> QED BY <2>8, <2>9
<1>10. ASSUME MigrateOK(p) PROVE TInv'
  <2>1. Goto(p, "mLxd", "mFinish") /\ UNCHANGED <<mem, loc, img, diskCursor>>
    BY <1>10 DEF MigrateOK
  <2>2. IsImage(Snapshot')
    <3>1. registered' \in SUBSET Names /\ rec' \in [Names -> Record]
      BY <2>1 DEF TypeOK, mem
    <3> QED BY <3>1 DEF IsImage, Snapshot
  <2>3. TypeOK'
    BY <1>10, <2>1, <2>2, GotoTypes
       DEF MigrateOK, saveInstances, TypeOK, MigratePC, mem
  <2>4. LocalsOK'
    BY <2>1, MigrationLocals DEF MigratePC
  <2> QED BY <2>3, <2>4
<1>11. ASSUME MigrateFinish(p) PROVE TInv'
  <2>1. Goto(p, "mFinish", "idle") /\ loc' = [loc EXCEPT ![p] = Idle]
    BY <1>11 DEF MigrateFinish, Return
  <2>2. loc[p].name \in Names /\ loc[p] \in Local
    BY <2>1, MigrationRecord DEF Goto, MigratePC
  <2>3. UNCHANGED <<registered, used, cursor, ipCursor, img, diskCursor>>
    BY <1>11 DEF MigrateFinish
  <2>4. rec' \in [Names -> Record]
    BY <1>11, <2>2 DEF MigrateFinish, TypeOK, Local, Record
  <2>5. IsImage(Snapshot')
    BY <2>3, <2>4 DEF IsImage, Snapshot, TypeOK
  <2>6. disk' = [kept |-> TRUE, inst |-> Snapshot']
    BY <1>11 DEF MigrateFinish, saveInstances
  <2>7. TypeOK'
    BY <2>1, <2>3, <2>4, <2>5, <2>6, GotoTypes, BlankRecord DEF TypeOK
  <2>8. LocalsOK'
    BY <2>1, GotoTypes DEF LocalsOK, MigratePC, TypeOK
  <2> QED BY <2>7, <2>8
<1> QED BY <1>1, <1>2, <1>3, <1>4, <1>5, <1>6, <1>7, <1>8, <1>9, <1>10, <1>11
    DEF MigrateStep

LEMMA StutterTypes == TInv /\ UNCHANGED vars => TInv'
BY DEF TInv, TypeOK, LocalsOK, vars, IsImage

\* Type correctness, migrations included: in particular the goroutines only
\* dereference records of names they were given.
THEOREM TypeCorrect == Spec => []TypeOK
<1>1. TInv /\ [Next]_vars => TInv'
  BY CreateTypes, UnregisterTypes, RestartTypes, MigrateTypes, StutterTypes
     DEF Next, LeaseNext
<1>2. TInv => TypeOK
  BY DEF TInv
<1> QED BY InitTInv, <1>1, <1>2, PTL DEF Spec

(***************************************************************************)
(* Creation, deletion and restarts                                         *)
(***************************************************************************)
LInv == TInv /\ LeaseInv

LEMMA InitLInv == Init => LInv
<1> SUFFICES ASSUME Init PROVE LInv
  OBVIOUS
<1>1. TInv
  BY InitTInv
<1>2. registered = {} /\ \A p \in Procs : pc[p] = "idle" /\ img[p] = NoImage
  BY DEF Init
<1>3. disk.inst = NoImage /\ DOMAIN NoImage = {}
  BY DEF Init, NoImage
<1>4. PortLedger
  <2>1. \A k \in Kinds : used[k] = {} /\ {q \in Procs : Holds(q, k)} = {}
    BY <1>2 DEF Init, Holds
  <2> QED BY <1>2, <2>1 DEF PortLedger
<1>5. ImagesExclusive /\ ImagesAgree
  <2>1. \A I \in Images : DOMAIN I = {}
    BY <1>2, <1>3 DEF Images
  <2> QED BY <2>1 DEF ImagesExclusive, ImagesAgree
<1>6. PortsExclusive /\ HeldNotOwned /\ HeldOnce
  BY <1>2 DEF PortsExclusive, HeldNotOwned, HeldOnce, Holds
<1> QED BY <1>1, <1>2, <1>4, <1>5, <1>6 DEF LInv, LeaseInv, MigratePC

\* A goroutine that moves between places where it holds the same ports, or
\* none, and changes no port, leaves the invariant alone.
LEMMA QuietStep ==
  ASSUME LInv, TInv', NEW p \in Procs,
         UNCHANGED <<registered, rec, used, img, disk>>,
         pc'[p] \notin MigratePC,
         \A q \in Procs \ {p} : pc'[q] = pc[q] /\ loc'[q] = loc[q],
         \A k \in Kinds : Holds(p, k)' <=> Holds(p, k),
         \A k \in Kinds : Holds(p, k) => loc'[p].port[k] = loc[p].port[k]
  PROVE  LInv'
<1>1. \A q \in Procs, k \in Kinds : Holds(q, k)' <=> Holds(q, k)
  BY DEF Holds
<1>2. \A q \in Procs, k \in Kinds :
         Holds(q, k) => loc'[q].port[k] = loc[q].port[k]
  OBVIOUS
<1>3. PortLedger'
  <2> SUFFICES ASSUME NEW k \in Kinds
      PROVE used'[k] = {rec'[n].port[k] : n \in registered'}
              \cup {loc'[q].port[k] : q \in {r \in Procs : Holds(r, k)'}}
    BY DEF PortLedger
  <2>1. {q \in Procs : Holds(q, k)'} = {q \in Procs : Holds(q, k)}
    BY <1>1
  <2>2. {loc'[q].port[k] : q \in {r \in Procs : Holds(r, k)'}}
          = {loc[q].port[k] : q \in {r \in Procs : Holds(r, k)}}
    BY <2>1, <1>2
  <2> QED BY <2>2 DEF LInv, LeaseInv, PortLedger
<1>4. HeldNotOwned' /\ HeldOnce'
  BY <1>1, <1>2 DEF LInv, LeaseInv, HeldNotOwned, HeldOnce
<1>5. PortsExclusive' /\ ImagesExclusive' /\ ImagesAgree'
  BY DEF LInv, LeaseInv, PortsExclusive, ImagesExclusive, ImagesAgree, Images
<1>6. \A q \in Procs : pc'[q] \notin MigratePC
  BY DEF LInv, LeaseInv
<1> QED BY <1>3, <1>4, <1>5, <1>6 DEF LInv, LeaseInv

\* A port that is not in the used map, claimed by p.
LEMMA ClaimStep ==
  ASSUME LInv, TInv', NEW p \in Procs, NEW c \in Kinds, NEW v,
         v \notin used[c],
         used' = [used EXCEPT ![c] = @ \cup {v}],
         UNCHANGED <<registered, rec, img, disk>>,
         pc'[p] \notin MigratePC,
         \A q \in Procs \ {p} : pc'[q] = pc[q] /\ loc'[q] = loc[q],
         ~Holds(p, c), Holds(p, c)', loc'[p].port[c] = v,
         \A k \in Kinds \ {c} : Holds(p, k)' <=> Holds(p, k),
         \A k \in Kinds \ {c} : loc'[p].port[k] = loc[p].port[k]
  PROVE  LInv'
<1>1. \A q \in Procs \ {p}, k \in Kinds : Holds(q, k)' <=> Holds(q, k)
  BY DEF Holds
<1>2. \A n \in registered : rec[n].port[c] # v
  BY DEF LInv, LeaseInv, PortLedger
<1>3. \A q \in Procs : Holds(q, c) => loc[q].port[c] # v
  BY DEF LInv, LeaseInv, PortLedger
<1>4. HeldNotOwned'
  BY <1>1, <1>2 DEF LInv, LeaseInv, HeldNotOwned
<1>5. HeldOnce'
  BY <1>1, <1>3 DEF LInv, LeaseInv, HeldOnce
<1>6. PortLedger'
  <2> SUFFICES ASSUME NEW k \in Kinds
      PROVE used'[k] = {rec'[n].port[k] : n \in registered'}
              \cup {loc'[q].port[k] : q \in {r \in Procs : Holds(r, k)'}}
    BY DEF PortLedger
  <2> DEFINE owned == {rec[n].port[k] : n \in registered}
             old == {loc[q].port[k] : q \in {r \in Procs : Holds(r, k)}}
             new == {loc'[q].port[k] : q \in {r \in Procs : Holds(r, k)'}}
  <2>1. used[k] = owned \cup old
    BY DEF LInv, LeaseInv, PortLedger
  <2>2. CASE k = c
    <3>1. new = old \cup {v}
      BY <1>1, <2>2
    <3>2. used'[k] = used[k] \cup {v}
      BY <2>2 DEF LInv, TInv, TypeOK
    <3> HIDE DEF owned, old, new
    <3>3. used'[k] = owned \cup new
      BY <2>1, <3>1, <3>2
    <3> QED BY <3>3 DEF owned, new
  <2>3. CASE k # c
    <3>1. new = old
      BY <1>1, <2>3
    <3>2. used'[k] = used[k]
      BY <2>3 DEF LInv, TInv, TypeOK
    <3> HIDE DEF owned, old, new
    <3>3. used'[k] = owned \cup new
      BY <2>1, <3>1, <3>2
    <3> QED BY <3>3 DEF owned, new
  <2> QED BY <2>2, <2>3
<1>7. PortsExclusive' /\ ImagesExclusive' /\ ImagesAgree'
  BY DEF LInv, LeaseInv, PortsExclusive, ImagesExclusive, ImagesAgree, Images
<1>8. \A q \in Procs : pc'[q] \notin MigratePC
  BY DEF LInv, LeaseInv
<1> QED BY <1>4, <1>5, <1>6, <1>7, <1>8 DEF LInv, LeaseInv

\* p gives back the ports it held, and holds none any more.
LEMMA ReleaseStep ==
  ASSUME LInv, TInv', NEW p \in Procs,
         \A k \in Kinds : used'[k] = IF Holds(p, k)
                                     THEN used[k] \ {loc[p].port[k]}
                                     ELSE used[k],
         UNCHANGED <<registered, rec, img, disk>>,
         pc'[p] \notin MigratePC,
         \A q \in Procs \ {p} : pc'[q] = pc[q] /\ loc'[q] = loc[q],
         \A k \in Kinds : ~Holds(p, k)'
  PROVE  LInv'
<1>1. \A q \in Procs \ {p}, k \in Kinds : Holds(q, k)' <=> Holds(q, k)
  BY DEF Holds
<1>2. HeldNotOwned' /\ HeldOnce'
  BY <1>1 DEF LInv, LeaseInv, HeldNotOwned, HeldOnce
<1>3. PortLedger'
  <2> SUFFICES ASSUME NEW k \in Kinds
      PROVE used'[k] = {rec'[n].port[k] : n \in registered'}
              \cup {loc'[q].port[k] : q \in {r \in Procs : Holds(r, k)'}}
    BY DEF PortLedger
  <2> DEFINE owned == {rec[n].port[k] : n \in registered}
             old == {loc[q].port[k] : q \in {r \in Procs : Holds(r, k)}}
             new == {loc'[q].port[k] : q \in {r \in Procs : Holds(r, k)'}}
  <2>1. used[k] = owned \cup old
    BY DEF LInv, LeaseInv, PortLedger
  <2>2. CASE Holds(p, k)
    <3>1. new = old \ {loc[p].port[k]}
      BY <1>1, <2>2 DEF LInv, LeaseInv, HeldOnce
    <3>2. loc[p].port[k] \notin owned
      BY <2>2 DEF LInv, LeaseInv, HeldNotOwned
    <3> HIDE DEF owned, old, new
    <3>3. used'[k] = owned \cup new
      BY <2>1, <2>2, <3>1, <3>2
    <3> QED BY <3>3 DEF owned, new
  <2>3. CASE ~Holds(p, k)
    <3>1. new = old
      BY <1>1, <2>3
    <3> HIDE DEF owned, old, new
    <3>2. used'[k] = owned \cup new
      BY <2>1, <2>3, <3>1
    <3> QED BY <3>2 DEF owned, new
  <2> QED BY <2>2, <2>3
<1>4. PortsExclusive' /\ ImagesExclusive' /\ ImagesAgree'
  BY DEF LInv, LeaseInv, PortsExclusive, ImagesExclusive, ImagesAgree, Images
<1>5. \A q \in Procs : pc'[q] \notin MigratePC
  BY DEF LInv, LeaseInv
<1> QED BY <1>2, <1>3, <1>4, <1>5 DEF LInv, LeaseInv

\* The ports p holds become those of the fresh name n.
LEMMA RegisterStep ==
  ASSUME LInv, TInv', NEW p \in Procs, NEW n \in Names,
         Fresh(n),
         Goto(p, "register", "cursors"),
         registered' = registered \cup {n},
         rec' = [rec EXCEPT ![n] = [node |-> loc[p].node, ip |-> loc[p].ip,
                                    port |-> loc[p].port]],
         loc' = [loc EXCEPT ![p].name = n],
         disk' = [kept |-> TRUE, inst |-> Snapshot'],
         UNCHANGED <<used, img>>
  PROVE  LInv'
<1>1. pc[p] = "register" /\ pc'[p] = "cursors"
      /\ \A q \in Procs \ {p} : pc'[q] = pc[q]
  BY GotoTypes DEF CreatePC, LInv, TInv
<1>2. \A q \in Procs \ {p}, k \in Kinds :
         (Holds(q, k)' <=> Holds(q, k)) /\ loc'[q] = loc[q]
  BY <1>1 DEF Holds, LInv, TInv, TypeOK
<1>3. \A k \in Kinds : Holds(p, k) /\ ~Holds(p, k)'
  BY <1>1 DEF Holds
<1>4. rec'[n].port = loc[p].port
      /\ \A m \in registered : m # n /\ rec'[m] = rec[m]
  BY DEF Fresh, LInv, TInv, TypeOK
<1>5. PortsExclusive'
  BY <1>3, <1>4 DEF LInv, LeaseInv, PortsExclusive, HeldNotOwned
<1>6. HeldNotOwned'
  BY <1>2, <1>3, <1>4 DEF LInv, LeaseInv, HeldNotOwned, HeldOnce
<1>7. HeldOnce'
  BY <1>2, <1>3 DEF LInv, LeaseInv, HeldOnce
<1>8. PortLedger'
  <2> SUFFICES ASSUME NEW k \in Kinds
      PROVE used'[k] = {rec'[m].port[k] : m \in registered'}
              \cup {loc'[q].port[k] : q \in {r \in Procs : Holds(r, k)'}}
    BY DEF PortLedger
  <2> DEFINE owned == {rec[m].port[k] : m \in registered}
             owned2 == {rec'[m].port[k] : m \in registered'}
             old == {loc[q].port[k] : q \in {r \in Procs : Holds(r, k)}}
             new == {loc'[q].port[k] : q \in {r \in Procs : Holds(r, k)'}}
             v == loc[p].port[k]
  <2>1. used[k] = owned \cup old
    BY DEF LInv, LeaseInv, PortLedger
  <2>2. owned2 = owned \cup {v}
    BY <1>4
  <2>3. old = new \cup {v}
    BY <1>2, <1>3
  <2> HIDE DEF owned, owned2, old, new, v
  <2>4. used'[k] = owned2 \cup new
    BY <2>1, <2>2, <2>3
  <2> QED BY <2>4 DEF owned2, new
<1>9. Images' = {Snapshot'} \cup {img[q] : q \in Procs}
  BY DEF Images
<1>10. ImagesExclusive'
  <2>1. \A k \in Kinds, m1, m2 \in DOMAIN Snapshot' :
           m1 # m2 => Snapshot'[m1].port[k] # Snapshot'[m2].port[k]
    BY <1>5 DEF PortsExclusive, Snapshot
  <2> QED BY <1>9, <2>1 DEF LInv, LeaseInv, ImagesExclusive, Images
<1>11. ImagesAgree'
  <2>1. \A m \in DOMAIN Snapshot' : Snapshot'[m].port = rec'[m].port
    BY DEF Snapshot
  <2>2. ASSUME NEW q \in Procs, NEW m \in DOMAIN img[q] \cap registered'
        PROVE img[q][m].port = rec'[m].port
    <3>1. m # n /\ m \in registered
      BY <2>2 DEF Fresh
    <3> QED BY <3>1, <1>4 DEF LInv, LeaseInv, ImagesAgree, Images
  <2> QED BY <1>9, <2>1, <2>2 DEF ImagesAgree
<1>12. \A q \in Procs : pc'[q] \notin MigratePC
  BY <1>1 DEF LInv, LeaseInv, MigratePC
<1> QED BY <1>5, <1>6, <1>7, <1>8, <1>10, <1>11, <1>12 DEF LInv, LeaseInv

\* A registered name is forgotten: its ports are nobody's.
LEMMA DropStep ==
  ASSUME LInv, TInv', NEW n \in Names, Drop(n), UNCHANGED img,
         \A q \in Procs : pc'[q] \notin MigratePC,
         \A q \in Procs, k \in Kinds : Holds(q, k)' <=> Holds(q, k),
         \A q \in Procs, k \in Kinds :
            Holds(q, k) => loc'[q].port[k] = loc[q].port[k]
  PROVE  LInv'
<1>1. CASE n \in registered
  <2>1. /\ registered' = registered \ {n}
        /\ \A k \in Kinds : used'[k] = used[k] \ {rec[n].port[k]}
        /\ \A m \in registered' : rec'[m] = rec[m]
        /\ disk' = [kept |-> TRUE, inst |-> Snapshot']
    BY <1>1 DEF Drop, Freed, saveInstances, LInv, TInv, TypeOK
  <2>2. PortsExclusive' /\ HeldNotOwned' /\ HeldOnce'
    BY <2>1 DEF LInv, LeaseInv, PortsExclusive, HeldNotOwned, HeldOnce
  <2>3. PortLedger'
    <3> SUFFICES ASSUME NEW k \in Kinds
        PROVE used'[k] = {rec'[m].port[k] : m \in registered'}
                \cup {loc'[q].port[k] : q \in {r \in Procs : Holds(r, k)'}}
      BY DEF PortLedger
    <3> DEFINE owned == {rec[m].port[k] : m \in registered}
               owned2 == {rec'[m].port[k] : m \in registered'}
               old == {loc[q].port[k] : q \in {r \in Procs : Holds(r, k)}}
               new == {loc'[q].port[k] : q \in {r \in Procs : Holds(r, k)'}}
               v == rec[n].port[k]
    <3>1. used[k] = owned \cup old /\ used'[k] = used[k] \ {v}
      BY <2>1 DEF LInv, LeaseInv, PortLedger
    <3>2. owned2 = owned \ {v}
      BY <1>1, <2>1 DEF LInv, LeaseInv, PortsExclusive
    <3>3. old = new
      OBVIOUS
    <3>4. v \notin old
      BY <1>1 DEF LInv, LeaseInv, HeldNotOwned
    <3> HIDE DEF owned, owned2, old, new, v
    <3>5. used'[k] = owned2 \cup new
      BY <3>1, <3>2, <3>3, <3>4
    <3> QED BY <3>5 DEF owned2, new
  <2>4. Images' = {Snapshot'} \cup {img[q] : q \in Procs}
    BY <2>1 DEF Images
  <2>5. ImagesExclusive'
    <3>1. \A k \in Kinds, m1, m2 \in DOMAIN Snapshot' :
             m1 # m2 => Snapshot'[m1].port[k] # Snapshot'[m2].port[k]
      BY <2>2 DEF PortsExclusive, Snapshot
    <3>2. \A q \in Procs : \A k \in Kinds, m1, m2 \in DOMAIN img[q] :
             m1 # m2 => img[q][m1].port[k] # img[q][m2].port[k]
      BY DEF LInv, LeaseInv, ImagesExclusive, Images
    <3> QED BY <2>4, <3>1, <3>2 DEF ImagesExclusive
  <2>6. ImagesAgree'
    <3>1. \A m \in DOMAIN Snapshot' : Snapshot'[m].port = rec'[m].port
      BY DEF Snapshot
    <3>2. \A q \in Procs : \A m \in DOMAIN img[q] \cap registered' :
             img[q][m].port = rec'[m].port
      BY <2>1 DEF LInv, LeaseInv, ImagesAgree, Images
    <3> QED BY <2>4, <3>1, <3>2 DEF ImagesAgree
  <2> QED BY <2>2, <2>3, <2>5, <2>6 DEF LInv, LeaseInv
<1>2. CASE n \notin registered
  <2>1. UNCHANGED <<registered, used, rec, disk>>
    BY <1>2 DEF Drop
  <2>2. PortLedger'
    <3> SUFFICES ASSUME NEW k \in Kinds
        PROVE used'[k] = {rec'[m].port[k] : m \in registered'}
                \cup {loc'[q].port[k] : q \in {r \in Procs : Holds(r, k)'}}
      BY DEF PortLedger
    <3>1. {loc'[q].port[k] : q \in {r \in Procs : Holds(r, k)'}}
            = {loc[q].port[k] : q \in {r \in Procs : Holds(r, k)}}
      OBVIOUS
    <3> QED BY <2>1, <3>1 DEF LInv, LeaseInv, PortLedger
  <2>3. HeldNotOwned' /\ HeldOnce'
    BY <2>1 DEF LInv, LeaseInv, HeldNotOwned, HeldOnce
  <2>4. PortsExclusive' /\ ImagesExclusive' /\ ImagesAgree'
    BY <2>1 DEF LInv, LeaseInv, PortsExclusive, ImagesExclusive, ImagesAgree,
                Images
  <2> QED BY <2>2, <2>3, <2>4 DEF LInv, LeaseInv
<1> QED BY <1>1, <1>2

\* Only images of instances.json change, and each new one is the registry's
\* present contents or was an image before.
LEMMA ImageStep ==
  ASSUME LInv, TInv',
         UNCHANGED <<registered, rec, used>>,
         Images' \subseteq Images \cup {Snapshot, NoImage},
         \A q \in Procs : pc'[q] \notin MigratePC,
         \A q \in Procs, k \in Kinds : Holds(q, k)' <=> Holds(q, k),
         \A q \in Procs, k \in Kinds :
            Holds(q, k) => loc'[q].port[k] = loc[q].port[k]
  PROVE  LInv'
<1>1. PortLedger'
  <2> SUFFICES ASSUME NEW k \in Kinds
      PROVE used'[k] = {rec'[m].port[k] : m \in registered'}
              \cup {loc'[q].port[k] : q \in {r \in Procs : Holds(r, k)'}}
    BY DEF PortLedger
  <2>1. {loc'[q].port[k] : q \in {r \in Procs : Holds(r, k)'}}
          = {loc[q].port[k] : q \in {r \in Procs : Holds(r, k)}}
    OBVIOUS
  <2> QED BY <2>1 DEF LInv, LeaseInv, PortLedger
<1>2. HeldNotOwned' /\ HeldOnce' /\ PortsExclusive'
  BY DEF LInv, LeaseInv, HeldNotOwned, HeldOnce, PortsExclusive
<1>3. DOMAIN NoImage = {}
  BY DEF NoImage
<1>4. ImagesExclusive'
  <2>1. \A k \in Kinds, m1, m2 \in DOMAIN Snapshot :
           m1 # m2 => Snapshot[m1].port[k] # Snapshot[m2].port[k]
    BY DEF LInv, LeaseInv, PortsExclusive, Snapshot
  <2> QED BY <1>3, <2>1 DEF LInv, LeaseInv, ImagesExclusive
<1>5. ImagesAgree'
  <2>1. \A m \in DOMAIN Snapshot : Snapshot[m].port = rec[m].port
    BY DEF Snapshot
  <2> QED BY <1>3, <2>1 DEF LInv, LeaseInv, ImagesAgree
<1> QED BY <1>1, <1>2, <1>4, <1>5 DEF LInv, LeaseInv

LEMMA RestartStep ==
  ASSUME LInv, Restart
  PROVE  LInv' /\ \A n \in registered \cap registered' : rec'[n].port = rec[n].port
<1>1. TInv'
  BY RestartTypes DEF LInv
<1> DEFINE I == disk.inst
<1>2. I \in Images /\ IsImage(I)
  BY DEF Images, LInv, TInv, TypeOK
<1>3. registered' = DOMAIN I /\ \A n \in DOMAIN I : rec'[n] = I[n]
  BY <1>2 DEF Restart, IsImage
<1>4. \A q \in Procs : pc'[q] = "idle" /\ img'[q] = NoImage
  BY DEF Restart
<1>5. \A q \in Procs, k \in Kinds : ~Holds(q, k)'
  BY <1>4 DEF Holds
<1>6. PortsExclusive'
  BY <1>2, <1>3 DEF LInv, LeaseInv, ImagesExclusive, PortsExclusive
<1>7. HeldNotOwned' /\ HeldOnce'
  BY <1>5 DEF HeldNotOwned, HeldOnce
<1>8. PortLedger'
  <2> SUFFICES ASSUME NEW k \in Kinds
      PROVE used'[k] = {rec'[m].port[k] : m \in registered'}
              \cup {loc'[q].port[k] : q \in {r \in Procs : Holds(r, k)'}}
    BY DEF PortLedger
  <2>1. {r \in Procs : Holds(r, k)'} = {}
    BY <1>5
  <2>2. used'[k] = {I[m].port[k] : m \in DOMAIN I}
    BY DEF Restart, PortsOf
  <2>3. {I[m].port[k] : m \in DOMAIN I} = {rec'[m].port[k] : m \in registered'}
    BY <1>3
  <2> QED BY <2>1, <2>2, <2>3
<1>9. ImagesExclusive' /\ ImagesAgree'
  <2>1. Images' \subseteq {I, NoImage}
    BY <1>4 DEF Images, Restart
  <2>2. DOMAIN NoImage = {}
    BY DEF NoImage
  <2>3. ImagesExclusive'
    BY <1>2, <2>1, <2>2 DEF LInv, LeaseInv, ImagesExclusive
  <2>4. ImagesAgree'
    BY <1>3, <2>1, <2>2 DEF ImagesAgree
  <2> QED BY <2>3, <2>4
<1>10. LInv'
  BY <1>1, <1>4, <1>6, <1>7, <1>8, <1>9 DEF LInv, LeaseInv, MigratePC
<1>11. \A n \in registered \cap registered' : rec'[n].port = rec[n].port
  BY <1>2, <1>3 DEF LInv, LeaseInv, ImagesAgree
<1> QED BY <1>10, <1>11

(***************************************************************************)
(* The kinds of steps that the lease can see: a request keeps what it has, *)
(* claims the port v of kind c, gives up what it holds, or hands it to the *)
(* fresh name n; the record of n goes; files are written.  The lemmas      *)
(* above are about these; each action of a request is one of them.         *)
(***************************************************************************)
OthersKeep(p) == \A q \in Procs \ {p} : pc'[q] = pc[q] /\ loc'[q] = loc[q]
HoldersKeep ==
  /\ \A q \in Procs : pc'[q] \notin MigratePC
  /\ \A q \in Procs, k \in Kinds : Holds(q, k)' <=> Holds(q, k)
  /\ \A q \in Procs, k \in Kinds :
        Holds(q, k) => loc'[q].port[k] = loc[q].port[k]
QuietBy(p) ==
  /\ UNCHANGED <<registered, rec, used, img, disk>>
  /\ pc'[p] \notin MigratePC
  /\ OthersKeep(p)
  /\ \A k \in Kinds : Holds(p, k)' <=> Holds(p, k)
  /\ \A k \in Kinds : Holds(p, k) => loc'[p].port[k] = loc[p].port[k]
ClaimBy(p, c, v) ==
  /\ v \notin used[c]
  /\ used' = [used EXCEPT ![c] = @ \cup {v}]
  /\ UNCHANGED <<registered, rec, img, disk>>
  /\ pc'[p] \notin MigratePC
  /\ OthersKeep(p)
  /\ ~Holds(p, c) /\ Holds(p, c)' /\ loc'[p].port[c] = v
  /\ \A k \in Kinds \ {c} : Holds(p, k)' <=> Holds(p, k)
  /\ \A k \in Kinds \ {c} : loc'[p].port[k] = loc[p].port[k]
ReleaseBy(p) ==
  /\ \A k \in Kinds : used'[k] = IF Holds(p, k)
                                 THEN used[k] \ {loc[p].port[k]} ELSE used[k]
  /\ UNCHANGED <<registered, rec, img, disk>>
  /\ pc'[p] \notin MigratePC
  /\ OthersKeep(p)
  /\ \A k \in Kinds : ~Holds(p, k)'
RegisterBy(p, n) ==
  /\ Fresh(n)
  /\ Goto(p, "register", "cursors")
  /\ registered' = registered \cup {n}
  /\ rec' = [rec EXCEPT ![n] = [node |-> loc[p].node, ip |-> loc[p].ip,
                                port |-> loc[p].port]]
  /\ loc' = [loc EXCEPT ![p].name = n]
  /\ disk' = [kept |-> TRUE, inst |-> Snapshot']
  /\ UNCHANGED <<used, img>>
DropBy(n) == Drop(n) /\ UNCHANGED img /\ HoldersKeep
ImageBy ==
  /\ UNCHANGED <<registered, rec, used>>
  /\ Images' \subseteq Images \cup {Snapshot, NoImage}
  /\ HoldersKeep
Kind(p) ==
  \/ QuietBy(p) \/ ReleaseBy(p) \/ ImageBy
  \/ \E c \in Kinds : \E v : ClaimBy(p, c, v)
  \/ \E n \in Names : RegisterBy(p, n) \/ DropBy(n)

\* Every step of a request is of one of these kinds.
LEMMA CreateKinds ==
  ASSUME LInv, NEW p \in Procs, CreateStep(p)
  PROVE  Kind(p)
<1> DEFINE Others == \A q \in Procs \ {p} : pc'[q] = pc[q] /\ loc'[q] = loc[q]
<1>1. ASSUME NEW d \in Nodes, StartCreate(p, d) PROVE Kind(p)
  <2>1. pc[p] = "idle" /\ pc'[p] = "ssh" /\ Others
    BY <1>1, GotoTypes DEF StartCreate, CreatePC, LInv, TInv, TypeOK, Goto
  <2>2. \A k \in Kinds : ~Holds(p, k) /\ ~Holds(p, k)'
    BY <2>1 DEF Holds
  <2>3. UNCHANGED <<registered, rec, used, img, disk>>
    BY <1>1 DEF StartCreate, mem
  <2> QED BY <2>1, <2>2, <2>3 DEF Kind, QuietBy, OthersKeep, MigratePC
<1>2. ASSUME AllocSSH(p) PROVE Kind(p)
  <2>1. PICK i \in Tries(PoolLo["ssh"], PoolHi["ssh"]) :
          \/ Goto(p, "ssh", "svc") /\ TakePort(p, "ssh", i)
          \/ Return(p, "ssh") /\ ZeroPort("ssh", i) /\ UNCHANGED used
    BY <1>2 DEF AllocSSH
  <2>2. CASE Goto(p, "ssh", "svc") /\ TakePort(p, "ssh", i)
    <3>1. pc[p] = "ssh" /\ pc'[p] = "svc" /\ Others
      BY <2>2 DEF TakePort, Goto, LInv, TInv, TypeOK
    <3>2. /\ PortTry("ssh", i) \notin used["ssh"]
          /\ used' = [used EXCEPT !["ssh"] = @ \cup {PortTry("ssh", i)}]
          /\ UNCHANGED <<registered, rec, img, disk>>
      BY <2>2 DEF TakePort, FirstFreePort, Claim
    <3>3. loc'[p].port["ssh"] = PortTry("ssh", i)
          /\ \A k \in Kinds \ {"ssh"} : loc'[p].port[k] = loc[p].port[k]
      BY <2>2 DEF TakePort, LInv, TInv, TypeOK, Local, Kinds
    <3>4. ~Holds(p, "ssh") /\ Holds(p, "ssh")'
          /\ \A k \in Kinds \ {"ssh"} : Holds(p, k)' <=> Holds(p, k)
      BY <3>1 DEF Holds, Kinds
    <3>5. ClaimBy(p, "ssh", PortTry("ssh", i))
      BY <3>1, <3>2, <3>3, <3>4, KindsElems DEF ClaimBy, OthersKeep, MigratePC
    <3> QED BY <3>5, KindsElems DEF Kind
  <2>3. CASE Return(p, "ssh") /\ ZeroPort("ssh", i) /\ UNCHANGED used
    <3>1. pc[p] = "ssh" /\ pc'[p] = "idle" /\ Others
      BY <2>3 DEF Return, Goto, LInv, TInv, TypeOK
    <3>2. UNCHANGED <<registered, rec, used, img, disk>>
      BY <2>3 DEF ZeroPort
    <3>3. \A k \in Kinds : ~Holds(p, k) /\ ~Holds(p, k)'
      BY <3>1 DEF Holds
    <3> QED BY <3>1, <3>2, <3>3 DEF Kind, QuietBy, OthersKeep, MigratePC
  <2> QED BY <2>1, <2>2, <2>3
<1>3. ASSUME AllocSvc(p) PROVE Kind(p)
  <2>1. PICK i \in Tries(PoolLo["svc"], PoolHi["svc"]) :
          \/ Goto(p, "svc", "ip") /\ TakePort(p, "svc", i)
          \/ /\ Return(p, "svc") /\ ZeroPort("svc", i)
             /\ used' = [used EXCEPT !["ssh"] = @ \ {loc[p].port["ssh"]}]
    BY <1>3 DEF AllocSvc
  <2>2. CASE Goto(p, "svc", "ip") /\ TakePort(p, "svc", i)
    <3>1. pc[p] = "svc" /\ pc'[p] = "ip" /\ Others
      BY <2>2 DEF TakePort, Goto, LInv, TInv, TypeOK
    <3>2. /\ PortTry("svc", i) \notin used["svc"]
          /\ used' = [used EXCEPT !["svc"] = @ \cup {PortTry("svc", i)}]
          /\ UNCHANGED <<registered, rec, img, disk>>
      BY <2>2 DEF TakePort, FirstFreePort, Claim
    <3>3. loc'[p].port["svc"] = PortTry("svc", i)
          /\ \A k \in Kinds \ {"svc"} : loc'[p].port[k] = loc[p].port[k]
      BY <2>2 DEF TakePort, LInv, TInv, TypeOK, Local, Kinds
    <3>4. ~Holds(p, "svc") /\ Holds(p, "svc")'
          /\ \A k \in Kinds \ {"svc"} : Holds(p, k)' <=> Holds(p, k)
      BY <3>1 DEF Holds, Kinds
    <3>5. ClaimBy(p, "svc", PortTry("svc", i))
      BY <3>1, <3>2, <3>3, <3>4, KindsElems DEF ClaimBy, OthersKeep, MigratePC
    <3> QED BY <3>5, KindsElems DEF Kind
  <2>3. CASE /\ Return(p, "svc") /\ ZeroPort("svc", i)
             /\ used' = [used EXCEPT !["ssh"] = @ \ {loc[p].port["ssh"]}]
    <3>1. pc[p] = "svc" /\ pc'[p] = "idle" /\ Others
      BY <2>3 DEF Return, Goto, LInv, TInv, TypeOK
    <3>2. UNCHANGED <<registered, rec, img, disk>>
      BY <2>3 DEF ZeroPort
    <3>3. \A k \in Kinds : ~Holds(p, k)' /\ (Holds(p, k) <=> k = "ssh")
      BY <3>1 DEF Holds, Kinds
    <3>4. \A k \in Kinds : used'[k] = IF Holds(p, k)
                                      THEN used[k] \ {loc[p].port[k]}
                                      ELSE used[k]
      BY <2>3, <3>3 DEF LInv, TInv, TypeOK
    <3> QED BY <3>1, <3>2, <3>3, <3>4 DEF Kind, ReleaseBy, OthersKeep, MigratePC
  <2> QED BY <2>1, <2>2, <2>3
<1>4. ASSUME AllocIP(p) PROVE Kind(p)
  <2>1. pc[p] = "ip" /\ pc'[p] = "register" /\ Others
        /\ loc'[p].port = loc[p].port
    BY <1>4 DEF AllocIP, Goto, LInv, TInv, TypeOK, Local
  <2>2. UNCHANGED <<registered, rec, used, img, disk>>
    BY <1>4 DEF AllocIP
  <2>3. \A k \in Kinds : Holds(p, k) /\ Holds(p, k)'
    BY <2>1 DEF Holds
  <2> QED BY <2>1, <2>2, <2>3 DEF Kind, QuietBy, OthersKeep, MigratePC
<1>5. ASSUME PanicSSH(p) PROVE Kind(p)
  <2>1. pc[p] = "ssh" /\ pc'[p] = "idle" /\ Others
    BY <1>5 DEF PanicSSH, Return, Goto, LInv, TInv, TypeOK
  <2>2. UNCHANGED <<registered, rec, used, img, disk>>
    BY <1>5 DEF PanicSSH
  <2>3. \A k \in Kinds : ~Holds(p, k) /\ ~Holds(p, k)'
    BY <2>1 DEF Holds
  <2> QED BY <2>1, <2>2, <2>3 DEF Kind, QuietBy, OthersKeep, MigratePC
<1>6. ASSUME PanicSvc(p) PROVE Kind(p)
  <2>1. pc[p] = "svc" /\ pc'[p] = "panicSvc" /\ Others /\ loc' = loc
    BY <1>6 DEF PanicSvc, Goto, LInv, TInv, TypeOK
  <2>2. UNCHANGED <<registered, rec, used, img, disk>>
    BY <1>6 DEF PanicSvc
  <2>3. \A k \in Kinds : Holds(p, k)' <=> Holds(p, k)
    BY <2>1 DEF Holds
  <2> QED BY <2>1, <2>2, <2>3 DEF Kind, QuietBy, OthersKeep, MigratePC
<1>7. ASSUME PanicIp(p) PROVE Kind(p)
  <2>1. pc[p] = "ip" /\ pc'[p] = "panicIp" /\ Others /\ loc' = loc
    BY <1>7 DEF PanicIp, Goto, LInv, TInv, TypeOK
  <2>2. UNCHANGED <<registered, rec, used, img, disk>>
    BY <1>7 DEF PanicIp
  <2>3. \A k \in Kinds : Holds(p, k)' <=> Holds(p, k)
    BY <2>1 DEF Holds
  <2> QED BY <2>1, <2>2, <2>3 DEF Kind, QuietBy, OthersKeep, MigratePC
<1>8. ASSUME NEW n \in Names, Register(p, n) PROVE Kind(p)
  <2>1. CASE /\ Return(p, "register") /\ used' = Freed(loc[p].port)
             /\ UNCHANGED <<registered, rec, cursor, ipCursor, img, disk,
                            diskCursor>>
    <3>1. pc[p] = "register" /\ pc'[p] = "idle" /\ Others
      BY <2>1 DEF Return, Goto, LInv, TInv, TypeOK
    <3>2. \A k \in Kinds : ~Holds(p, k)' /\ Holds(p, k)
      BY <3>1 DEF Holds
    <3>3. \A k \in Kinds : used'[k] = used[k] \ {loc[p].port[k]}
      BY <2>1 DEF Freed
    <3> QED BY <2>1, <3>1, <3>2, <3>3 DEF Kind, ReleaseBy, OthersKeep, MigratePC
  <2>2. CASE /\ Fresh(n) /\ Goto(p, "register", "cursors")
             /\ registered' = registered \cup {n}
             /\ rec' = [rec EXCEPT ![n] =
                          [node |-> loc[p].node, ip |-> loc[p].ip,
                           port |-> loc[p].port]]
             /\ loc' = [loc EXCEPT ![p].name = n]
             /\ saveInstances
             /\ UNCHANGED <<used, cursor, ipCursor, img, diskCursor>>
    BY <2>2 DEF Kind, RegisterBy, saveInstances
  <2> QED BY <1>8, <2>1, <2>2 DEF Register
<1>9. ASSUME SaveCursors(p) PROVE Kind(p)
  <2>1. pc[p] = "cursors" /\ pc'[p] = "lxd" /\ Others
    BY <1>9 DEF SaveCursors, Goto, LInv, TInv, TypeOK
  <2>2. UNCHANGED <<registered, rec, used, img, disk>>
    BY <1>9 DEF SaveCursors, mem
  <2>3. \A k \in Kinds : ~Holds(p, k) /\ ~Holds(p, k)'
    BY <2>1 DEF Holds
  <2> QED BY <2>1, <2>2, <2>3 DEF Kind, QuietBy, OthersKeep, MigratePC
<1>10. ASSUME CreateOK(p) PROVE Kind(p)
  <2>1. pc[p] = "lxd" /\ pc'[p] = "write" /\ Others /\ loc' = loc
    BY <1>10 DEF CreateOK, Goto, LInv, TInv, TypeOK
  <2>2. UNCHANGED <<registered, rec, used, disk>>
    BY <1>10 DEF CreateOK, mem
  <2>3. \A q \in Procs, k \in Kinds : Holds(q, k)' <=> Holds(q, k)
    BY <2>1 DEF Holds
  <2>4. \A q \in Procs : img'[q] \in {img[q], Snapshot}
    BY <1>10 DEF CreateOK, LInv, TInv, TypeOK
  <2>5. Images' \subseteq Images \cup {Snapshot, NoImage}
    BY <2>2, <2>4 DEF Images
  <2>6. \A q \in Procs : pc'[q] \notin MigratePC
    BY <2>1 DEF LInv, LeaseInv, MigratePC
  <2> QED BY <2>1, <2>2, <2>3, <2>5, <2>6 DEF Kind, ImageBy, HoldersKeep
<1>11. ASSUME WriteInstances(p) PROVE Kind(p)
  <2>1. pc[p] = "write" /\ pc'[p] = "idle" /\ Others
    BY <1>11 DEF WriteInstances, Return, Goto, LInv, TInv, TypeOK
  <2>2. UNCHANGED <<registered, rec, used>> /\ disk'.inst = img[p]
    BY <1>11 DEF WriteInstances, mem
  <2>3. \A q \in Procs, k \in Kinds : /\ Holds(q, k)' <=> Holds(q, k)
                                      /\ Holds(q, k) => loc'[q] = loc[q]
    BY <2>1 DEF Holds
  <2>4. \A q \in Procs : img'[q] \in {img[q], NoImage}
    BY <1>11 DEF WriteInstances, LInv, TInv, TypeOK
  <2>5. Images' \subseteq Images \cup {Snapshot, NoImage}
    BY <2>2, <2>4 DEF Images
  <2>6. \A q \in Procs : pc'[q] \notin MigratePC
    BY <2>1 DEF LInv, LeaseInv, MigratePC
  <2> QED BY <2>2, <2>3, <2>5, <2>6 DEF Kind, ImageBy, HoldersKeep
<1>12. ASSUME CreateFail(p) PROVE Kind(p)
  <2>1. pc[p] = "lxd" /\ pc'[p] = "idle" /\ Others
    BY <1>12 DEF CreateFail, Return, Goto, LInv, TInv, TypeOK
  <2>2. \A q \in Procs, k \in Kinds : /\ Holds(q, k)' <=> Holds(q, k)
                                      /\ Holds(q, k) => loc'[q] = loc[q]
    BY <2>1 DEF Holds
  <2>3. \A q \in Procs : pc'[q] \notin MigratePC
    BY <2>1 DEF LInv, LeaseInv, MigratePC
  <2>4. Drop(loc[p].name) /\ UNCHANGED img
    BY <1>12 DEF CreateFail
  <2>5. CASE loc[p].name \in Names
    BY <2>2, <2>3, <2>4, <2>5 DEF Kind, DropBy, HoldersKeep
  <2>6. CASE loc[p].name \notin Names
    <3>1. UNCHANGED <<registered, used, rec, disk>>
      BY <2>4, <2>6 DEF Drop, LInv, TInv, TypeOK
    <3>2. Images' \subseteq Images \cup {Snapshot, NoImage}
      BY <2>4, <3>1 DEF Images
    <3> QED BY <2>2, <2>3, <3>1, <3>2 DEF Kind, ImageBy, HoldersKeep
  <2> QED BY <2>5, <2>6
<1> QED BY <1>1, <1>2, <1>3, <1>4, <1>5, <1>6, <1>7, <1>8, <1>9, <1>10,
           <1>11, <1>12 DEF CreateStep

LEMMA CreateLease ==
  ASSUME LInv, NEW p \in Procs, CreateStep(p)
  PROVE  LInv'
<1>1. TInv'
  BY CreateTypes DEF LInv
<1>2. CASE QuietBy(p)
  BY <1>1, <1>2, QuietStep DEF QuietBy, OthersKeep
<1>3. CASE \E c \in Kinds : \E v : ClaimBy(p, c, v)
  BY <1>1, <1>3, ClaimStep DEF ClaimBy, OthersKeep
<1>4. CASE ReleaseBy(p)
  BY <1>1, <1>4, ReleaseStep DEF ReleaseBy, OthersKeep
<1>5. CASE \E n \in Names : RegisterBy(p, n)
  BY <1>1, <1>5, RegisterStep DEF RegisterBy
<1>6. CASE \E n \in Names : DropBy(n)
  BY <1>1, <1>6, DropStep DEF DropBy, HoldersKeep
<1>7. CASE ImageBy
  BY <1>1, <1>7, ImageStep DEF ImageBy, HoldersKeep
<1> QED BY <1>2, <1>3, <1>4, <1>5, <1>6, <1>7, CreateKinds DEF Kind

LEMMA UnregisterLease ==
  ASSUME LInv, NEW n \in Names, unregisterInstance(n)
  PROVE  LInv'
<1>1. TInv'
  BY UnregisterTypes DEF LInv
<1>2. Drop(n) /\ UNCHANGED <<pc, loc, img>>
  BY DEF unregisterInstance
<1>3. \A q \in Procs, k \in Kinds : Holds(q, k)' <=> Holds(q, k)
  BY <1>2 DEF Holds
<1>4. \A q \in Procs : pc'[q] \notin MigratePC
  BY <1>2 DEF LInv, LeaseInv
<1> QED BY <1>1, <1>2, <1>3, <1>4, DropStep

LEMMA LeaseInductive == LInv /\ [LeaseNext]_vars => LInv'
<1> SUFFICES ASSUME LInv, [LeaseNext]_vars PROVE LInv'
  OBVIOUS
<1>1. CASE UNCHANGED vars
  <2>1. TInv'
    BY <1>1, StutterTypes DEF LInv
  <2>2. LeaseInv'
    BY <1>1 DEF vars, LInv, LeaseInv, PortsExclusive, PortLedger, HeldNotOwned,
                HeldOnce, ImagesExclusive, ImagesAgree, Images, Holds
  <2> QED BY <2>1, <2>2 DEF LInv
<1>2. CASE LeaseNext
  BY <1>2, CreateLease, UnregisterLease, RestartStep DEF LeaseNext
<1> QED BY <1>1, <1>2

\* The invariant the runs check holds for all values of the constants.
THEOREM LeaseInvariant == LeaseSpec => []LeaseInv
<1>1. LInv => LeaseInv
  BY DEF LInv
<1> QED BY InitLInv, LeaseInductive, <1>1, PTL DEF LeaseSpec

\* No two registered containers ever own the same external port.
THEOREM ExclusivePorts == LeaseSpec => []PortsExclusive
<1>1. LeaseInv => PortsExclusive
  BY DEF LeaseInv
<1> QED BY LeaseInvariant, <1>1, PTL

\* The used maps are exact: nothing is handed out twice, nothing leaks.
THEOREM ExactLedger == LeaseSpec => []PortLedger
<1>1. LeaseInv => PortLedger
  BY DEF LeaseInv
<1> QED BY LeaseInvariant, <1>1, PTL

\* Creation and deletion never write the ports of a name that stays.
LEMMA StepsBindPorts ==
  ASSUME LInv, LeaseNext
  PROVE  \A n \in registered \cap registered' : rec'[n].port = rec[n].port
<1>1. ASSUME NEW n \in Names \cup {NoName}, Drop(n)
      PROVE  \A m \in registered \cap registered' : rec'[m].port = rec[m].port
  <2>1. CASE n \in registered
    BY <1>1, <2>1 DEF Drop, LInv, TInv, TypeOK
  <2>2. CASE n \notin registered
    BY <1>1, <2>2 DEF Drop
  <2> QED BY <2>1, <2>2
<1>2. ASSUME NEW p \in Procs, CreateStep(p)
      PROVE  \A m \in registered \cap registered' : rec'[m].port = rec[m].port
  <2>1. CASE \E n \in Names : Register(p, n)
    <3>1. PICK n \in Names : Register(p, n)
      BY <2>1
    <3>2. CASE UNCHANGED <<registered, rec>>
      BY <3>2
    <3>3. CASE /\ Fresh(n)
               /\ rec' = [rec EXCEPT ![n] = [node |-> loc[p].node,
                                             ip |-> loc[p].ip,
                                             port |-> loc[p].port]]
      BY <3>3 DEF Fresh, LInv, TInv, TypeOK
    <3> QED BY <3>1, <3>2, <3>3 DEF Register
  <2>2. CASE CreateFail(p)
    <3>1. loc[p].name \in Names \cup {NoName}
      BY DEF LInv, TInv, TypeOK, Local
    <3> QED BY <2>2, <3>1, <1>1 DEF CreateFail
  <2>3. CASE UNCHANGED <<registered, rec>>
    BY <2>3
  <2>4. CASE AllocSSH(p) \/ AllocSvc(p)
    <3>1. UNCHANGED <<registered, rec>>
      BY <2>4 DEF AllocSSH, AllocSvc, TakePort, ZeroPort
    <3> QED BY <3>1
  <2> QED BY <1>2, <2>1, <2>2, <2>3, <2>4
      DEF CreateStep, StartCreate, AllocIP, PanicSSH, PanicSvc, PanicIp,
          SaveCursors, CreateOK, WriteInstances, mem
<1>3. ASSUME NEW n \in Names, unregisterInstance(n)
      PROVE  \A m \in registered \cap registered' : rec'[m].port = rec[m].port
  BY <1>1, <1>3 DEF unregisterInstance
<1> QED BY <1>2, <1>3, RestartStep DEF LeaseNext

\* The ports of a container do not change while it is registered.
THEOREM PortsStayBound == LeaseSpec => PortsBound
<1>1. LInv /\ [LeaseNext]_vars =>
        [\A n \in registered \cap registered' : rec'[n].port = rec[n].port]_vars
  BY StepsBindPorts
<1> QED BY InitLInv, LeaseInductive, <1>1, PTL DEF LeaseSpec, PortsBound

(***************************************************************************)
(* The leases of ports that creation, deletion and restarts implement      *)
(***************************************************************************)
\* A lease is of a port that a request holds or a registered record has.
LEMMA BarElems ==
  ASSUME NEW l
  PROVE  l \in leasesBar <=>
           \/ \E k \in Kinds, p \in Procs :
                 Holds(p, k) /\ l = LeaseOf(Request(p), k, loc[p].port[k])
           \/ \E k \in Kinds, n \in registered :
                 l = LeaseOf(Container(n), k, rec[n].port[k])
BY DEF leasesBar

LEMMA BarElemsPrime ==
  ASSUME NEW l
  PROVE  l \in leasesBar' <=>
           \/ \E k \in Kinds, p \in Procs :
                 /\ Holds(p, k)'
                 /\ l = LeaseOf(Request(p), k, loc'[p].port[k])
           \/ \E k \in Kinds, n \in registered' :
                 l = LeaseOf(Container(n), k, rec'[n].port[k])
BY DEF leasesBar, Request, Container, LeaseOf

LEMMA Holders ==
  /\ \A p, n : Request(p) # Container(n)
  /\ \A p, q : Request(p) = Request(q) => p = q
  /\ \A m, n : Container(m) = Container(n) => m = n
  /\ \A h, k, v : /\ LeaseOf(h, k, v).holder = h
                  /\ LeaseOf(h, k, v).port = <<k, v>>
  /\ \A g, h, j, k, u, v :
        LeaseOf(g, j, u) = LeaseOf(h, k, v) => g = h /\ j = k /\ u = v
BY DEF Request, Container, LeaseOf

\* The leases of a well-typed registry are leases of natural ports.
LEMMA BarLease ==
  ASSUME TypeOK
  PROVE  leasesBar \subseteq L!Lease
<1> SUFFICES ASSUME NEW l \in leasesBar PROVE l \in L!Lease
  OBVIOUS
<1>1. CASE \E k \in Kinds, p \in Procs :
             Holds(p, k) /\ l = LeaseOf(Request(p), k, loc[p].port[k])
  <2>1. PICK k \in Kinds, p \in Procs :
           l = LeaseOf(Request(p), k, loc[p].port[k])
    BY <1>1
  <2>2. loc[p].port[k] \in Nat
    BY DEF TypeOK, Local
  <2> QED BY <2>1, <2>2 DEF L!Lease, LeaseOf
<1>2. CASE \E k \in Kinds, n \in registered :
             l = LeaseOf(Container(n), k, rec[n].port[k])
  <2>1. PICK k \in Kinds, n \in registered :
           l = LeaseOf(Container(n), k, rec[n].port[k])
    BY <1>2
  <2>2. n \in Names /\ rec[n].port[k] \in Nat
    BY DEF TypeOK, Record
  <2> QED BY <2>1, <2>2 DEF L!Lease, LeaseOf
<1> QED BY <1>1, <1>2, BarElems

LEMMA BarLeasePrime ==
  ASSUME TypeOK'
  PROVE  leasesBar' \subseteq L!Lease
<1> SUFFICES ASSUME NEW l \in leasesBar' PROVE l \in L!Lease
  OBVIOUS
<1>1. CASE \E k \in Kinds, p \in Procs :
             /\ Holds(p, k)'
             /\ l = LeaseOf(Request(p), k, loc'[p].port[k])
  <2>1. PICK k \in Kinds, p \in Procs :
           l = LeaseOf(Request(p), k, loc'[p].port[k])
    BY <1>1
  <2>2. loc'[p].port[k] \in Nat
    BY DEF TypeOK, Local
  <2> QED BY <2>1, <2>2 DEF L!Lease, LeaseOf
<1>2. CASE \E k \in Kinds, n \in registered' :
             l = LeaseOf(Container(n), k, rec'[n].port[k])
  <2>1. PICK k \in Kinds, n \in registered' :
           l = LeaseOf(Container(n), k, rec'[n].port[k])
    BY <1>2
  <2>2. n \in Names /\ rec'[n].port[k] \in Nat
    BY DEF TypeOK, Record
  <2> QED BY <2>1, <2>2 DEF L!Lease, LeaseOf
<1> QED BY <1>1, <1>2, BarElemsPrime

\* A port outside the used map is free.
LEMMA UnusedIsFree ==
  ASSUME LInv, NEW c \in Kinds, NEW v, v \notin used[c]
  PROVE  L!Free(<<c, v>>)
<1> SUFFICES ASSUME NEW l \in leasesBar, l.port = <<c, v>> PROVE FALSE
  BY DEF L!Free
<1>1. ASSUME NEW k \in Kinds, NEW p \in Procs, Holds(p, k),
             l = LeaseOf(Request(p), k, loc[p].port[k])
      PROVE  FALSE
  <2>1. k = c /\ loc[p].port[k] = v
    BY <1>1, Holders
  <2>2. v \in used[c]
    BY <1>1, <2>1 DEF LInv, LeaseInv, PortLedger
  <2> QED BY <2>2
<1>2. ASSUME NEW k \in Kinds, NEW n \in registered,
             l = LeaseOf(Container(n), k, rec[n].port[k])
      PROVE  FALSE
  <2>1. k = c /\ rec[n].port[k] = v
    BY <1>2, Holders
  <2>2. v \in used[c]
    BY <2>1 DEF LInv, LeaseInv, PortLedger
  <2> QED BY <2>2
<1> QED BY <1>1, <1>2, BarElems

\* When nobody's ports change, no lease does.
LEMMA KeepBar ==
  ASSUME LInv, LInv', UNCHANGED <<registered, rec>>,
         \A q \in Procs, k \in Kinds : Holds(q, k)' <=> Holds(q, k),
         \A q \in Procs, k \in Kinds :
            Holds(q, k) => loc'[q].port[k] = loc[q].port[k]
  PROVE  leasesBar' = leasesBar
<1>1. \A l : l \in leasesBar' <=> l \in leasesBar
  BY BarElems, BarElemsPrime
<1> QED BY <1>1

LEMMA ClaimGrants ==
  ASSUME LInv, LInv', NEW p \in Procs, NEW c \in Kinds, NEW v,
         ClaimBy(p, c, v)
  PROVE  L!Grant(Request(p))
<1> DEFINE new == LeaseOf(Request(p), c, v)
<1>1. \A q \in Procs \ {p}, k \in Kinds : Holds(q, k)' <=> Holds(q, k)
  BY DEF ClaimBy, OthersKeep, Holds
<1>2. \A l : l \in leasesBar' <=> l \in leasesBar \/ l = new
  BY <1>1, BarElems, BarElemsPrime DEF ClaimBy, OthersKeep
<1>3. L!Free(<<c, v>>)
  BY UnusedIsFree DEF ClaimBy
<1>4. leasesBar' \subseteq L!Lease
  BY BarLeasePrime DEF LInv, TInv
<1>5. new.holder = Request(p) /\ new.port = <<c, v>>
  BY Holders
<1> HIDE DEF new
<1> QED BY <1>2, <1>3, <1>4, <1>5 DEF L!Grant

LEMMA ReleaseEnds ==
  ASSUME LInv, LInv', NEW p \in Procs, ReleaseBy(p)
  PROVE  L!End(Request(p))
<1>1. \A q \in Procs \ {p}, k \in Kinds : Holds(q, k)' <=> Holds(q, k)
  BY DEF ReleaseBy, OthersKeep, Holds
<1>2. ASSUME NEW l
      PROVE  l \in leasesBar' <=> l \in leasesBar /\ l.holder # Request(p)
  BY <1>1, BarElems, BarElemsPrime, Holders DEF ReleaseBy, OthersKeep
<1> QED BY <1>2 DEF L!End, L!LeasesOf

LEMMA RegisterHandsOver ==
  ASSUME LInv, LInv', NEW p \in Procs, NEW n \in Names, RegisterBy(p, n)
  PROVE  L!HandOver(Request(p), Container(n))
<1>1. pc[p] = "register" /\ pc'[p] = "cursors"
      /\ \A q \in Procs \ {p} : pc'[q] = pc[q] /\ loc'[q] = loc[q]
  BY GotoTypes DEF RegisterBy, CreatePC, LInv, TInv, TypeOK
<1>2. \A q \in Procs \ {p}, k \in Kinds : Holds(q, k)' <=> Holds(q, k)
  BY <1>1 DEF Holds
<1>3. \A k \in Kinds : Holds(p, k) /\ ~Holds(p, k)'
  BY <1>1 DEF Holds
<1>4. /\ rec'[n].port = loc[p].port /\ n \notin registered
      /\ registered' = registered \cup {n}
      /\ \A m \in registered : rec'[m] = rec[m]
  BY DEF RegisterBy, Fresh, LInv, TInv, TypeOK
<1>5. L!LeasesOf(Container(n)) = {}
  BY <1>4, BarElems, Holders DEF L!LeasesOf
<1>6. ASSUME NEW k \in Kinds
      PROVE LeaseOf(Request(p), k, loc[p].port[k]) \in L!LeasesOf(Request(p))
  BY <1>3, BarElems, Holders DEF L!LeasesOf
<1>7. ASSUME NEW l \in L!LeasesOf(Request(p))
      PROVE  \E k \in Kinds : l = LeaseOf(Request(p), k, loc[p].port[k])
  BY BarElems, Holders DEF L!LeasesOf
<1> DEFINE given == {[port |-> l.port, holder |-> Container(n)] :
                       l \in L!LeasesOf(Request(p))}
<1>8. ASSUME NEW l
      PROVE  l \in given <=>
               \E k \in Kinds : l = LeaseOf(Container(n), k, loc[p].port[k])
  <2>1. ASSUME NEW k \in Kinds
        PROVE  [port |-> LeaseOf(Request(p), k, loc[p].port[k]).port,
                holder |-> Container(n)]
                 = LeaseOf(Container(n), k, loc[p].port[k])
    BY DEF LeaseOf
  <2>2. ASSUME l \in given
        PROVE  \E k \in Kinds : l = LeaseOf(Container(n), k, loc[p].port[k])
    <3>1. PICK m \in L!LeasesOf(Request(p)) :
              l = [port |-> m.port, holder |-> Container(n)]
      BY <2>2
    <3>2. PICK k \in Kinds : m = LeaseOf(Request(p), k, loc[p].port[k])
      BY <1>7
    <3> QED BY <3>1, <3>2, <2>1
  <2>3. ASSUME NEW k \in Kinds, l = LeaseOf(Container(n), k, loc[p].port[k])
        PROVE  l \in given
    BY <1>6, <2>1, <2>3
  <2> QED BY <2>2, <2>3
<1>9. ASSUME NEW l
      PROVE  l \in leasesBar \ L!LeasesOf(Request(p)) <=>
               \/ \E k \in Kinds, q \in Procs \ {p} :
                     Holds(q, k) /\ l = LeaseOf(Request(q), k, loc[q].port[k])
               \/ \E k \in Kinds, m \in registered :
                     l = LeaseOf(Container(m), k, rec[m].port[k])
  BY BarElems, Holders DEF L!LeasesOf
<1>10. ASSUME NEW l
       PROVE  l \in leasesBar' <=>
                \/ \E k \in Kinds, q \in Procs \ {p} :
                      Holds(q, k) /\ l = LeaseOf(Request(q), k, loc[q].port[k])
                \/ \E k \in Kinds, m \in registered :
                      l = LeaseOf(Container(m), k, rec[m].port[k])
                \/ \E k \in Kinds : l = LeaseOf(Container(n), k, loc[p].port[k])
  BY <1>1, <1>2, <1>3, <1>4, BarElemsPrime
<1> HIDE DEF given
<1>11. leasesBar' = (leasesBar \ L!LeasesOf(Request(p))) \cup given
  BY <1>8, <1>9, <1>10
<1> QED BY <1>5, <1>11 DEF L!HandOver, given

LEMMA DropEnds ==
  ASSUME LInv, LInv', NEW n \in Names, DropBy(n)
  PROVE  L!End(Container(n))
<1>1. CASE n \in registered
  <2>1. /\ registered' = registered \ {n}
        /\ \A m \in registered' : rec'[m] = rec[m]
    BY <1>1 DEF DropBy, Drop, LInv, TInv, TypeOK
  <2>2. ASSUME NEW l
        PROVE  l \in leasesBar' <=> l \in leasesBar /\ l.holder # Container(n)
    BY <2>1, BarElems, BarElemsPrime, Holders DEF DropBy, HoldersKeep
  <2> QED BY <2>2 DEF L!End, L!LeasesOf
<1>2. CASE n \notin registered
  <2>1. leasesBar' = leasesBar
    BY <1>2, KeepBar DEF DropBy, Drop, HoldersKeep
  <2>2. L!LeasesOf(Container(n)) = {}
    BY <1>2, BarElems, Holders DEF L!LeasesOf
  <2> QED BY <2>1, <2>2 DEF L!End
<1> QED BY <1>1, <1>2

LEMMA RestartRecovers ==
  ASSUME LInv, LInv', Restart
  PROVE  L!Recover
<1>1. \A q \in Procs, k \in Kinds : ~Holds(q, k)'
  BY DEF Restart, Holds
<1>2. \A l : l \in leasesBar' <=>
               \E k \in Kinds, n \in registered' :
                  l = LeaseOf(Container(n), k, rec'[n].port[k])
  BY <1>1, BarElemsPrime
<1>3. leasesBar' \subseteq [port : Kinds \X Nat,
                            holder : {Container(n) : n \in Names}]
  <2>1. leasesBar' \subseteq L!Lease
    BY BarLeasePrime DEF LInv, TInv
  <2>2. \A l \in leasesBar' : l.holder \in {Container(n) : n \in Names}
    BY <1>2, Holders DEF LInv, TInv, TypeOK
  <2> QED BY <2>1, <2>2 DEF L!Lease
<1>4. L!Exclusive'
  <2> SUFFICES ASSUME NEW l \in leasesBar', NEW m \in leasesBar',
                      l.port = m.port
               PROVE  l = m
    BY DEF L!Exclusive
  <2>1. PICK k \in Kinds, x \in registered' :
           l = LeaseOf(Container(x), k, rec'[x].port[k])
    BY <1>2
  <2>2. PICK j \in Kinds, y \in registered' :
           m = LeaseOf(Container(y), j, rec'[y].port[j])
    BY <1>2
  <2>3. k = j /\ rec'[x].port[k] = rec'[y].port[k]
    BY <2>1, <2>2, Holders
  <2>4. x = y
    BY <2>3 DEF LInv, LeaseInv, PortsExclusive
  <2> QED BY <2>1, <2>2, <2>3, <2>4
<1>5. ASSUME NEW n \in Names,
             L!LeasesOf(Container(n)) # {}, L!LeasesOf(Container(n))' # {}
      PROVE  L!LeasesOf(Container(n))' = L!LeasesOf(Container(n))
  <2>1. n \in registered
    BY <1>5, BarElems, Holders DEF L!LeasesOf
  <2>2. n \in registered'
    BY <1>2, <1>5, Holders DEF L!LeasesOf
  <2>3. rec'[n].port = rec[n].port
    BY <2>1, <2>2, RestartStep
  <2>4. \A l : l \in leasesBar' /\ l.holder = Container(n) <=>
                 \E k \in Kinds : l = LeaseOf(Container(n), k, rec[n].port[k])
    BY <1>2, <2>2, <2>3, Holders
  <2>5. \A l : l \in leasesBar /\ l.holder = Container(n) <=>
                 \E k \in Kinds : l = LeaseOf(Container(n), k, rec[n].port[k])
    BY <2>1, BarElems, Holders
  <2> QED BY <2>4, <2>5 DEF L!LeasesOf
<1> QED BY <1>3, <1>4, <1>5 DEF L!Recover

LEMMA CreateImplements ==
  ASSUME LInv, LInv', NEW p \in Procs, CreateStep(p)
  PROVE  L!Next \/ UNCHANGED leasesBar
<1>1. CASE QuietBy(p)
  <2>1. \A q \in Procs, k \in Kinds :
           /\ Holds(q, k)' <=> Holds(q, k)
           /\ Holds(q, k) => loc'[q].port[k] = loc[q].port[k]
    BY <1>1 DEF QuietBy, OthersKeep, Holds
  <2> QED BY <1>1, <2>1, KeepBar DEF QuietBy
<1>2. CASE ReleaseBy(p)
  BY <1>2, ReleaseEnds DEF L!Next
<1>3. CASE ImageBy
  BY <1>3, KeepBar DEF ImageBy, HoldersKeep
<1>4. CASE \E c \in Kinds : \E v : ClaimBy(p, c, v)
  BY <1>4, ClaimGrants DEF L!Next
<1>5. CASE \E n \in Names : RegisterBy(p, n)
  BY <1>5, RegisterHandsOver DEF L!Next
<1>6. CASE \E n \in Names : DropBy(n)
  BY <1>6, DropEnds DEF L!Next
<1> QED BY <1>1, <1>2, <1>3, <1>4, <1>5, <1>6, CreateKinds DEF Kind

LEMMA StepImplements ==
  LInv /\ LInv' /\ [LeaseNext]_vars => [L!Next]_leasesBar
<1> SUFFICES ASSUME LInv, LInv', [LeaseNext]_vars
             PROVE  L!Next \/ UNCHANGED leasesBar
  OBVIOUS
<1>1. CASE UNCHANGED vars
  <2>1. \A q \in Procs, k \in Kinds : Holds(q, k)' <=> Holds(q, k)
    BY <1>1 DEF vars, Holds
  <2> QED BY <1>1, <2>1, KeepBar DEF vars
<1>2. ASSUME NEW p \in Procs, CreateStep(p)
      PROVE  L!Next \/ UNCHANGED leasesBar
  BY <1>2, CreateImplements
<1>3. ASSUME NEW n \in Names, unregisterInstance(n) PROVE L!Next
  <2>1. DropBy(n)
    <3>1. Drop(n) /\ UNCHANGED <<pc, loc, img>>
      BY <1>3 DEF unregisterInstance
    <3>2. \A q \in Procs, k \in Kinds : Holds(q, k)' <=> Holds(q, k)
      BY <3>1 DEF Holds
    <3> QED BY <3>1, <3>2 DEF DropBy, HoldersKeep, LInv, LeaseInv
  <2> QED BY <2>1, DropEnds DEF L!Next
<1>4. CASE Restart
  BY <1>4, RestartRecovers DEF L!Next
<1> QED BY <1>1, <1>2, <1>3, <1>4 DEF LeaseNext

LEMMA InitImplements == Init => L!Init
<1> SUFFICES ASSUME Init PROVE leasesBar = {}
  BY DEF L!Init
<1>1. registered = {} /\ \A p \in Procs : pc[p] = "idle"
  BY DEF Init
<1>2. \A l : l \notin leasesBar
  BY <1>1, BarElems DEF Holds
<1> QED BY <1>2

\* The registry keeps the promise of Leases in every interleaving of creations,
\* deletions, failures, panics and restarts.
THEOREM RegistryImplementsLeases == LeaseSpec => ImplementsLeases
<1> QED BY InitLInv, LeaseInductive, InitImplements, StepImplements, PTL
        DEF LeaseSpec, ImplementsLeases, L!Spec

\* In Leases itself no port ever has two holders.
THEOREM LeasesExclusive == ImplementsLeases => []L!Exclusive
<1>1. L!Init => L!Exclusive
  BY DEF L!Init, L!Exclusive
<1>2. L!Exclusive /\ [L!Next]_leasesBar => L!Exclusive'
  <2> SUFFICES ASSUME L!Exclusive, [L!Next]_leasesBar PROVE L!Exclusive'
    OBVIOUS
  <2>1. CASE UNCHANGED leasesBar
    BY <2>1 DEF L!Exclusive
  <2>2. ASSUME NEW r, L!Grant(r) PROVE L!Exclusive'
    BY <2>2 DEF L!Grant, L!Free, L!Exclusive, L!Lease
  <2>3. ASSUME NEW r, NEW c, L!HandOver(r, c) PROVE L!Exclusive'
    BY <2>3 DEF L!HandOver, L!LeasesOf, L!Exclusive
  <2>4. ASSUME NEW h, L!End(h) PROVE L!Exclusive'
    BY <2>4 DEF L!End, L!Exclusive
  <2>5. CASE L!Recover
    BY <2>5 DEF L!Recover
  <2> QED BY <2>1, <2>2, <2>3, <2>4, <2>5 DEF L!Next
<1> QED BY <1>1, <1>2, PTL DEF ImplementsLeases, L!Spec

(***************************************************************************)
(* Requests that do not overlap, migrations included                       *)
(***************************************************************************)
\* A request has a port that it has not yet handed to a record.
Claims(p, k) ==
  \/ Holds(p, k)
  \/ pc[p] \in {"mIp", "mInstall", "mLxd", "mFinish"}
  \/ k = "ssh" /\ pc[p] = "mSvc"
\* The old ports of a migrated container are given back before it has new ones.
Moving(p, n) == loc[p].name = n /\ pc[p] \in {"mSsh", "mSvc", "mIp", "mInstall"}
OwnedOrMoving ==
  \A k \in Kinds, n \in registered :
     rec[n].port[k] \in used[k] \/ \E p \in Procs : Moving(p, n)
Unnamed(p) ==
  pc[p] \in {"ssh", "svc", "ip", "register", "panicSvc", "panicIp"} =>
     loc[p].name = NoName
ClaimsOwn(p) ==
  \A k \in Kinds : Claims(p, k) =>
     /\ \A n \in registered : n # loc[p].name => rec[n].port[k] # loc[p].port[k]
     /\ loc[p].name \in registered \cup {NoName} => loc[p].port[k] \in used[k]
\* The ports that a migration gives back, and those it may take back, are no
\* other container's.
MigratesOwn(p) ==
  pc[p] \in MigratePC =>
     \A k \in Kinds, n \in registered : n # loc[p].name =>
        /\ rec[n].port[k] # rec[loc[p].name].port[k]
        /\ pc[p] = "mLxd" => rec[n].port[k] # loc[p].orig[k]
Installed(p) ==
  pc[p] \in {"mLxd", "mFinish"} => rec[loc[p].name].port = loc[p].port
\* The address that a request has chosen is no other container's.
ChosenIp(p) ==
  pc[p] \in {"register", "mInstall", "mLxd", "mFinish"} =>
     \A n \in registered : n # loc[p].name =>
        ~(rec[n].node = loc[p].node /\ rec[n].ip = loc[p].ip)
Fits(p) ==
  Unnamed(p) /\ ClaimsOwn(p) /\ MigratesOwn(p) /\ Installed(p) /\ ChosenIp(p)
ImageIps(I) ==
  \A m, n \in DOMAIN I : m # n /\ I[m].node = I[n].node => I[m].ip # I[n].ip
ImagePorts(I) ==
  \A k \in Kinds, m, n \in DOMAIN I : m # n => I[m].port[k] # I[n].port[k]
Exclusive == PortsExclusive /\ IpsExclusive
ImagesOK == \A I \in Images : ImagePorts(I) /\ ImageIps(I)
SInv ==
  /\ TInv /\ Exclusive /\ ImagesOK /\ OwnedOrMoving
  /\ \A p \in Procs : Fits(p)

OneRequest == \A p, q \in Procs : p = q

LEMMA SnapshotOK ==
  ASSUME Exclusive
  PROVE  ImagePorts(Snapshot) /\ ImageIps(Snapshot)
BY DEF Exclusive, PortsExclusive, IpsExclusive, ImagePorts, ImageIps, Snapshot

LEMMA SnapshotOKPrime ==
  ASSUME Exclusive'
  PROVE  ImagePorts(Snapshot') /\ ImageIps(Snapshot')
BY DEF Exclusive, PortsExclusive, IpsExclusive, ImagePorts, ImageIps, Snapshot

LEMMA NoImageOK == ImagePorts(NoImage) /\ ImageIps(NoImage)
<1>1. DOMAIN NoImage = {}
  BY DEF NoImage
<1>2. QED  BY <1>1 DEF ImagePorts, ImageIps

\* The images are old ones, or of the registry before or after the step.
LEMMA ImagesKeep ==
  ASSUME ImagesOK, Exclusive, Exclusive',
         Images' \subseteq Images \cup {NoImage, Snapshot, Snapshot'}
  PROVE  ImagesOK'
<1>1. \A I \in Images' : ImagePorts(I) /\ ImageIps(I)
  BY SnapshotOK, SnapshotOKPrime, NoImageOK DEF ImagesOK
<1>2. QED  BY <1>1 DEF ImagesOK

\* A step that leaves the records and the used ports alone.
LEMMA QuietSerial ==
  ASSUME OneRequest, SInv, TInv', NEW p \in Procs, Fits(p)',
         UNCHANGED <<registered, rec, used>>,
         Images' \subseteq Images \cup {NoImage, Snapshot, Snapshot'},
         \A n \in registered : Moving(p, n) => Moving(p, n)'
  PROVE  SInv'
<1>1. Exclusive'
  BY DEF SInv, Exclusive, PortsExclusive, IpsExclusive
<1>2. ImagesOK'
  BY <1>1, ImagesKeep DEF SInv
<1>3. \A q \in Procs : q = p
  BY DEF OneRequest
<1>4. OwnedOrMoving'
  BY <1>3 DEF SInv, OwnedOrMoving
<1>5. \A q \in Procs : Fits(q)'
  <2>1. PICK r \in Procs : r = p /\ Fits(r)'
    OBVIOUS
  <2>2. QED  BY <1>3
<1>6. QED  BY <1>1, <1>2, <1>4, <1>5 DEF SInv

LEMMA SameImages ==
  ASSUME UNCHANGED <<disk, img>>
  PROVE  Images' \subseteq Images \cup {NoImage, Snapshot, Snapshot'}
BY DEF Images

\* A port is taken that is not in the used map.
LEMMA TakeSerial ==
  ASSUME OneRequest, SInv, TInv', NEW p \in Procs, NEW k \in Kinds,
         NEW i \in Tries(PoolLo[k], PoolHi[k]), TakePort(p, k, i),
         NEW from, NEW to, Goto(p, from, to),
         \/ from = "ssh" /\ k = "ssh" /\ to = "svc"
         \/ from = "svc" /\ k = "svc" /\ to = "ip"
         \/ from = "mSsh" /\ k = "ssh" /\ to = "mSvc"
         \/ from = "mSvc" /\ k = "svc" /\ to = "mIp"
  PROVE  SInv'
<1> DEFINE v == PortTry(k, i)
<1>1. /\ v \notin used[k] /\ UNCHANGED <<registered, rec, disk, img>>
      /\ used' = [used EXCEPT ![k] = @ \cup {v}]
      /\ loc' = [loc EXCEPT ![p].port[k] = v]
  BY DEF TakePort, FirstFreePort, Claim
<1> HIDE DEF v
<1>2. TypeOK /\ loc[p] \in Local /\ pc[p] = from /\ pc'[p] = to
  BY DEF SInv, TInv, TypeOK, Goto
<1>3. /\ used'[k] = used[k] \cup {v}
      /\ \A c \in Kinds : used[c] \subseteq used'[c]
  BY <1>1, <1>2 DEF TypeOK
<1>4. /\ loc'[p].name = loc[p].name /\ loc'[p].port[k] = v
      /\ \A c \in Kinds : c # k => loc'[p].port[c] = loc[p].port[c]
      /\ loc'[p].node = loc[p].node /\ loc'[p].ip = loc[p].ip
      /\ loc'[p].orig = loc[p].orig
  BY <1>1, <1>2 DEF TypeOK, Local
<1>5. \A q \in Procs : q = p
  BY DEF OneRequest
<1>6. \A n \in registered : n # loc[p].name => rec[n].port[k] # v
  <2> SUFFICES ASSUME NEW n \in registered, n # loc[p].name
               PROVE  rec[n].port[k] \in used[k]
    BY <1>1
  <2>1. QED  BY <1>5 DEF SInv, OwnedOrMoving, Moving
<1>7. \A c \in Kinds : Claims(p, c)' => Claims(p, c) \/ c = k
  BY <1>2, KindsElems DEF Claims, Holds
<1>8. Exclusive'
  BY <1>1 DEF SInv, Exclusive, PortsExclusive, IpsExclusive
<1>9. ImagesOK'
  BY <1>1, <1>8, SameImages, ImagesKeep DEF SInv
<1>10. \A n \in registered : Moving(p, n) => Moving(p, n)'
  BY <1>2, <1>4 DEF Moving
<1>11. OwnedOrMoving'
  BY <1>1, <1>3, <1>5, <1>10 DEF SInv, OwnedOrMoving
<1>12. Fits(p)
  BY DEF SInv
<1>13. ClaimsOwn(p)'
  <2> SUFFICES ASSUME NEW c \in Kinds, Claims(p, c)'
               PROVE  /\ \A n \in registered : n # loc[p].name =>
                            rec[n].port[c] # loc'[p].port[c]
                      /\ loc[p].name \in registered \cup {NoName}
                           => loc'[p].port[c] \in used'[c]
    BY <1>1, <1>4 DEF ClaimsOwn
  <2>1. CASE c = k
    BY <1>3, <1>4, <1>6, <2>1
  <2>2. CASE c # k
    BY <1>3, <1>4, <1>7, <1>12, <2>2 DEF Fits, ClaimsOwn
  <2>3. QED  BY <2>1, <2>2
<1>14. Unnamed(p)' /\ MigratesOwn(p)' /\ Installed(p)' /\ ChosenIp(p)'
  BY <1>1, <1>2, <1>4, <1>12
     DEF Fits, Unnamed, MigratesOwn, Installed, ChosenIp, MigratePC
<1>15. Fits(p)'
  BY <1>13, <1>14 DEF Fits
<1>16. \A q \in Procs : Fits(q)'
  <2>1. PICK r \in Procs : r = p /\ Fits(r)'
    BY <1>15
  <2>2. QED  BY <1>5, <2>1
<1>17. QED  BY <1>8, <1>9, <1>11, <1>16 DEF SInv

\* Where nothing is claimed, chosen or moved.
Nowhere == {"idle", "cursors", "lxd", "write"}
LEMMA NowhereFits ==
  ASSUME NEW p, pc'[p] \in Nowhere
  PROVE  Fits(p)'
BY DEF Fits, Unnamed, ClaimsOwn, Claims, Holds, MigratesOwn, Installed,
       ChosenIp, MigratePC, Nowhere


\* What is left to show of a step of a request: the records, and its own claims.
LEMMA OwnStep ==
  ASSUME OneRequest, SInv, TInv', NEW p \in Procs, Fits(p)', Exclusive',
         OwnedOrMoving', Images' \subseteq Images \cup {NoImage, Snapshot, Snapshot'}
  PROVE  SInv'
<1>1. ImagesOK'
  BY ImagesKeep DEF SInv
<1>2. \A q \in Procs : q = p
  BY DEF OneRequest
<1>3. \A q \in Procs : Fits(q)'
  <2>1. PICK r \in Procs : r = p /\ Fits(r)'
    OBVIOUS
  <2>2. QED  BY <1>2, <2>1
<1>4. QED  BY <1>1, <1>3 DEF SInv

\* An image is saved to instances.json, or held by a request.
LEMMA NewImages ==
  ASSUME NEW p \in Procs,
         disk' = disk \/ disk'.inst \in Images \cup {Snapshot, Snapshot'},
         \/ img' = img
         \/ \E I \in {NoImage, Snapshot} : img' = [img EXCEPT ![p] = I],
         TypeOK
  PROVE  Images' \subseteq Images \cup {NoImage, Snapshot, Snapshot'}
<1>1. disk'.inst \in Images \cup {NoImage, Snapshot, Snapshot'}
  BY DEF Images
<1>2. ASSUME NEW q \in Procs
      PROVE  img'[q] \in Images \cup {NoImage, Snapshot, Snapshot'}
  <2>1. img'[q] = img[q] \/ img'[q] \in {NoImage, Snapshot}
    BY DEF TypeOK
  <2>2. QED  BY <2>1 DEF Images
<1>3. QED  BY <1>1, <1>2 DEF Images

\* The first step of a request.
LEMMA StartSerial ==
  ASSUME OneRequest, SInv, TInv', NEW p \in Procs,
         \/ \E d \in Nodes : StartCreate(p, d)
         \/ \E n \in Names, d \in Nodes : StartMigrate(p, n, d)
  PROVE  SInv'
<1>1. UNCHANGED <<mem, img, disk>> /\ pc[p] = "idle"
  BY DEF StartCreate, StartMigrate, Goto
<1>2. Images' \subseteq Images \cup {NoImage, Snapshot, Snapshot'}
  BY <1>1, SameImages
<1>3. \A n \in registered : ~Moving(p, n)
  BY <1>1 DEF Moving
<1>4. Fits(p)'
  <2>1. CASE \E d \in Nodes : StartCreate(p, d)
    <3>1. pc'[p] = "ssh" /\ loc'[p].name = NoName
      BY <2>1 DEF StartCreate, Goto, Idle, SInv, TInv, TypeOK
    <3>2. QED  BY <3>1 DEF Fits, Unnamed, ClaimsOwn, Claims, Holds, MigratesOwn,
                         Installed, ChosenIp, MigratePC
  <2>2. CASE \E n \in Names, d \in Nodes : StartMigrate(p, n, d)
    <3>1. PICK n \in registered, d \in Nodes : StartMigrate(p, n, d)
      BY <2>2 DEF StartMigrate
    <3>2. pc'[p] = "mMark" /\ loc'[p].name = n
      BY <3>1 DEF StartMigrate, Goto, Idle, SInv, TInv, TypeOK
    <3>3. \A k \in Kinds, m \in registered : m # n => rec[m].port[k] # rec[n].port[k]
      BY DEF SInv, Exclusive, PortsExclusive
    <3>4. UNCHANGED <<registered, rec>>
      BY <1>1 DEF mem
    <3>5. QED  BY <3>2, <3>3, <3>4 DEF Fits, Unnamed, ClaimsOwn, Claims, Holds,
                         MigratesOwn, Installed, ChosenIp, MigratePC
  <2>3. QED  BY <2>1, <2>2
<1>5. QED  BY <1>1, <1>2, <1>3, <1>4, QuietSerial DEF mem

\* The pools of external ports are exhausted, or a cursor is at zero.
LEMMA NoSSHSerial ==
  ASSUME OneRequest, SInv, TInv', NEW p \in Procs,
         \/ PanicSSH(p)
         \/ \E i \in Tries(PoolLo["ssh"], PoolHi["ssh"]) :
               Return(p, "ssh") /\ ZeroPort("ssh", i) /\ UNCHANGED used
  PROVE  SInv'
<1>1. UNCHANGED <<registered, rec, used, img, disk>> /\ Return(p, "ssh")
  BY DEF PanicSSH, ZeroPort
<1>2. pc[p] = "ssh" /\ pc'[p] = "idle"
  BY <1>1 DEF Return, Goto, SInv, TInv, TypeOK
<1>3. Fits(p)'
  BY <1>2, NowhereFits DEF Nowhere
<1>4. \A n \in registered : ~Moving(p, n)
  BY <1>2 DEF Moving
<1>5. QED  BY <1>1, <1>3, <1>4, SameImages, QuietSerial

LEMMA PanicSerial ==
  ASSUME OneRequest, SInv, TInv', NEW p \in Procs, PanicSvc(p) \/ PanicIp(p)
  PROVE  SInv'
<1>1. UNCHANGED <<registered, rec, used, img, disk, loc>>
  BY DEF PanicSvc, PanicIp
<1>2. \/ pc[p] = "svc" /\ pc'[p] = "panicSvc"
      \/ pc[p] = "ip" /\ pc'[p] = "panicIp"
  BY DEF PanicSvc, PanicIp, Goto, SInv, TInv, TypeOK
<1>3. Fits(p)
  BY DEF SInv
<1>4. \A k \in Kinds : Claims(p, k)' => Claims(p, k)
  BY <1>2 DEF Claims, Holds
<1>5. Unnamed(p)' /\ MigratesOwn(p)' /\ Installed(p)' /\ ChosenIp(p)'
  BY <1>1, <1>2, <1>3
     DEF Fits, Unnamed, MigratesOwn, Installed, ChosenIp, MigratePC
<1>6. ClaimsOwn(p)'
  BY <1>1, <1>3, <1>4 DEF Fits, ClaimsOwn
<1>7. \A n \in registered : ~Moving(p, n)
  BY <1>2 DEF Moving
<1>8. QED  BY <1>1, <1>5, <1>6, <1>7, SameImages, QuietSerial DEF Fits

\* Port 0 for the service: the SSH port goes back.
LEMMA NoSvcSerial ==
  ASSUME OneRequest, SInv, TInv', NEW p \in Procs,
         NEW i \in Tries(PoolLo["svc"], PoolHi["svc"]),
         Return(p, "svc"), ZeroPort("svc", i),
         used' = [used EXCEPT !["ssh"] = @ \ {loc[p].port["ssh"]}]
  PROVE  SInv'
<1>1. UNCHANGED <<registered, rec, img, disk>>
  BY DEF ZeroPort
<1>2. pc[p] = "svc" /\ pc'[p] = "idle"
  BY DEF Return, Goto, SInv, TInv, TypeOK
<1>3. Fits(p)'
  BY <1>2, NowhereFits DEF Nowhere
<1>4. Exclusive'
  BY <1>1 DEF SInv, Exclusive, PortsExclusive, IpsExclusive
<1>5. loc[p].name = NoName /\ Claims(p, "ssh")
  BY <1>2 DEF SInv, Fits, Unnamed, Claims, Holds
<1>6. \A n \in registered : rec[n].port["ssh"] # loc[p].port["ssh"]
  BY <1>5, NullAssumption, KindsElems
     DEF SInv, TInv, TypeOK, Fits, ClaimsOwn
<1>7. \A k \in Kinds, n \in registered : rec[n].port[k] \in used[k]
  BY <1>2 DEF SInv, OwnedOrMoving, Moving, OneRequest
<1>8. OwnedOrMoving'
  BY <1>1, <1>6, <1>7, KindsElems DEF OwnedOrMoving, SInv, TInv, TypeOK
<1>9. QED  BY <1>1, <1>3, <1>4, <1>8, SameImages, OwnStep

\* An address is chosen that no registered container of the node has.
LEMMA IpSerial ==
  ASSUME OneRequest, SInv, TInv', NEW p \in Procs, AllocIP(p) \/ MigrateIp(p)
  PROVE  SInv'
<1>1. UNCHANGED <<registered, rec, used, img, disk>>
  BY DEF AllocIP, MigrateIp
<1>2. \/ pc[p] = "ip" /\ pc'[p] = "register"
      \/ pc[p] = "mIp" /\ pc'[p] = "mInstall"
  BY DEF AllocIP, MigrateIp, Goto, SInv, TInv, TypeOK
<1>3. PICK i \in Tries(IpLo, IpHi) :
         /\ FirstFreeIp(loc[p].node, i)
         /\ loc' = [loc EXCEPT ![p].ip = IpTry(loc[p].node, i)]
  BY DEF AllocIP, MigrateIp
<1> DEFINE a == IpTry(loc[p].node, i)
<1>4. \A n \in registered : ~(rec[n].node = loc[p].node /\ rec[n].ip = a)
  BY <1>3 DEF FirstFreeIp, ipInUse
<1> HIDE DEF a
<1>5. /\ loc'[p].name = loc[p].name /\ loc'[p].port = loc[p].port
      /\ loc'[p].node = loc[p].node /\ loc'[p].ip = a
  <2>1. loc' = [loc EXCEPT ![p].ip = a]
    BY <1>3 DEF a
  <2>2. loc[p] \in Local /\ loc \in [Procs -> Local]
    BY DEF SInv, TInv, TypeOK
  <2>3. QED  BY <2>1, <2>2 DEF Local
<1>6. Fits(p)
  BY DEF SInv
<1>7. ChosenIp(p)'
  BY <1>1, <1>4, <1>5 DEF ChosenIp
<1>8. Unnamed(p)' /\ Installed(p)'
  BY <1>2, <1>5, <1>6 DEF Fits, Unnamed, Installed
<1>9. MigratesOwn(p)'
  BY <1>1, <1>2, <1>5, <1>6 DEF Fits, MigratesOwn, MigratePC
<1>10. \A k \in Kinds : Claims(p, k)' => Claims(p, k)
  BY <1>2 DEF Claims, Holds
<1>11. ClaimsOwn(p)'
  BY <1>1, <1>5, <1>6, <1>10 DEF Fits, ClaimsOwn
<1>12. \A n \in registered : Moving(p, n) => Moving(p, n)'
  BY <1>2, <1>5 DEF Moving
<1>13. Fits(p)'
  BY <1>7, <1>8, <1>9, <1>11 DEF Fits
<1>14. QED  BY <1>1, <1>12, <1>13, SameImages, QuietSerial

\* A request that is not migrating anything moves no container's ports.
LEMMA AllOwned ==
  ASSUME OneRequest, SInv, NEW p \in Procs, NEW k \in Kinds,
         NEW n \in registered, ~Moving(p, n)
  PROVE  rec[n].port[k] \in used[k]
BY DEF SInv, OwnedOrMoving, OneRequest

\* registerInstance: a new record, or a name that is taken already.
LEMMA CollideSerial ==
  ASSUME OneRequest, SInv, TInv', NEW p \in Procs, Return(p, "register"),
         used' = Freed(loc[p].port),
         UNCHANGED <<registered, rec, cursor, ipCursor, img, disk, diskCursor>>
  PROVE  SInv'
<1>1. pc[p] = "register" /\ pc'[p] = "idle"
  BY DEF Return, Goto, SInv, TInv, TypeOK
<1>2. Fits(p)'
  BY <1>1, NowhereFits DEF Nowhere
<1>3. Exclusive'
  BY DEF SInv, Exclusive, PortsExclusive, IpsExclusive
<1>4. loc[p].name = NoName /\ \A k \in Kinds : Claims(p, k)
  BY <1>1 DEF SInv, Fits, Unnamed, Claims, Holds
<1>5. \A k \in Kinds, n \in registered : rec[n].port[k] # loc[p].port[k]
  BY <1>4, NullAssumption DEF SInv, TInv, TypeOK, Fits, ClaimsOwn
<1>6. \A k \in Kinds, n \in registered : rec[n].port[k] \in used[k]
  BY <1>1, AllOwned DEF Moving
<1>7. OwnedOrMoving'
  BY <1>5, <1>6 DEF OwnedOrMoving, Freed
<1>8. QED  BY <1>2, <1>3, <1>7, SameImages, OwnStep

LEMMA RegisterSerial ==
  ASSUME OneRequest, SInv, TInv', NEW p \in Procs, NEW h \in Names, Fresh(h),
         Goto(p, "register", "cursors"),
         registered' = registered \cup {h},
         rec' = [rec EXCEPT ![h] = [node |-> loc[p].node, ip |-> loc[p].ip,
                                    port |-> loc[p].port]],
         loc' = [loc EXCEPT ![p].name = h], saveInstances,
         UNCHANGED <<used, img>>
  PROVE  SInv'
<1>1. pc[p] = "register" /\ pc'[p] = "cursors" /\ h \notin registered
  BY DEF Goto, SInv, TInv, TypeOK, Fresh
<1>2. Fits(p)'
  BY <1>1, NowhereFits DEF Nowhere
<1>3. loc[p].name = NoName /\ \A k \in Kinds : Claims(p, k)
  BY <1>1 DEF SInv, Fits, Unnamed, Claims, Holds
<1>4. \A k \in Kinds :
         /\ \A n \in registered : rec[n].port[k] # loc[p].port[k]
         /\ loc[p].port[k] \in used[k]
  BY <1>3, NullAssumption DEF SInv, TInv, TypeOK, Fits, ClaimsOwn
<1>5. \A n \in registered : ~(rec[n].node = loc[p].node /\ rec[n].ip = loc[p].ip)
  BY <1>1, <1>3, NullAssumption DEF SInv, TInv, TypeOK, Fits, ChosenIp
<1>6. /\ rec'[h].node = loc[p].node /\ rec'[h].ip = loc[p].ip
      /\ rec'[h].port = loc[p].port
      /\ \A n \in registered : rec'[n] = rec[n]
  BY <1>1 DEF SInv, TInv, TypeOK
<1>7. PortsExclusive'
  BY <1>4, <1>6 DEF SInv, Exclusive, PortsExclusive
<1>8. IpsExclusive'
  BY <1>5, <1>6 DEF SInv, Exclusive, IpsExclusive
<1>9. \A k \in Kinds, n \in registered : rec[n].port[k] \in used[k]
  BY <1>1, AllOwned DEF Moving
<1>10. OwnedOrMoving'
  BY <1>4, <1>6, <1>9 DEF OwnedOrMoving
<1>11. disk'.inst = Snapshot' /\ img' = img
  BY DEF saveInstances
<1>12. Images' \subseteq Images \cup {NoImage, Snapshot, Snapshot'}
  BY <1>11, NewImages DEF SInv, TInv
<1>13. QED  BY <1>2, <1>7, <1>8, <1>10, <1>12, OwnStep DEF Exclusive

\* The files are written under no lock, or under instMu with the registry as is.
LEMMA FilesSerial ==
  ASSUME OneRequest, SInv, TInv', NEW p \in Procs,
         SaveCursors(p) \/ CreateOK(p) \/ WriteInstances(p)
  PROVE  SInv'
<1>1. UNCHANGED <<registered, rec, used>>
  BY DEF SaveCursors, CreateOK, WriteInstances, mem
<1>2. pc[p] \in Nowhere /\ pc'[p] \in Nowhere
  BY DEF SaveCursors, CreateOK, WriteInstances, Return, Goto, SInv, TInv,
         TypeOK, Nowhere
<1>3. Fits(p)'
  BY <1>2, NowhereFits
<1>4. Images' \subseteq Images \cup {NoImage, Snapshot, Snapshot'}
  <2>1. /\ disk' = disk \/ disk'.inst \in Images \cup {Snapshot, Snapshot'}
        /\ \/ img' = img
           \/ \E I \in {NoImage, Snapshot} : img' = [img EXCEPT ![p] = I]
    BY DEF SaveCursors, CreateOK, WriteInstances, Images
  <2>2. QED  BY <2>1, NewImages DEF SInv, TInv
<1>5. \A n \in registered : ~Moving(p, n)
  BY <1>2 DEF Moving, Nowhere
<1>6. QED  BY <1>1, <1>3, <1>4, <1>5, QuietSerial

\* A record is dropped, whatever the request is doing.
LEMMA DropRegistry ==
  ASSUME OneRequest, SInv, TInv', NEW h \in registered, Drop(h)
  PROVE  /\ registered' = registered \ {h} /\ used' = Freed(rec[h].port)
         /\ \A n \in registered' : rec'[n] = rec[n]
         /\ disk'.inst = Snapshot'
         /\ Exclusive'
         /\ \A k \in Kinds, n \in registered' :
               rec[n].port[k] \in used[k] => rec'[n].port[k] \in used'[k]
<1>1. /\ registered' = registered \ {h} /\ used' = Freed(rec[h].port)
      /\ rec' = rec \/ rec' = [rec EXCEPT ![h] = Blank]
      /\ disk'.inst = Snapshot'
  BY DEF Drop, saveInstances
<1>2. \A n \in registered' : rec'[n] = rec[n] /\ n # h /\ n \in registered
  BY <1>1 DEF SInv, TInv, TypeOK
<1>3. PortsExclusive'
  BY <1>2 DEF SInv, Exclusive, PortsExclusive
<1>4. IpsExclusive'
  BY <1>2 DEF SInv, Exclusive, IpsExclusive
<1>5. \A k \in Kinds, n \in registered' : rec[n].port[k] # rec[h].port[k]
  BY <1>2 DEF SInv, Exclusive, PortsExclusive
<1>6. \A k \in Kinds, n \in registered' :
         rec[n].port[k] \in used[k] => rec'[n].port[k] \in used'[k]
  BY <1>1, <1>2, <1>5 DEF Freed
<1>7. QED  BY <1>1, <1>2, <1>3, <1>4, <1>6 DEF Exclusive

LEMMA CreateFailSerial ==
  ASSUME OneRequest, SInv, TInv', NEW p \in Procs, CreateFail(p)
  PROVE  SInv'
<1>1. pc[p] = "lxd" /\ pc'[p] = "idle" /\ UNCHANGED img
  BY DEF CreateFail, Return, Goto, SInv, TInv, TypeOK
<1>2. Fits(p)'
  BY <1>1, NowhereFits DEF Nowhere
<1>3. \A k \in Kinds, n \in registered : rec[n].port[k] \in used[k]
  BY <1>1, AllOwned DEF Moving
<1>4. CASE loc[p].name \in registered
  <2>1. PICK h \in registered : h = loc[p].name /\ Drop(h)
    BY <1>4 DEF CreateFail
  <2>2. Exclusive' /\ disk'.inst = Snapshot' /\ registered' \subseteq registered
        /\ \A k \in Kinds, n \in registered' :
              rec[n].port[k] \in used[k] => rec'[n].port[k] \in used'[k]
    BY <2>1, DropRegistry
  <2>3. OwnedOrMoving'
    BY <1>3, <2>2 DEF OwnedOrMoving
  <2>4. Images' \subseteq Images \cup {NoImage, Snapshot, Snapshot'}
    BY <1>1, <2>2, NewImages DEF SInv, TInv
  <2>5. QED  BY <1>2, <2>2, <2>3, <2>4, OwnStep
<1>5. CASE loc[p].name \notin registered
  <2>1. UNCHANGED <<registered, rec, used, img, disk>>
    BY <1>1, <1>5 DEF CreateFail, Drop
  <2>2. \A n \in registered : ~Moving(p, n)
    BY <1>1 DEF Moving
  <2>3. QED  BY <1>2, <2>1, <2>2, SameImages, QuietSerial
<1>6. QED  BY <1>4, <1>5

\* A deletion is no step of a request of Procs.  What a request has claimed or
\* chosen, and what a migration keeps of its record, survive it.
LEMMA DeleteFits ==
  ASSUME OneRequest, SInv, TInv', NEW h \in registered, unregisterInstance(h),
         NEW p \in Procs
  PROVE  Fits(p)'
<1>1. Drop(h) /\ UNCHANGED <<pc, loc, img>>
  BY DEF unregisterInstance
<1>2. /\ registered' = registered \ {h} /\ used' = Freed(rec[h].port)
      /\ \A n \in registered' : rec'[n] = rec[n]
  BY <1>1, DropRegistry
<1>3. Fits(p)
  BY DEF SInv
<1>4. pc[p] \in MigratePC => rec'[loc[p].name] = rec[loc[p].name]
  <2>1. CASE loc[p].name = h
    BY <1>1, <2>1 DEF Drop, Pointed
  <2>2. CASE loc[p].name # h
    BY <1>1, <2>2 DEF Drop, SInv, TInv, TypeOK, LocalsOK
  <2>3. QED  BY <2>1, <2>2
<1>5. h # NoName
  BY NullAssumption DEF SInv, TInv, TypeOK
<1>6. ClaimsOwn(p)'
  <2> SUFFICES ASSUME NEW k \in Kinds, Claims(p, k)
               PROVE  /\ \A n \in registered' : n # loc[p].name =>
                            rec'[n].port[k] # loc[p].port[k]
                      /\ loc[p].name \in registered' \cup {NoName}
                           => loc[p].port[k] \in used'[k]
    BY <1>1 DEF ClaimsOwn, Claims, Holds
  <2>1. \A n \in registered' : n # loc[p].name =>
           rec'[n].port[k] # loc[p].port[k]
    BY <1>2, <1>3 DEF Fits, ClaimsOwn
  <2>2. ASSUME loc[p].name \in registered' \cup {NoName}
        PROVE  loc[p].port[k] \in used'[k]
    <3>1. loc[p].name # h /\ loc[p].name \in registered \cup {NoName}
      BY <1>2, <1>5, <2>2
    <3>2. loc[p].port[k] \in used[k] /\ rec[h].port[k] # loc[p].port[k]
      BY <1>3, <3>1 DEF Fits, ClaimsOwn
    <3>3. QED  BY <1>2, <3>2 DEF Freed
  <2>3. QED  BY <2>1, <2>2
<1>7. MigratesOwn(p)'
  BY <1>1, <1>2, <1>3, <1>4 DEF Fits, MigratesOwn
<1>8. Installed(p)'
  BY <1>1, <1>3, <1>4 DEF Fits, Installed, MigratePC
<1>9. ChosenIp(p)' /\ Unnamed(p)'
  BY <1>1, <1>2, <1>3 DEF Fits, ChosenIp, Unnamed
<1>10. QED  BY <1>6, <1>7, <1>8, <1>9 DEF Fits

LEMMA DeleteSerial ==
  ASSUME OneRequest, SInv, TInv', NEW h \in Names, unregisterInstance(h)
  PROVE  SInv'
<1>1. h \in registered /\ Drop(h) /\ UNCHANGED <<pc, loc, img>>
  BY DEF unregisterInstance
<1>2. Exclusive' /\ disk'.inst = Snapshot' /\ registered' \subseteq registered
      /\ \A k \in Kinds, n \in registered' :
            rec[n].port[k] \in used[k] => rec'[n].port[k] \in used'[k]
  BY <1>1, DropRegistry
<1>3. OwnedOrMoving'
  BY <1>1, <1>2 DEF SInv, OwnedOrMoving, Moving
<1>4. \A q \in Procs : Fits(q)'
  BY <1>1, DeleteFits
<1>5. Images' \subseteq Images \cup {Snapshot'}
  BY <1>1, <1>2 DEF Images
<1>6. ImagesOK'
  BY <1>2, <1>5, ImagesKeep DEF SInv
<1>7. QED  BY <1>2, <1>3, <1>4, <1>6 DEF SInv

(***************************************************************************)
(* Migrations                                                              *)
(***************************************************************************)
\* While a migration runs, every other container's ports are in the used map.
LEMMA OthersOwned ==
  ASSUME OneRequest, SInv, NEW p \in Procs
  PROVE  \A k \in Kinds, n \in registered :
            n # loc[p].name => rec[n].port[k] \in used[k]
BY AllOwned DEF Moving

\* The old ports of the container are marked once more, or given back.
LEMMA MarkSerial ==
  ASSUME OneRequest, SInv, TInv', NEW p \in Procs,
         MigrateMark(p) \/ MigrateFree(p)
  PROVE  SInv'
<1>1. UNCHANGED <<registered, rec, loc, img>>
  BY DEF MigrateMark, MigrateFree
<1>2. \/ /\ pc[p] = "mMark" /\ pc'[p] = "mFree" /\ used' = Held(Rec(p).port)
      \/ /\ pc[p] = "mFree" /\ pc'[p] = "mSsh" /\ used' = Freed(Rec(p).port)
  BY DEF MigrateMark, MigrateFree, Goto, SInv, TInv, TypeOK
<1>3. Fits(p)
  BY DEF SInv
<1>4. ~Claims(p, "ssh")' /\ ~Claims(p, "svc")'
  BY <1>2 DEF Claims, Holds
<1>5. MigratesOwn(p)'
  BY <1>1, <1>2, <1>3 DEF Fits, MigratesOwn, MigratePC
<1>6. Fits(p)'
  BY <1>1, <1>2, <1>4, <1>5, KindsElems
     DEF Fits, Unnamed, ClaimsOwn, Installed, ChosenIp
<1>7. Exclusive'
  BY <1>1 DEF SInv, Exclusive, PortsExclusive, IpsExclusive
<1>8. \A k \in Kinds, n \in registered : n # loc[p].name =>
         rec[n].port[k] # rec[loc[p].name].port[k]
  BY <1>2, <1>3 DEF Fits, MigratesOwn, MigratePC
<1>9. OwnedOrMoving'
  <2> SUFFICES ASSUME NEW k \in Kinds, NEW n \in registered
               PROVE  rec[n].port[k] \in used'[k] \/ Moving(p, n)'
    BY <1>1 DEF OwnedOrMoving
  <2>1. CASE n = loc[p].name
    <3>1. CASE pc'[p] = "mSsh"
      BY <1>1, <2>1, <3>1 DEF Moving
    <3>2. CASE used' = Held(Rec(p).port)
      BY <2>1, <3>2 DEF Held, Rec
    <3>3. QED  BY <1>2, <3>1, <3>2
  <2>2. CASE n # loc[p].name
    <3>1. rec[n].port[k] \in used[k]
      BY <2>2, OthersOwned
    <3>2. rec[n].port[k] # Rec(p).port[k]
      BY <1>8, <2>2 DEF Rec
    <3>3. QED  BY <1>2, <3>1, <3>2 DEF Held, Freed
  <2>3. QED  BY <2>1, <2>2
<1>10. Images' \subseteq Images \cup {NoImage, Snapshot, Snapshot'}
  <2>1. disk' = disk \/ disk'.inst = Snapshot
    BY DEF MigrateMark, MigrateFree
  <2>2. QED  BY <1>1, <2>1, NewImages DEF SInv, TInv
<1>11. QED  BY <1>6, <1>7, <1>9, <1>10, OwnStep

\* Port 0: the migration undoes what it did to the used map.
LEMMA UndoSerial ==
  ASSUME OneRequest, SInv, TInv', NEW p \in Procs,
         UNCHANGED <<registered, rec, img, disk>>,
         \/ Return(p, "mSsh") /\ used' = Held(Rec(p).port)
         \/ /\ Return(p, "mSvc")
            /\ used' = [Held(Rec(p).port) EXCEPT !["ssh"] =
                          (used["ssh"] \ {loc[p].port["ssh"]})
                            \cup {Rec(p).port["ssh"]}]
  PROVE  SInv'
<1>1. pc[p] \in {"mSsh", "mSvc"} /\ pc'[p] = "idle"
  BY DEF Return, Goto, SInv, TInv, TypeOK
<1>2. Fits(p)'
  BY <1>1, NowhereFits DEF Nowhere
<1>3. Exclusive'
  BY DEF SInv, Exclusive, PortsExclusive, IpsExclusive
<1>4. Fits(p)
  BY DEF SInv
<1>5. OwnedOrMoving'
  <2> SUFFICES ASSUME NEW k \in Kinds, NEW n \in registered
               PROVE  rec[n].port[k] \in used'[k]
    BY DEF OwnedOrMoving
  <2>1. n = loc[p].name \/ rec[n].port[k] \in used[k]
    BY OthersOwned
  <2>2. CASE used' = Held(Rec(p).port)
    BY <2>1, <2>2 DEF Held, Rec
  <2>3. CASE /\ Return(p, "mSvc")
             /\ used' = [Held(Rec(p).port) EXCEPT !["ssh"] =
                           (used["ssh"] \ {loc[p].port["ssh"]})
                             \cup {Rec(p).port["ssh"]}]
    <3>1. Claims(p, "ssh")
      BY <2>3 DEF Return, Goto, Claims
    <3>2. n # loc[p].name => rec[n].port["ssh"] # loc[p].port["ssh"]
      BY <1>4, <3>1, KindsElems DEF Fits, ClaimsOwn
    <3>3. k = "ssh" \/ k = "svc"
      BY KindsElems
    <3>4. QED  BY <2>1, <2>3, <3>2, <3>3, KindsElems DEF Held, Rec
  <2>4. QED  BY <2>2, <2>3
<1>6. QED  BY <1>2, <1>3, <1>5, SameImages, OwnStep

\* The new ports go into the record.
LEMMA InstallSerial ==
  ASSUME OneRequest, SInv, TInv', NEW p \in Procs, MigrateInstall(p)
  PROVE  SInv'
<1> DEFINE h == loc[p].name
<1>1. /\ UNCHANGED <<registered, used, img, disk>>
      /\ pc[p] = "mInstall" /\ pc'[p] = "mLxd"
  BY DEF MigrateInstall, Goto, SInv, TInv, TypeOK
<1>2. h \in Names /\ loc[p] \in Local /\ TypeOK
  BY <1>1 DEF SInv, TInv, TypeOK, LocalsOK, MigratePC
<1>3. /\ rec' = [rec EXCEPT ![h].port = loc[p].port]
      /\ loc' = [loc EXCEPT ![p].orig = rec[h].port]
  BY DEF MigrateInstall, Rec
<1>4. /\ rec'[h].port = loc[p].port
      /\ rec'[h].node = rec[h].node /\ rec'[h].ip = rec[h].ip
      /\ \A n \in Names : n # h => rec'[n] = rec[n]
  BY <1>2, <1>3 DEF TypeOK, Record
<1>5. /\ loc'[p].orig = rec[h].port /\ loc'[p].name = h
      /\ loc'[p].port = loc[p].port
      /\ loc'[p].node = loc[p].node /\ loc'[p].ip = loc[p].ip
  BY <1>2, <1>3 DEF TypeOK, Local
<1>6. Fits(p) /\ \A k \in Kinds : Claims(p, k)
  BY <1>1 DEF SInv, Claims
<1> HIDE DEF h
<1>7. registered \subseteq Names
  BY <1>2 DEF TypeOK
<1>8. \A k \in Kinds, n \in registered : n # h =>
         /\ rec[n].port[k] # loc[p].port[k]
         /\ rec[n].port[k] # rec[h].port[k]
  BY <1>1, <1>6 DEF h, Fits, ClaimsOwn, MigratesOwn, MigratePC
<1>9. \A k \in Kinds : h \in registered => loc[p].port[k] \in used[k]
  BY <1>6 DEF h, Fits, ClaimsOwn
<1>10. PortsExclusive'
  BY <1>1, <1>4, <1>7, <1>8 DEF SInv, Exclusive, PortsExclusive
<1>11. IpsExclusive'
  <2>1. \A n \in registered : rec'[n].ip = rec[n].ip /\ rec'[n].node = rec[n].node
    BY <1>4, <1>7
  <2>2. QED  BY <1>1, <2>1 DEF SInv, Exclusive, IpsExclusive
<1>12. OwnedOrMoving'
  <2>1. \A k \in Kinds, n \in registered : n # h => rec[n].port[k] \in used[k]
    BY OthersOwned DEF h
  <2>2. QED  BY <1>1, <1>4, <1>7, <1>9, <2>1 DEF OwnedOrMoving
<1>13. ClaimsOwn(p)'
  <2>1. h # NoName
    BY <1>2, NullAssumption
  <2>2. QED  BY <1>1, <1>4, <1>5, <1>7, <1>8, <1>9, <2>1 DEF ClaimsOwn
<1>14. MigratesOwn(p)'
  BY <1>1, <1>4, <1>5, <1>7, <1>8 DEF MigratesOwn
<1>15. Installed(p)' /\ Unnamed(p)'
  BY <1>1, <1>4, <1>5 DEF Installed, Unnamed
<1>16. ChosenIp(p)'
  BY <1>1, <1>4, <1>5, <1>6, <1>7 DEF h, Fits, ChosenIp
<1>17. Fits(p)'
  BY <1>13, <1>14, <1>15, <1>16 DEF Fits
<1>18. QED  BY <1>1, <1>10, <1>11, <1>12, <1>17, SameImages, OwnStep
            DEF Exclusive

\* LXD refused: the old ports go back into the record and the used map.
LEMMA MigrateFailSerial ==
  ASSUME OneRequest, SInv, TInv', NEW p \in Procs, MigrateFail(p)
  PROVE  SInv'
<1> DEFINE h == loc[p].name
<1>1. UNCHANGED <<registered, img>> /\ pc[p] = "mLxd" /\ pc'[p] = "idle"
  BY DEF MigrateFail, Return, Goto, SInv, TInv, TypeOK
<1>2. h \in Names /\ loc[p] \in Local /\ TypeOK /\ registered \subseteq Names
  BY <1>1 DEF SInv, TInv, TypeOK, LocalsOK, MigratePC
<1>3. /\ rec' = [rec EXCEPT ![h].port = loc[p].orig]
      /\ used' = [k \in Kinds |-> (used[k] \ {loc[p].port[k]})
                                     \cup {loc[p].orig[k]}]
  BY DEF MigrateFail
<1>4. /\ rec'[h].port = loc[p].orig
      /\ rec'[h].node = rec[h].node /\ rec'[h].ip = rec[h].ip
      /\ \A n \in Names : n # h => rec'[n] = rec[n]
  BY <1>2, <1>3 DEF TypeOK, Record
<1>5. Fits(p)' /\ Fits(p) /\ \A k \in Kinds : Claims(p, k)
  BY <1>1, NowhereFits DEF Nowhere, SInv, Claims
<1> HIDE DEF h
<1>6. \A k \in Kinds, n \in registered : n # h =>
         /\ rec[n].port[k] # loc[p].port[k]
         /\ rec[n].port[k] # loc[p].orig[k]
  BY <1>1, <1>5 DEF h, Fits, ClaimsOwn, MigratesOwn, MigratePC
<1>7. PortsExclusive'
  BY <1>1, <1>2, <1>4, <1>6 DEF SInv, Exclusive, PortsExclusive
<1>8. IpsExclusive'
  <2>1. \A n \in registered : rec'[n].ip = rec[n].ip /\ rec'[n].node = rec[n].node
    BY <1>2, <1>4
  <2>2. QED  BY <1>1, <2>1 DEF SInv, Exclusive, IpsExclusive
<1>9. OwnedOrMoving'
  <2>1. \A k \in Kinds, n \in registered : n # h => rec[n].port[k] \in used[k]
    BY OthersOwned DEF h
  <2>2. QED  BY <1>1, <1>2, <1>3, <1>4, <1>6, <2>1 DEF OwnedOrMoving
<1>10. Images' \subseteq Images \cup {NoImage, Snapshot, Snapshot'}
  <2>1. disk' = disk \/ disk'.inst = Snapshot'
    BY DEF MigrateFail, saveInstances
  <2>2. QED  BY <1>1, <1>2, <2>1, NewImages
<1>11. QED  BY <1>5, <1>7, <1>8, <1>9, <1>10, OwnStep DEF Exclusive

\* LXD has the container: the file is saved, then the node and the address
\* go into the record too.
LEMMA MovedSerial ==
  ASSUME OneRequest, SInv, TInv', NEW p \in Procs, MigrateOK(p)
  PROVE  SInv'
<1>1. /\ UNCHANGED <<registered, rec, used, loc, img>>
      /\ pc[p] = "mLxd" /\ pc'[p] = "mFinish" /\ disk'.inst = Snapshot'
  BY DEF MigrateOK, mem, saveInstances, Goto, SInv, TInv, TypeOK
<1>2. Fits(p)
  BY DEF SInv
<1>3. \A k \in Kinds : Claims(p, k)' <=> Claims(p, k)
  BY <1>1 DEF Claims, Holds
<1>4. Unnamed(p)' /\ MigratesOwn(p)' /\ Installed(p)' /\ ChosenIp(p)'
  BY <1>1, <1>2
     DEF Fits, Unnamed, MigratesOwn, Installed, ChosenIp, MigratePC
<1>5. ClaimsOwn(p)'
  BY <1>1, <1>2, <1>3 DEF Fits, ClaimsOwn
<1>6. \A n \in registered : ~Moving(p, n)
  BY <1>1 DEF Moving
<1>7. Images' \subseteq Images \cup {NoImage, Snapshot, Snapshot'}
  BY <1>1, NewImages DEF SInv, TInv
<1>8. QED  BY <1>1, <1>4, <1>5, <1>6, <1>7, QuietSerial DEF Fits

LEMMA FinishSerial ==
  ASSUME OneRequest, SInv, TInv', NEW p \in Procs, MigrateFinish(p)
  PROVE  SInv'
<1> DEFINE h == loc[p].name
<1>1. /\ UNCHANGED <<registered, used, img>> /\ disk'.inst = Snapshot'
      /\ pc[p] = "mFinish" /\ pc'[p] = "idle"
  BY DEF MigrateFinish, saveInstances, Return, Goto, SInv, TInv, TypeOK
<1>2. h \in Names /\ TypeOK /\ registered \subseteq Names
  BY <1>1 DEF SInv, TInv, TypeOK, LocalsOK, MigratePC
<1>3. Fits(p)' /\ Fits(p)
  BY <1>1, NowhereFits DEF Nowhere, SInv
<1>4. /\ h \in registered =>
            rec'[h] = [node |-> loc[p].node, ip |-> loc[p].ip,
                       port |-> loc[p].port]
      /\ \A n \in Names : n # h => rec'[n] = rec[n]
  BY <1>2 DEF MigrateFinish, TypeOK
<1>5. rec[h].port = loc[p].port
      /\ \A n \in registered : n # h =>
            ~(rec[n].node = loc[p].node /\ rec[n].ip = loc[p].ip)
  BY <1>1, <1>3 DEF Fits, Installed, ChosenIp
<1> HIDE DEF h
<1>6. \A n \in registered : rec'[n].port = rec[n].port
  BY <1>2, <1>4, <1>5
<1>7. PortsExclusive'
  BY <1>1, <1>6 DEF SInv, Exclusive, PortsExclusive
<1>8. IpsExclusive'
  BY <1>1, <1>2, <1>4, <1>5 DEF SInv, Exclusive, IpsExclusive
<1>9. OwnedOrMoving'
  <2>1. \A k \in Kinds, n \in registered : rec[n].port[k] \in used[k]
    BY <1>1, AllOwned DEF Moving
  <2>2. QED  BY <1>1, <1>6, <2>1 DEF OwnedOrMoving
<1>10. Images' \subseteq Images \cup {NoImage, Snapshot, Snapshot'}
  BY <1>1, <1>2, NewImages
<1>11. QED  BY <1>3, <1>7, <1>8, <1>9, <1>10, OwnStep DEF Exclusive

\* A restart loads a registry that was saved, and nothing is in flight.
LEMMA RestartSerial ==
  ASSUME SInv, TInv', Restart
  PROVE  SInv'
<1> DEFINE D == disk.inst
<1>1. ImagePorts(D) /\ ImageIps(D) /\ IsImage(D)
  BY DEF SInv, ImagesOK, Images, TInv, TypeOK
<1>2. /\ registered' = DOMAIN D
      /\ \A n \in DOMAIN D : rec'[n] = D[n]
      /\ \A k \in Kinds : used'[k] = PortsOf(k, D)
      /\ \A p \in Procs : pc'[p] = "idle"
  BY <1>1 DEF Restart, IsImage
<1>3. Images' \subseteq Images \cup {NoImage}
  BY DEF Restart, Images
<1> HIDE DEF D
<1>4. PortsExclusive' /\ IpsExclusive'
  BY <1>1, <1>2 DEF ImagePorts, ImageIps, PortsExclusive, IpsExclusive
<1>5. OwnedOrMoving'
  BY <1>2 DEF OwnedOrMoving, PortsOf
<1>6. \A p \in Procs : Fits(p)'
  BY <1>2, NowhereFits DEF Nowhere
<1>7. ImagesOK'
  BY <1>3, <1>4, ImagesKeep DEF SInv, Exclusive
<1>8. QED  BY <1>4, <1>5, <1>6, <1>7 DEF SInv, Exclusive

LEMMA InitSerial == Init => SInv
<1> SUFFICES ASSUME Init PROVE SInv
  OBVIOUS
<1>1. TInv
  BY InitTInv
<1>2. registered = {} /\ \A p \in Procs : pc[p] = "idle" /\ img[p] = NoImage
  BY DEF Init
<1>3. disk.inst = NoImage
  BY DEF Init
<1>4. Exclusive /\ OwnedOrMoving
  BY <1>2 DEF Exclusive, PortsExclusive, IpsExclusive, OwnedOrMoving
<1>5. ImagesOK
  BY <1>2, <1>3, NoImageOK DEF ImagesOK, Images
<1>6. \A p \in Procs : Fits(p)
  BY <1>2 DEF Fits, Unnamed, ClaimsOwn, Claims, Holds, MigratesOwn, Installed,
              ChosenIp, MigratePC
<1>7. QED  BY <1>1, <1>4, <1>5, <1>6 DEF SInv

LEMMA CreateSerial ==
  ASSUME OneRequest, SInv, TInv', NEW p \in Procs, CreateStep(p)
  PROVE  SInv'
<1>1. CASE \E d \in Nodes : StartCreate(p, d)
  BY <1>1, StartSerial
<1>2. CASE AllocSSH(p)
  <2>1. PICK i \in Tries(PoolLo["ssh"], PoolHi["ssh"]) :
           \/ Goto(p, "ssh", "svc") /\ TakePort(p, "ssh", i)
           \/ Return(p, "ssh") /\ ZeroPort("ssh", i) /\ UNCHANGED used
    BY <1>2 DEF AllocSSH
  <2>2. CASE Goto(p, "ssh", "svc") /\ TakePort(p, "ssh", i)
    BY <2>2, TakeSerial, KindsElems
  <2>3. CASE Return(p, "ssh") /\ ZeroPort("ssh", i) /\ UNCHANGED used
    BY <2>3, NoSSHSerial
  <2>4. QED  BY <2>1, <2>2, <2>3
<1>3. CASE AllocSvc(p)
  <2>1. PICK i \in Tries(PoolLo["svc"], PoolHi["svc"]) :
           \/ Goto(p, "svc", "ip") /\ TakePort(p, "svc", i)
           \/ /\ Return(p, "svc") /\ ZeroPort("svc", i)
              /\ used' = [used EXCEPT !["ssh"] = @ \ {loc[p].port["ssh"]}]
    BY <1>3 DEF AllocSvc
  <2>2. CASE Goto(p, "svc", "ip") /\ TakePort(p, "svc", i)
    BY <2>2, TakeSerial, KindsElems
  <2>3. CASE /\ Return(p, "svc") /\ ZeroPort("svc", i)
             /\ used' = [used EXCEPT !["ssh"] = @ \ {loc[p].port["ssh"]}]
    BY <2>3, NoSvcSerial
  <2>4. QED  BY <2>1, <2>2, <2>3
<1>4. CASE AllocIP(p)
  BY <1>4, IpSerial
<1>5. CASE PanicSSH(p)
  BY <1>5, NoSSHSerial
<1>6. CASE PanicSvc(p) \/ PanicIp(p)
  BY <1>6, PanicSerial
<1>7. ASSUME NEW n \in Names, Register(p, n) PROVE SInv'
  <2>1. \/ /\ Return(p, "register") /\ used' = Freed(loc[p].port)
           /\ UNCHANGED <<registered, rec, cursor, ipCursor, img, disk,
                          diskCursor>>
        \/ /\ Fresh(n) /\ Goto(p, "register", "cursors")
           /\ registered' = registered \cup {n}
           /\ rec' = [rec EXCEPT ![n] = [node |-> loc[p].node,
                                         ip |-> loc[p].ip,
                                         port |-> loc[p].port]]
           /\ loc' = [loc EXCEPT ![p].name = n]
           /\ saveInstances /\ UNCHANGED <<used, img>>
    BY <1>7 DEF Register
  <2>2. QED  BY <2>1, CollideSerial, RegisterSerial
<1>8. CASE SaveCursors(p) \/ CreateOK(p) \/ WriteInstances(p)
  BY <1>8, FilesSerial
<1>9. CASE CreateFail(p)
  BY <1>9, CreateFailSerial
<1>10. QED  BY <1>1, <1>2, <1>3, <1>4, <1>5, <1>6, <1>7, <1>8, <1>9
            DEF CreateStep

LEMMA MigrateSerial ==
  ASSUME OneRequest, SInv, TInv', NEW p \in Procs, MigrateStep(p)
  PROVE  SInv'
<1>1. CASE \E n \in Names, d \in Nodes : StartMigrate(p, n, d)
  BY <1>1, StartSerial
<1>2. CASE MigrateMark(p) \/ MigrateFree(p)
  BY <1>2, MarkSerial
<1>3. CASE MigrateSSH(p)
  <2>1. PICK i \in Tries(PoolLo["ssh"], PoolHi["ssh"]) :
           \/ Goto(p, "mSsh", "mSvc") /\ TakePort(p, "ssh", i)
           \/ /\ Return(p, "mSsh") /\ ZeroPort("ssh", i)
              /\ used' = Held(Rec(p).port)
    BY <1>3 DEF MigrateSSH
  <2>2. CASE Goto(p, "mSsh", "mSvc") /\ TakePort(p, "ssh", i)
    BY <2>2, TakeSerial, KindsElems
  <2>3. CASE /\ Return(p, "mSsh") /\ ZeroPort("ssh", i)
             /\ used' = Held(Rec(p).port)
    BY <2>3, UndoSerial DEF ZeroPort
  <2>4. QED  BY <2>1, <2>2, <2>3
<1>4. CASE MigrateSvc(p)
  <2>1. PICK i \in Tries(PoolLo["svc"], PoolHi["svc"]) :
           \/ Goto(p, "mSvc", "mIp") /\ TakePort(p, "svc", i)
           \/ /\ Return(p, "mSvc") /\ ZeroPort("svc", i)
              /\ used' = [Held(Rec(p).port) EXCEPT !["ssh"] =
                            (used["ssh"] \ {loc[p].port["ssh"]})
                              \cup {Rec(p).port["ssh"]}]
    BY <1>4 DEF MigrateSvc
  <2>2. CASE Goto(p, "mSvc", "mIp") /\ TakePort(p, "svc", i)
    BY <2>2, TakeSerial, KindsElems
  <2>3. CASE /\ Return(p, "mSvc") /\ ZeroPort("svc", i)
             /\ used' = [Held(Rec(p).port) EXCEPT !["ssh"] =
                           (used["ssh"] \ {loc[p].port["ssh"]})
                             \cup {Rec(p).port["ssh"]}]
    BY <2>3, UndoSerial DEF ZeroPort
  <2>4. QED  BY <2>1, <2>2, <2>3
<1>5. CASE MigrateIp(p)
  BY <1>5, IpSerial
<1>6. CASE MigratePanic(p)
  BY <1>6, RestartSerial DEF MigratePanic
<1>7. CASE MigrateInstall(p)
  BY <1>7, InstallSerial
<1>8. CASE MigrateFail(p)
  BY <1>8, MigrateFailSerial
<1>9. CASE MigrateOK(p)
  BY <1>9, MovedSerial
<1>10. CASE MigrateFinish(p)
  BY <1>10, FinishSerial
<1>11. QED  BY <1>1, <1>2, <1>3, <1>4, <1>5, <1>6, <1>7, <1>8, <1>9, <1>10
            DEF MigrateStep

LEMMA StutterSerial ==
  ASSUME SInv, UNCHANGED vars
  PROVE  SInv'
<1>1. UNCHANGED <<registered, rec, used, pc, loc, img, disk>> /\ TInv'
  BY StutterTypes DEF vars, SInv
<1>2. \A p \in Procs, k \in Kinds : Claims(p, k)' <=> Claims(p, k)
  BY <1>1 DEF Claims, Holds
<1>3. \A p \in Procs : Fits(p)'
  <2> SUFFICES ASSUME NEW p \in Procs PROVE Fits(p)'
    OBVIOUS
  <2>1. Fits(p)
    BY DEF SInv
  <2>2. ClaimsOwn(p)'
    BY <1>1, <1>2, <2>1 DEF Fits, ClaimsOwn
  <2>3. QED  BY <1>1, <2>1, <2>2
             DEF Fits, Unnamed, MigratesOwn, Installed, ChosenIp
<1>4. Exclusive' /\ OwnedOrMoving'
  BY <1>1 DEF SInv, Exclusive, PortsExclusive, IpsExclusive, OwnedOrMoving,
              Moving
<1>5. ImagesOK'
  BY <1>1 DEF SInv, ImagesOK, Images
<1>6. QED  BY <1>1, <1>3, <1>4, <1>5 DEF SInv

LEMMA SerialInductive == OneRequest => (SInv /\ [Next]_vars => SInv')
<1> SUFFICES ASSUME OneRequest, SInv, [Next]_vars PROVE SInv'
  OBVIOUS
<1>1. TInv'
  BY CreateTypes, UnregisterTypes, RestartTypes, MigrateTypes, StutterTypes
     DEF Next, LeaseNext, SInv
<1>2. CASE \E p \in Procs : CreateStep(p)
  BY <1>1, <1>2, CreateSerial
<1>3. CASE \E n \in Names : unregisterInstance(n)
  BY <1>1, <1>3, DeleteSerial
<1>4. CASE Restart
  BY <1>1, <1>4, RestartSerial
<1>5. CASE \E p \in Procs : MigrateStep(p)
  BY <1>1, <1>5, MigrateSerial
<1>6. CASE UNCHANGED vars
  BY <1>6, StutterSerial
<1>7. QED  BY <1>2, <1>3, <1>4, <1>5, <1>6 DEF Next, LeaseNext

\* While requests do not overlap, no two containers of a node have the same
\* address and no two containers the same external port: creation, migration,
\* deletion at any moment, and restarts from any file.
THEOREM SerialIps ==
  ASSUME OneRequest
  PROVE  Spec => []IpsExclusive
<1>1. SInv /\ [Next]_vars => SInv'
  BY SerialInductive
<1>2. SInv => IpsExclusive
  BY DEF SInv, Exclusive
<1>3. QED  BY InitSerial, <1>1, <1>2, PTL DEF Spec

\* The same of the external ports.
THEOREM SerialPorts ==
  ASSUME OneRequest
  PROVE  Spec => []PortsExclusive
<1>1. SInv /\ [Next]_vars => SInv'
  BY SerialInductive
<1>2. SInv => PortsExclusive
  BY DEF SInv, Exclusive
<1>3. QED  BY InitSerial, <1>1, <1>2, PTL DEF Spec
=============================================================================
