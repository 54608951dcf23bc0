---------------------------- MODULE R2SyncProofs ----------------------------
(***************************************************************************)
(* TLAPS: the data files and their backups of R2Sync, for all sets of      *)
(* files and goroutines, all numbers of changes and all scenarios; and the *)
(* replacement of the executable file of Update, for all releases,         *)
(* invocations and failures.                                               *)
(***************************************************************************)
EXTENDS R2Sync, Update, TLAPS

Busy(w) == save[w].pc # "idle"

\* Only a whole file holds changes.
Shapes ==
  /\ \A f \in Files : local[f].state # "whole" => local[f].has = {}
  /\ \A f \in Files : remote[f].state # "whole" => remote[f].has = {}
  /\ data.state # "whole" => data.has = {}

\* No goroutine outlives the process.
Down == ~up => reading = NoFile /\ \A w \in Savers : save[w] = NoSave

\* A save of an ordered file has its mutex, so what it writes is what the
\* memory still is, and the file that it emptied is still empty.
SaverOK(w) ==
  (Busy(w) /\ Ordered(save[w].file)) =>
     /\ save[w].locked /\ save[w].pc \in {"marshalled", "open"}
     /\ save[w].image = mem[save[w].file]
     /\ save[w].pc = "open" => local[save[w].file] = Empty
SaversOK == \A w \in Savers : SaverOK(w)

\* It is the only one.
OneHolder ==
  \A v, w \in Savers :
     (Busy(v) /\ Busy(w) /\ Ordered(save[v].file) /\ save[v].file = save[w].file)
        => v = w

\* A command saves a file that commands save, and an ordered one only while the
\* server is down.
CommandOK ==
  Busy(Command) =>
     /\ save[Command].file \in scenario.cli
     /\ save[Command].pc \in {"marshalled", "open"}
     /\ Ordered(save[Command].file) => ~up

\* The inductive invariant of FilesInv.
FilesIInv ==
  TypeOK /\ Shapes /\ Down /\ SaversOK /\ OneHolder /\ CommandOK /\ FileAgrees

\* What the bucket has of f is in memory, is in the file when it can be read
\* (on a machine that is not new), in an upload that can follow, and in what a
\* command is about to write.
InMemory(f) ==
  up => remote[f].has \subseteq mem[f] /\ local[f].has \subseteq mem[f]
OnDisk(f) ==
  ((up \/ local[MainFile].state # "missing") /\ Readable(local[f]))
     => remote[f].has \subseteq local[f].has
InUpload(f) ==
  reading = f =>
     /\ data.has \subseteq mem[f]
     /\ Readable(local[f]) => data.has \subseteq local[f].has
     /\ data.state = "whole" => remote[f].has \subseteq data.has
InCommand(f) ==
  (~up /\ local[MainFile].state # "missing" /\ Busy(Command)
       /\ save[Command].file = f)
     => remote[f].has \subseteq save[Command].image
Kept(f) == InMemory(f) /\ OnDisk(f) /\ InUpload(f) /\ InCommand(f)
AllKept == \A f \in Files : (Ordered(f) /\ "get" \notin Faults) => Kept(f)

\* The inductive invariant of BackupGrows.
BackupIInv == FilesIInv /\ AllKept

USE FilesAssumption, SaversAssumption, MaxSavesAssumption, ScenariosAssumption

\* The values that the actions put into the variables are well typed ...
LEMMA Types ==
  /\ NoSave \in Save /\ Missing \in Content /\ Empty \in Content
  /\ Torn \in Content
  /\ \A S \in SUBSET (1 .. MaxSaves) : Whole(S) \in Content
  /\ \A c \in Content : c.has \subseteq 1 .. MaxSaves
  /\ \A s \in Save : s.file \in Files /\ s.image \subseteq 1 .. MaxSaves
BY DEF NoSave, Save, Missing, Empty, Torn, Whole, Content

\* ... and these are their fields.
LEMMA Fields ==
  /\ NoSave.pc = "idle" /\ ~NoSave.locked
  /\ Missing.state = "missing" /\ Missing.has = {}
  /\ Empty.state = "empty" /\ Empty.has = {}
  /\ Torn.state = "torn" /\ Torn.has = {}
  /\ \A S \in SUBSET (1 .. MaxSaves) : Whole(S).state = "whole" /\ Whole(S).has = S
BY DEF NoSave, Missing, Empty, Torn, Whole

\* What every scenario has.
LEMMA ScenarioType ==
  ASSUME scenario \in Scenarios
  PROVE  /\ scenario.capacity \in Nat /\ scenario.capacity > 0
         /\ scenario.debounce \in Nat /\ scenario.debounce > 0
         /\ scenario.cli \subseteq Files \ {MainFile}
         /\ scenario.offline \in BOOLEAN
OBVIOUS

\* The two updates of a save, field by field.
LEMMA SetPc ==
  ASSUME NEW s \in Save, NEW c \in {"idle", "changed", "marshalled", "open"}
  PROVE  [s EXCEPT !.pc = c] = [pc |-> c, file |-> s.file,
                                locked |-> s.locked, image |-> s.image]
BY DEF Save

LEMMA SetPcImage ==
  ASSUME NEW s \in Save, NEW c \in {"idle", "changed", "marshalled", "open"},
         NEW i \in SUBSET (1 .. MaxSaves)
  PROVE  [s EXCEPT !.pc = c, !.image = i] = [pc |-> c, file |-> s.file,
                                             locked |-> s.locked, image |-> i]
<1>1. [s EXCEPT !.pc = c, !.image = i] = [[s EXCEPT !.pc = c] EXCEPT !.image = i]
  OBVIOUS
<1>2. PICK t \in Save : t = [s EXCEPT !.pc = c]
  BY DEF Save
<1>3. [t EXCEPT !.image = i]
        = [pc |-> t.pc, file |-> t.file, locked |-> t.locked, image |-> i]
  BY DEF Save
<1>4. QED  BY <1>2, <1>3

\* The mutex is free, so no other save of the file is under way if it is ordered.
LEMMA ChangeKeeps ==
  ASSUME BackupIInv, NEW w \in Savers, NEW f \in Files, Change(w, f)
  PROVE  BackupIInv'
<1>0. /\ TypeOK /\ Shapes /\ Down /\ SaversOK /\ OneHolder
      /\ CommandOK /\ FileAgrees /\ AllKept
  BY DEF BackupIInv, FilesIInv
<1>m. mem' \in [Files -> SUBSET (1 .. MaxSaves)] /\ saves' \in 0 .. MaxSaves
  BY <1>0 DEF TypeOK, Change
<1> DEFINE locked == [pc |-> "marshalled", file |-> f, locked |-> TRUE,
                      image |-> mem'[f]]
           unlocked == [pc |-> "changed", file |-> f, locked |-> FALSE,
                        image |-> {}]
<1>a. locked \in Save /\ unlocked \in Save
  BY <1>m DEF Save
<1>b. PICK r \in Save :
         /\ save' = [save EXCEPT ![w] = r]
         /\ r = locked \/ (f \in scenario.unlocked /\ r = unlocked)
  BY <1>a DEF Change, NoSave, MayUnlock
<1>c. /\ r.pc # "idle" /\ r.file = f
      /\ f \notin scenario.unlocked =>
           r.locked /\ r.pc = "marshalled" /\ r.image = mem'[f]
  BY <1>b
<1> HIDE DEF locked, unlocked
<1>d. /\ f \notin scenario.unlocked =>
           save'[w].locked /\ save'[w].pc = "marshalled"
             /\ save'[w].image = mem'[f]
      /\ save'[w].pc # "idle" /\ save'[w].file = f
      /\ \A v \in Writers : v # w => save'[v] = save[v]
      /\ mem[f] \subseteq mem'[f] /\ \A g \in Files : g # f => mem'[g] = mem[g]
  BY <1>0, <1>b, <1>c DEF Change, TypeOK, Writers
<1>e. /\ up /\ save[w].pc = "idle" /\ MutexFree(f)
      /\ UNCHANGED <<scenario, up, local, remote, syncChan, age,
                     pending, ticked, due, reading, data>>
  BY DEF Change, diskVars, loopVars
<1>f. \A v \in Savers : save[v].file = f => ~save[v].locked
  BY <1>e DEF MutexFree
<1>t. \A v \in Writers : save[v].file \in Files
  BY <1>0, Types DEF TypeOK
<1>1. TypeOK'
  BY <1>0, <1>b DEF Debounce, TypeOK, Change, diskVars, loopVars, Writers
<1>2. Shapes'
  BY <1>0 DEF Shapes, Change, diskVars, loopVars
<1>3. Down'
  BY DEF Down, Change
<1>4. SaversOK'
  <2>1. ASSUME NEW v \in Savers
        PROVE  SaverOK(v)'
    <3>1. CASE v = w
      BY <3>1, <1>d, <1>e DEF SaverOK, Ordered
    <3>2. CASE v # w
      BY <1>0, <1>t, <1>d, <1>e, <1>f DEF SaversOK, SaverOK, Busy, Ordered,
         Writers
    <3>3. QED  BY <3>1, <3>2
  <2>2. QED  BY <2>1 DEF SaversOK
<1>5. OneHolder'
  BY <1>0, <1>d, <1>e, <1>f DEF OneHolder, SaversOK, SaverOK, Busy, Ordered,
     Writers
<1>6. CommandOK'
  BY <1>0, <1>b DEF CommandOK, Busy, Ordered, Change
<1>7. FileAgrees'
  <2>1. ASSUME NEW g \in Files, Ordered(g)', up',
               \A v \in Savers : save'[v].pc # "idle" => save'[v].file # g
        PROVE  Readable(local[g])' /\ local'[g].has = mem'[g]
    BY <2>1, <1>0, <1>d, <1>e DEF FileAgrees, Ordered, Writers
  <2>2. QED  BY <2>1 DEF FileAgrees
<1>8. AllKept'
  <2>1. ASSUME NEW g \in Files, Ordered(g)', "get" \notin Faults'
        PROVE  Kept(g)'
    <3>1. Ordered(g) /\ Kept(g)
      BY <2>1, <1>0, <1>e DEF AllKept, Ordered, Faults
    <3>2. InMemory(g)'
      BY <3>1, <1>d, <1>e DEF Kept, InMemory
    <3>3. OnDisk(g)'
      BY <3>1, <1>e DEF Kept, OnDisk
    <3>4. InUpload(g)'
      BY <3>1, <1>d, <1>e DEF Kept, InUpload
    <3>5. InCommand(g)'
      BY <1>e DEF InCommand
    <3>6. QED  BY <3>2, <3>3, <3>4, <3>5 DEF Kept
  <2>2. QED  BY <2>1 DEF AllKept
<1>9. QED  BY <1>1, <1>2, <1>3, <1>4, <1>5, <1>6, <1>7, <1>8 DEF BackupIInv,
       FilesIInv

\* Only a save of a file that is not ordered marshals after the unlock.
LEMMA MarshalKeeps ==
  ASSUME BackupIInv, NEW w \in Writers, Marshal(w)
  PROVE  BackupIInv'
<1>0. /\ TypeOK /\ Shapes /\ Down /\ SaversOK /\ OneHolder
      /\ CommandOK /\ FileAgrees /\ AllKept
  BY DEF BackupIInv, FilesIInv
<1> DEFINE r == [pc |-> "marshalled", file |-> save[w].file,
               locked |-> save[w].locked, image |-> mem[save[w].file]]
<1>s. save[w] \in Save /\ mem[save[w].file] \in SUBSET (1 .. MaxSaves)
  BY <1>0, Types DEF TypeOK
<1>a. r \in Save
  BY <1>s DEF Save
<1>b. save' = [save EXCEPT ![w] = r]
  BY <1>0, <1>s, SetPcImage DEF TypeOK, Marshal
<1>c. r.pc = "marshalled" /\ r.file = save[w].file /\ r.image = mem[r.file]
  OBVIOUS
<1> HIDE DEF r
<1>d. /\ save[w].pc = "changed"
      /\ UNCHANGED <<scenario, up, mem, saves, local, remote, syncChan, age,
                     pending, ticked, due, reading, data>>
  BY DEF Marshal, diskVars, loopVars
<1>e. /\ save'[w] = r
      /\ \A v \in Writers : v # w => save'[v] = save[v]
  BY <1>0, <1>b DEF TypeOK
<1>t. \A v \in Writers : save[v].file \in Files
  BY <1>0, Types DEF TypeOK
<1>1. TypeOK'
  BY <1>0, <1>d, <1>a, <1>b DEF Debounce, TypeOK
<1>2. Shapes'
  BY <1>0, <1>d DEF Shapes
<1>3. Down'
  BY <1>0, <1>d, <1>e, Fields DEF Down, Writers
<1>4. SaversOK'
  <2>1. ASSUME NEW v \in Savers
        PROVE  SaverOK(v)'
    <3>1. CASE v = w
      BY <3>1, <1>0, <1>c, <1>d, <1>e DEF SaversOK, SaverOK, Busy, Ordered
    <3>2. CASE v # w
      BY <1>0, <1>c, <1>d, <1>e DEF SaversOK, SaverOK, Busy, Ordered, Writers
    <3>3. QED  BY <3>1, <3>2
  <2>2. QED  BY <2>1 DEF SaversOK
<1>5. OneHolder'
  BY <1>0, <1>c, <1>d, <1>e DEF OneHolder, Busy, Ordered, Writers
<1>6. CommandOK'
  BY <1>0, <1>d, <1>e DEF CommandOK, Busy, Ordered, Writers
<1>7. FileAgrees'
  <2>1. ASSUME NEW g \in Files, Ordered(g)', up',
               \A v \in Savers : save'[v].pc # "idle" => save'[v].file # g
        PROVE  Readable(local[g])' /\ local'[g].has = mem'[g]
    BY <2>1, <1>0, <1>c, <1>d, <1>e DEF FileAgrees, Ordered, Writers
  <2>2. QED  BY <2>1 DEF FileAgrees
<1>8. AllKept'
  <2>1. ASSUME NEW g \in Files, Ordered(g)', "get" \notin Faults'
        PROVE  Kept(g)'
    <3>1. Ordered(g) /\ Kept(g)
      BY <2>1, <1>0, <1>d DEF AllKept, Ordered, Faults
    <3>2. InMemory(g)'
      BY <3>1, <1>d DEF Kept, InMemory
    <3>3. OnDisk(g)'
      BY <3>1, <1>d DEF Kept, OnDisk
    <3>4. InUpload(g)'
      BY <3>1, <1>d DEF Kept, InUpload
    <3>5. InCommand(g)'
      BY <3>1, <1>0, <1>d, <1>e DEF Kept, InCommand, CommandOK, Busy, Writers
    <3>6. QED  BY <3>2, <3>3, <3>4, <3>5 DEF Kept
  <2>2. QED  BY <2>1 DEF AllKept
<1>9. QED  BY <1>1, <1>2, <1>3, <1>4, <1>5, <1>6, <1>7, <1>8 DEF BackupIInv,
       FilesIInv

\* The command adds to what the file holds.
LEMMA CommandChangeKeeps ==
  ASSUME BackupIInv, NEW f \in Files, CommandChange(f)
  PROVE  BackupIInv'
<1>0. /\ TypeOK /\ Shapes /\ Down /\ SaversOK /\ OneHolder
      /\ CommandOK /\ FileAgrees /\ AllKept
  BY DEF BackupIInv, FilesIInv
<1> DEFINE r == [pc |-> "marshalled", file |-> f, locked |-> FALSE,
               image |-> local[f].has \cup {saves'}]
<1>a. r \in Save
  BY <1>0, Types DEF TypeOK, Save, CommandChange
<1>b. save' = [save EXCEPT ![Command] = r]
  BY DEF CommandChange
<1> HIDE DEF r
<1>c. r.pc = "marshalled" /\ r.file = f /\ local[f].has \subseteq r.image
  BY DEF r
<1>d. /\ f \in scenario.cli /\ save[Command].pc = "idle"
      /\ scenario.offline => ~up
      /\ Readable(local[f]) /\ saves' \in 0 .. MaxSaves
      /\ UNCHANGED <<scenario, up, mem, local, remote, syncChan, age,
                     pending, ticked, due, reading, data>>
  BY <1>0 DEF CommandChange, diskVars, loopVars, TypeOK
<1>e. /\ save'[Command] = r
      /\ \A v \in Writers : v # Command => save'[v] = save[v]
  BY <1>0, <1>b DEF TypeOK, Writers
<1>t. \A v \in Writers : save[v].file \in Files
  BY <1>0, Types DEF TypeOK
<1>1. TypeOK'
  BY <1>0, <1>c, <1>d, <1>e, <1>a, <1>b DEF Debounce, TypeOK
<1>2. Shapes'
  BY <1>0, <1>d DEF Shapes
<1>3. Down'
  BY <1>0, <1>d, <1>e DEF Down, Writers
<1>4. SaversOK'
  <2>1. ASSUME NEW v \in Savers
        PROVE  SaverOK(v)'
    <3>1. CASE v = Command
      BY <3>1
    <3>2. CASE v # Command
      BY <1>0, <1>d, <1>e DEF SaversOK, SaverOK, Busy, Ordered, Writers
    <3>3. QED  BY <3>2
  <2>2. QED  BY <2>1 DEF SaversOK
<1>5. OneHolder'
  BY <1>0, <1>d, <1>e DEF OneHolder, Busy, Ordered, Writers
<1>6. CommandOK'
  BY <1>c, <1>d, <1>e DEF CommandOK, Ordered
<1>7. FileAgrees'
  <2>1. ASSUME NEW g \in Files, Ordered(g)', up',
               \A v \in Savers : save'[v].pc # "idle" => save'[v].file # g
        PROVE  Readable(local[g])' /\ local'[g].has = mem'[g]
    BY <2>1, <1>0, <1>d, <1>e DEF FileAgrees, Ordered, Writers
  <2>2. QED  BY <2>1 DEF FileAgrees
<1>8. AllKept'
  <2>1. ASSUME NEW g \in Files, Ordered(g)', "get" \notin Faults'
        PROVE  Kept(g)'
    <3>1. Ordered(g) /\ Kept(g)
      BY <2>1, <1>0, <1>d DEF AllKept, Ordered, Faults
    <3>2. InMemory(g)'
      BY <3>1, <1>d DEF Kept, InMemory
    <3>3. OnDisk(g)'
      BY <3>1, <1>d DEF Kept, OnDisk
    <3>4. InUpload(g)'
      BY <3>1, <1>d DEF Kept, InUpload
    <3>5. InCommand(g)'
      BY <3>1, <1>c, <1>d, <1>e DEF Kept, InCommand, OnDisk
    <3>6. QED  BY <3>2, <3>3, <3>4, <3>5 DEF Kept
  <2>2. QED  BY <2>1 DEF AllKept
<1>9. QED  BY <1>1, <1>2, <1>3, <1>4, <1>5, <1>6, <1>7, <1>8 DEF BackupIInv,
       FilesIInv

\* The emptied file is that of the one save which has it.
LEMMA TruncateKeeps ==
  ASSUME BackupIInv, NEW w \in Writers, Truncate(w)
  PROVE  BackupIInv'
<1>0. /\ TypeOK /\ Shapes /\ Down /\ SaversOK /\ OneHolder
      /\ CommandOK /\ FileAgrees /\ AllKept
  BY DEF BackupIInv, FilesIInv
<1> DEFINE r == [pc |-> "open", file |-> save[w].file,
               locked |-> save[w].locked, image |-> save[w].image]
<1>s. save[w] \in Save
  BY <1>0 DEF TypeOK
<1>a. r \in Save
  BY <1>s DEF Save
<1>b. save' = [save EXCEPT ![w] = r]
  BY <1>0, <1>s, SetPc DEF TypeOK, Truncate
<1>c. /\ r.pc = "open" /\ r.file = save[w].file /\ r.image = save[w].image
      /\ r.locked = save[w].locked
  OBVIOUS
<1> HIDE DEF r
<1>d. /\ save[w].pc = "marshalled"
      /\ local' = [local EXCEPT ![r.file] = Empty]
      /\ UNCHANGED <<scenario, up, mem, saves, remote, syncChan, age,
                     pending, ticked, due, reading, data>>
  BY <1>c DEF Truncate, loopVars
<1>e. /\ save'[w] = r
      /\ \A v \in Writers : v # w => save'[v] = save[v]
  BY <1>0, <1>b DEF TypeOK
<1>f. /\ local'[r.file] = Empty
      /\ \A g \in Files : g # r.file => local'[g] = local[g]
  BY <1>0, <1>a, <1>d, Types DEF TypeOK
<1>g. (~up /\ local'[MainFile].state # "missing")
        => local[MainFile].state # "missing"
  BY <1>0, <1>c, <1>d, Fields DEF CommandOK, Down, Busy, Writers, TypeOK
<1>t. \A v \in Writers : save[v].file \in Files
  BY <1>0, Types DEF TypeOK
<1>1. TypeOK'
  BY <1>0, <1>d, Types, <1>a, <1>b DEF Debounce, TypeOK
<1>2. Shapes'
  BY <1>0, <1>d, Fields DEF Shapes
<1>3. Down'
  BY <1>0, <1>d, <1>e, Fields DEF Down, Writers
<1>4. SaversOK'
  <2>1. ASSUME NEW v \in Savers
        PROVE  SaverOK(v)'
    <3>1. CASE v = w
      BY <3>1, <1>0, <1>c, <1>d, <1>e, <1>f DEF SaversOK, SaverOK, Busy, Ordered
    <3>2. CASE v # w
      BY <1>0, <1>c, <1>d, <1>e, <1>f DEF SaversOK, SaverOK, Busy, Ordered,
         Writers
    <3>3. QED  BY <3>1, <3>2
  <2>2. QED  BY <2>1 DEF SaversOK
<1>5. OneHolder'
  BY <1>0, <1>c, <1>d, <1>e DEF OneHolder, Busy, Ordered, Writers
<1>6. CommandOK'
  BY <1>0, <1>c, <1>d, <1>e DEF CommandOK, Busy, Ordered, Writers
<1>7. FileAgrees'
  <2>1. ASSUME NEW g \in Files, Ordered(g)', up',
               \A v \in Savers : save'[v].pc # "idle" => save'[v].file # g
        PROVE  Readable(local[g])' /\ local'[g].has = mem'[g]
    BY <2>1, <1>0, <1>c, <1>d, <1>e DEF FileAgrees, CommandOK, Ordered, Busy,
       Writers
  <2>2. QED  BY <2>1 DEF FileAgrees
<1>8. AllKept'
  <2>1. ASSUME NEW g \in Files, Ordered(g)', "get" \notin Faults'
        PROVE  Kept(g)'
    <3>1. Ordered(g) /\ Kept(g)
      BY <2>1, <1>0, <1>d DEF AllKept, Ordered, Faults
    <3>2. InMemory(g)'
      BY <3>1, <1>d, Fields DEF Kept, InMemory
    <3>3. OnDisk(g)'
      BY <3>1, <1>d, <1>g, Fields DEF Kept, OnDisk, Readable
    <3>4. InUpload(g)'
      BY <3>1, <1>d, Fields DEF Kept, InUpload, Readable
    <3>5. InCommand(g)'
      BY <3>1, <1>c, <1>d, <1>e, <1>g DEF Kept, InCommand, Busy, Writers
    <3>6. QED  BY <3>2, <3>3, <3>4, <3>5 DEF Kept
  <2>2. QED  BY <2>1 DEF AllKept
<1>9. QED  BY <1>1, <1>2, <1>3, <1>4, <1>5, <1>6, <1>7, <1>8 DEF BackupIInv,
       FilesIInv

\* The file of the only save is empty, so it becomes what the save has marshalled.
LEMMA WrittenKeeps ==
  ASSUME BackupIInv, NEW w \in Writers, Written(w)
  PROVE  BackupIInv'
<1>0. /\ TypeOK /\ Shapes /\ Down /\ SaversOK /\ OneHolder
      /\ CommandOK /\ FileAgrees /\ AllKept
  BY DEF BackupIInv, FilesIInv
<1>a. PICK c \in {Whole(save[w].image), Torn} :
         /\ local' = [local EXCEPT ![save[w].file] = c]
         /\ local[save[w].file] = Empty => c = Whole(save[w].image)
  BY DEF Written, Overwritten
<1>b. /\ save[w].pc = "open" /\ save' = [save EXCEPT ![w] = NoSave]
      /\ UNCHANGED <<scenario, up, mem, saves, remote, age,
                     pending, ticked, due, reading, data>>
  BY DEF Written, loopVars
<1>c. syncChan' \in Seq(Files) /\ Len(syncChan') <= scenario.capacity
  <2>1. CASE syncChan' = syncChan
    BY <1>0, <2>1 DEF TypeOK
  <2>2. CASE Len(syncChan) < scenario.capacity
             /\ syncChan' = Append(syncChan, save[w].file)
    <3>1. save[w].file \in Files /\ syncChan \in Seq(Files)
      BY <1>0, Types DEF TypeOK
    <3>2. scenario.capacity \in Nat
      BY <1>0 DEF TypeOK
    <3>3. QED  BY <2>2, <3>1, <3>2
  <2>3. QED  BY <2>1, <2>2 DEF Written, triggerSync
<1>d. /\ save'[w] = NoSave /\ save' \in [Writers -> Save]
      /\ \A v \in Writers : v # w => save'[v] = save[v]
      /\ local' \in [Files -> Content]
  BY <1>0, <1>a, <1>b, Types DEF TypeOK
<1>f. /\ local'[save[w].file] = c
      /\ c = Torn \/ c = Whole(save[w].image)
      /\ local[save[w].file] = Empty => c = Whole(save[w].image)
      /\ \A g \in Files : g # save[w].file => local'[g] = local[g]
      /\ Whole(save[w].image).has = save[w].image
      /\ Whole(save[w].image).state = "whole"
  BY <1>0, <1>a, Types, Fields DEF TypeOK
<1>g. (~up /\ local'[MainFile].state # "missing")
        => local[MainFile].state # "missing"
  BY <1>0, <1>b, <1>f, Fields DEF CommandOK, Down, Busy, Writers, TypeOK
<1>t. \A v \in Writers : save[v].file \in Files
  BY <1>0, Types DEF TypeOK
<1>1. TypeOK'
  BY <1>0, <1>b, <1>c, <1>d DEF Debounce, TypeOK
<1>2. Shapes'
  BY <1>0, <1>a, <1>b, Types, Fields DEF Shapes, TypeOK
<1>3. Down'
  BY <1>0, <1>b DEF Down
<1>4. SaversOK'
  <2>1. ASSUME NEW v \in Savers
        PROVE  SaverOK(v)'
    <3>1. CASE v = w
      BY <3>1, <1>d, Fields DEF SaverOK, Busy
    <3>2. CASE v # w
      BY <1>0, <1>t, <1>b, <1>d, <1>f, Fields DEF SaversOK, SaverOK, OneHolder,
         CommandOK, Busy, Ordered, Writers, Down
    <3>3. QED  BY <3>1, <3>2
  <2>2. QED  BY <2>1 DEF SaversOK
<1>5. OneHolder'
  BY <1>0, <1>b, Fields DEF OneHolder, Busy, Ordered
<1>6. CommandOK'
  BY <1>0, <1>b, Fields DEF CommandOK, Busy, Ordered
<1>7. FileAgrees'
  <2>1. ASSUME NEW g \in Files, Ordered(g)', up',
               \A v \in Savers : save'[v].pc # "idle" => save'[v].file # g
        PROVE  Readable(local[g])' /\ local'[g].has = mem'[g]
    BY <2>1, <1>0, <1>b, <1>f DEF FileAgrees, SaversOK, SaverOK, CommandOK,
       Ordered, Readable, Busy, Writers
  <2>2. QED  BY <2>1 DEF FileAgrees
<1>8. AllKept'
  <2>1. ASSUME NEW g \in Files, Ordered(g)', "get" \notin Faults'
        PROVE  Kept(g)'
    <3>1. Ordered(g) /\ Kept(g)
      BY <2>1, <1>0, <1>b DEF AllKept, Ordered, Faults
    <3>2. InMemory(g)'
      BY <3>1, <1>0, <1>b, <1>f DEF Kept, InMemory, SaversOK, SaverOK,
         CommandOK, Busy, Writers
    <3>3. OnDisk(g)'
      BY <3>1, <1>0, <1>b, <1>f, <1>g, Fields DEF Kept, OnDisk, InMemory,
         InCommand, SaversOK, SaverOK, CommandOK, Readable, Busy, Writers, Down
    <3>4. InUpload(g)'
      BY <3>1, <1>0, <1>b, <1>f DEF Kept, InUpload, SaversOK, SaverOK,
         CommandOK, Busy, Writers, Down
    <3>5. InCommand(g)'
      BY <3>1, <1>b, <1>g, Fields DEF Kept, InCommand, Busy
    <3>6. QED  BY <3>2, <3>3, <3>4, <3>5 DEF Kept
  <2>2. QED  BY <2>1 DEF AllKept
<1>9. QED  BY <1>1, <1>2, <1>3, <1>4, <1>5, <1>6, <1>7, <1>8 DEF BackupIInv,
       FilesIInv

\* The clock and the loop change no file.
LEMMA TickKeeps ==
  ASSUME BackupIInv, Tick
  PROVE  BackupIInv'
<1>0. /\ TypeOK /\ Shapes /\ Down /\ SaversOK /\ OneHolder
      /\ CommandOK /\ FileAgrees /\ AllKept
  BY DEF BackupIInv, FilesIInv
<1>1. TypeOK'
  BY <1>0 DEF Debounce, TypeOK, Tick, Older, diskVars, memVars, loopVars
<1>2. Shapes'
  BY <1>0 DEF Shapes, Tick, diskVars
<1>3. Down'
  BY <1>0 DEF Down, Tick, memVars
<1>4. SaversOK'
  BY <1>0 DEF SaversOK, SaverOK, Busy, Ordered, Down, Tick, diskVars, memVars
<1>5. OneHolder'
  BY <1>0 DEF OneHolder, Busy, Ordered, Tick, memVars
<1>6. CommandOK'
  BY <1>0 DEF CommandOK, Busy, Ordered, Tick, memVars
<1>7. FileAgrees'
  BY <1>0 DEF FileAgrees, Ordered, Tick, diskVars, memVars
<1>8. AllKept'
  BY <1>0 DEF AllKept, Kept, InMemory, OnDisk, InUpload, InCommand, Ordered,
     Busy, Faults, Tick, diskVars, memVars
<1>9. QED  BY <1>1, <1>2, <1>3, <1>4, <1>5, <1>6, <1>7, <1>8 DEF BackupIInv,
       FilesIInv

LEMMA ReceiveKeeps ==
  ASSUME BackupIInv, Receive
  PROVE  BackupIInv'
<1>0. /\ TypeOK /\ Shapes /\ Down /\ SaversOK /\ OneHolder
      /\ CommandOK /\ FileAgrees /\ AllKept
  BY DEF BackupIInv, FilesIInv
<1>1. TypeOK'
  BY <1>0 DEF Debounce, TypeOK, Receive, diskVars, memVars
<1>2. Shapes'
  BY <1>0 DEF Shapes, Receive, diskVars
<1>3. Down'
  BY <1>0 DEF Down, Receive, memVars
<1>4. SaversOK'
  BY <1>0 DEF SaversOK, SaverOK, Busy, Ordered, Down, Receive, diskVars, memVars
<1>5. OneHolder'
  BY <1>0 DEF OneHolder, Busy, Ordered, Receive, memVars
<1>6. CommandOK'
  BY <1>0 DEF CommandOK, Busy, Ordered, Receive, memVars
<1>7. FileAgrees'
  BY <1>0 DEF FileAgrees, Ordered, Receive, diskVars, memVars
<1>8. AllKept'
  BY <1>0 DEF AllKept, Kept, InMemory, OnDisk, InUpload, InCommand, Ordered,
     Faults, Receive, Waiting, diskVars, memVars
<1>9. QED  BY <1>1, <1>2, <1>3, <1>4, <1>5, <1>6, <1>7, <1>8 DEF BackupIInv,
       FilesIInv

LEMMA OnTickKeeps ==
  ASSUME BackupIInv, OnTick
  PROVE  BackupIInv'
<1>0. /\ TypeOK /\ Shapes /\ Down /\ SaversOK /\ OneHolder
      /\ CommandOK /\ FileAgrees /\ AllKept
  BY DEF BackupIInv, FilesIInv
<1>1. TypeOK'
  BY <1>0, Types, Fields DEF Debounce, TypeOK, OnTick, Waiting, diskVars,
     memVars, loopVars, Writers
<1>2. Shapes'
  BY <1>0 DEF Shapes, OnTick, diskVars
<1>3. Down'
  BY <1>0 DEF Down, OnTick, memVars
<1>4. SaversOK'
  BY <1>0 DEF SaversOK, SaverOK, Busy, Ordered, Down, OnTick, diskVars, memVars
<1>5. OneHolder'
  BY <1>0 DEF OneHolder, Busy, Ordered, OnTick, memVars
<1>6. CommandOK'
  BY <1>0 DEF CommandOK, Busy, Ordered, OnTick, memVars
<1>7. FileAgrees'
  BY <1>0 DEF FileAgrees, Ordered, OnTick, diskVars, memVars
<1>8. AllKept'
  BY <1>0 DEF AllKept, Kept, InMemory, OnDisk, InUpload, InCommand, Ordered,
     Faults, OnTick, Waiting, diskVars, memVars
<1>9. QED  BY <1>1, <1>2, <1>3, <1>4, <1>5, <1>6, <1>7, <1>8 DEF BackupIInv,
       FilesIInv

\* The bytes read are the file, which has what the bucket has if it is readable.
LEMMA ReadFileKeeps ==
  ASSUME BackupIInv, NEW f \in Files, ReadFile(f)
  PROVE  BackupIInv'
<1>0. /\ TypeOK /\ Shapes /\ Down /\ SaversOK /\ OneHolder
      /\ CommandOK /\ FileAgrees /\ AllKept
  BY DEF BackupIInv, FilesIInv
<1>1. TypeOK'
  BY <1>0 DEF Debounce, TypeOK, ReadFile, diskVars, memVars, loopVars
<1>2. Shapes'
  BY <1>0 DEF Shapes, ReadFile, diskVars
<1>3. Down'
  BY DEF Down, ReadFile, memVars
<1>4. SaversOK'
  BY <1>0 DEF SaversOK, SaverOK, Busy, Ordered, Down, ReadFile, diskVars,
     memVars
<1>5. OneHolder'
  BY <1>0 DEF OneHolder, Busy, Ordered, ReadFile, memVars
<1>6. CommandOK'
  BY <1>0 DEF CommandOK, Busy, Ordered, ReadFile, memVars
<1>7. FileAgrees'
  BY <1>0 DEF FileAgrees, Ordered, ReadFile, diskVars, memVars
<1>8. AllKept'
  BY <1>0 DEF AllKept, Kept, InMemory, OnDisk, InUpload, InCommand, Ordered,
     Readable, Faults, ReadFile, diskVars, memVars
<1>9. QED  BY <1>1, <1>2, <1>3, <1>4, <1>5, <1>6, <1>7, <1>8 DEF BackupIInv,
       FilesIInv

\* What is put was in memory when it was read, and still is.
LEMMA PutObjectKeeps ==
  ASSUME BackupIInv, NEW f \in Files, PutObject(f)
  PROVE  BackupIInv'
<1>0. /\ TypeOK /\ Shapes /\ Down /\ SaversOK /\ OneHolder
      /\ CommandOK /\ FileAgrees /\ AllKept
  BY DEF BackupIInv, FilesIInv
<1>1. TypeOK'
  BY <1>0, Types DEF Debounce, TypeOK, PutObject, Handled, diskVars, memVars,
     loopVars
<1>2. Shapes'
  BY <1>0, Fields DEF Shapes, PutObject, Handled
<1>3. Down'
  BY DEF Down, PutObject, Handled, memVars
<1>4. SaversOK'
  BY <1>0 DEF SaversOK, SaverOK, Busy, Ordered, Down, PutObject, Handled,
     memVars
<1>5. OneHolder'
  BY <1>0 DEF OneHolder, Busy, Ordered, PutObject, Handled, memVars
<1>6. CommandOK'
  BY <1>0 DEF CommandOK, Busy, Ordered, PutObject, Handled, memVars
<1>7. FileAgrees'
  BY <1>0 DEF FileAgrees, Ordered, PutObject, Handled, memVars
<1>8. AllKept'
  BY <1>0 DEF AllKept, Kept, InMemory, OnDisk, InUpload, InCommand, Ordered,
     Faults, PutObject, Handled, memVars
<1>9. QED  BY <1>1, <1>2, <1>3, <1>4, <1>5, <1>6, <1>7, <1>8 DEF BackupIInv,
       FilesIInv

LEMMA PutFailsKeeps ==
  ASSUME BackupIInv, NEW f \in Files, PutFails(f)
  PROVE  BackupIInv'
<1>0. /\ TypeOK /\ Shapes /\ Down /\ SaversOK /\ OneHolder
      /\ CommandOK /\ FileAgrees /\ AllKept
  BY DEF BackupIInv, FilesIInv
<1>1. TypeOK'
  BY <1>0, Types DEF Debounce, TypeOK, PutFails, Handled, diskVars, memVars,
     loopVars
<1>2. Shapes'
  BY <1>0, Fields DEF Shapes, PutFails, Handled
<1>3. Down'
  BY DEF Down, PutFails, Handled, memVars
<1>4. SaversOK'
  BY <1>0 DEF SaversOK, SaverOK, Busy, Ordered, Down, PutFails, Handled, memVars
<1>5. OneHolder'
  BY <1>0 DEF OneHolder, Busy, Ordered, PutFails, Handled, memVars
<1>6. CommandOK'
  BY <1>0 DEF CommandOK, Busy, Ordered, PutFails, Handled, memVars
<1>7. FileAgrees'
  BY <1>0 DEF FileAgrees, Ordered, PutFails, Handled, memVars
<1>8. AllKept'
  BY <1>0 DEF AllKept, Kept, InMemory, OnDisk, InUpload, InCommand, Ordered,
     Readable, Faults, PutFails, Handled, memVars
<1>9. QED  BY <1>1, <1>2, <1>3, <1>4, <1>5, <1>6, <1>7, <1>8 DEF BackupIInv,
       FilesIInv

\* The files stay as the process left them; a command goes on.
LEMMA CrashKeeps ==
  ASSUME BackupIInv, Crash
  PROVE  BackupIInv'
<1>0. /\ TypeOK /\ Shapes /\ Down /\ SaversOK /\ OneHolder
      /\ CommandOK /\ FileAgrees /\ AllKept
  BY DEF BackupIInv, FilesIInv
<1>a. /\ up /\ up' = FALSE /\ local' = local
      /\ mem' = [f \in Files |-> {}]
      /\ UNCHANGED <<scenario, remote, saves, ticked, age>>
      /\ syncChan' = <<>> /\ pending' = {} /\ due' = {}
      /\ reading' = NoFile /\ data' = Missing
  BY DEF Crash, Stop
<1>b. /\ save' \in [Writers -> Save]
      /\ \A w \in Savers : save'[w] = NoSave
      /\ save'[Command] = save[Command]
  BY <1>0, Types DEF Crash, Stop, TypeOK, Writers
<1>c. syncChan' \in Seq(Files) /\ Len(syncChan') <= scenario.capacity
  BY <1>0, <1>a DEF TypeOK
<1>1. TypeOK'
  <2>1. local' \in [Files -> Content] /\ mem' \in [Files -> SUBSET (1 .. MaxSaves)]
    BY <1>0, <1>a DEF TypeOK
  <2>2. data' \in Content /\ reading' \in due' \cup {NoFile} /\ up' \in BOOLEAN
        /\ due' \subseteq pending' /\ pending' \subseteq Files
    BY <1>a, Types
  <2>3. QED  BY <1>0, <1>a, <1>b, <2>2 DEF TypeOK, Debounce
<1>2. Shapes'
  BY <1>0, <1>a, Fields DEF Shapes
<1>3. Down'
  BY <1>a, <1>b DEF Down
<1>4. SaversOK'
  BY <1>b, Fields DEF SaversOK, SaverOK, Busy
<1>5. OneHolder'
  BY <1>b, Fields DEF OneHolder, Busy
<1>6. CommandOK'
  BY <1>0, <1>a, <1>b DEF CommandOK, Busy
<1>7. FileAgrees'
  BY <1>a DEF FileAgrees
<1>8. AllKept'
  <2>1. ASSUME NEW g \in Files, Ordered(g), "get" \notin Faults
        PROVE  Kept(g)'
    <3>1. Kept(g)
      BY <1>0, <2>1 DEF AllKept
    <3>2. InMemory(g)' /\ InUpload(g)'
      BY <1>a DEF InMemory, InUpload
    <3>3. OnDisk(g)'
      BY <1>a, <3>1 DEF Kept, OnDisk
    <3>4. InCommand(g)'
      BY <1>0, <1>a, <1>b, <2>1 DEF InCommand, CommandOK, Busy
    <3>5. QED  BY <3>2, <3>3, <3>4 DEF Kept
  <2>2. QED  BY <1>a, <2>1 DEF AllKept, Ordered, Faults
<1>9. QED  BY <1>1, <1>2, <1>3, <1>4, <1>5, <1>6, <1>7, <1>8 DEF BackupIInv,
       FilesIInv

\* No file is left, and nothing to save one.
LEMMA LoseMachineKeeps ==
  ASSUME BackupIInv, LoseMachine
  PROVE  BackupIInv'
<1>0. /\ TypeOK /\ Shapes /\ Down /\ SaversOK /\ OneHolder
      /\ CommandOK /\ FileAgrees /\ AllKept
  BY DEF BackupIInv, FilesIInv
<1>a. /\ up /\ up' = FALSE /\ local' = [f \in Files |-> Missing]
      /\ mem' = [f \in Files |-> {}]
      /\ UNCHANGED <<scenario, remote, saves, ticked, age>>
      /\ syncChan' = <<>> /\ pending' = {} /\ due' = {}
      /\ reading' = NoFile /\ data' = Missing
  BY DEF LoseMachine, Stop
<1>b. /\ save' \in [Writers -> Save]
      /\ \A w \in Writers : save'[w] = NoSave
  BY Types DEF LoseMachine, Stop
<1>c. syncChan' \in Seq(Files) /\ Len(syncChan') <= scenario.capacity
  BY <1>0, <1>a DEF TypeOK
<1>1. TypeOK'
  <2>1. local' \in [Files -> Content] /\ mem' \in [Files -> SUBSET (1 .. MaxSaves)]
    BY <1>a, Types
  <2>2. data' \in Content /\ reading' \in due' \cup {NoFile} /\ up' \in BOOLEAN
        /\ due' \subseteq pending' /\ pending' \subseteq Files
    BY <1>a, Types
  <2>3. QED  BY <1>0, <1>a, <1>b, <2>2 DEF TypeOK, Debounce
<1>2. Shapes'
  BY <1>0, <1>a, Fields DEF Shapes
<1>3. Down'
  BY <1>a, <1>b DEF Down, Writers
<1>4. SaversOK'
  BY <1>b, Fields DEF SaversOK, SaverOK, Busy, Writers
<1>5. OneHolder'
  BY <1>b, Fields DEF OneHolder, Busy, Writers
<1>6. CommandOK'
  BY <1>b, Fields DEF CommandOK, Busy, Writers
<1>7. FileAgrees'
  BY <1>a DEF FileAgrees
<1>8. AllKept'
  BY <1>a, Fields DEF AllKept, Kept, InMemory, OnDisk, InUpload, InCommand
<1>9. QED  BY <1>1, <1>2, <1>3, <1>4, <1>5, <1>6, <1>7, <1>8 DEF BackupIInv,
       FilesIInv

\* The memory is what the files hold after the restoration.
LEMMA ServeKeeps ==
  ASSUME BackupIInv, Serve
  PROVE  BackupIInv'
<1>0. /\ TypeOK /\ Shapes /\ Down /\ SaversOK /\ OneHolder
      /\ CommandOK /\ FileAgrees /\ AllKept
  BY DEF BackupIInv, FilesIInv
<1>a. PICK got \in SUBSET Files :
         /\ local' = [f \in Files |-> IF f \in got THEN remote[f] ELSE local[f]]
         /\ local[MainFile].state # "missing" => got = {}
         /\ (local[MainFile].state = "missing" /\ "get" \notin Faults)
              => got = Files
  <2>1. CASE local[MainFile].state = "missing"
    <3>1. PICK got \in Got : local' = Restored(got)
      BY <2>1 DEF Serve, StartDisks
    <3>2. got \in SUBSET Files /\ ("get" \notin Faults => got = Files)
      BY DEF Got
    <3>3. QED  BY <2>1, <3>1, <3>2 DEF Restored
  <2>2. CASE local[MainFile].state # "missing"
    <3>1. local' = local
      BY <2>2 DEF Serve, StartDisks
    <3>2. local' = [f \in Files |-> IF f \in {} THEN remote[f] ELSE local[f]]
      BY <1>0, <3>1 DEF TypeOK
    <3>3. WITNESS {} \in SUBSET Files
    <3>4. QED  BY <2>2, <3>2
  <2>3. QED  BY <2>1, <2>2
<1>b. /\ ~up /\ up' = TRUE
      /\ scenario.offline => save[Command].pc = "idle"
      /\ \A f \in Files : Readable(local'[f])
      /\ mem' = [f \in Files |-> local'[f].has]
      /\ UNCHANGED <<scenario, save, saves, remote, syncChan, age,
                     pending, ticked, due, reading, data>>
  BY DEF Serve, loopVars
<1>c. local' \in [Files -> Content]
  BY <1>0, <1>a DEF TypeOK
<1>1. TypeOK'
  <2>1. mem' \in [Files -> SUBSET (1 .. MaxSaves)]
    BY <1>b, <1>c, Types
  <2>2. QED  BY <1>0, <1>b, <1>c, <2>1 DEF TypeOK, Debounce
<1>2. Shapes'
  BY <1>0, <1>a, <1>b DEF Shapes
<1>3. Down'
  BY <1>b DEF Down
<1>4. SaversOK'
  BY <1>0, <1>b, Fields DEF SaversOK, SaverOK, Busy, Down
<1>5. OneHolder'
  BY <1>0, <1>b DEF OneHolder, SaversOK, SaverOK, Busy, Ordered
<1>6. CommandOK'
  BY <1>0, <1>b DEF CommandOK, Busy, Ordered
<1>7. FileAgrees'
  BY <1>b DEF FileAgrees
<1>8. AllKept'
  BY <1>0, <1>a, <1>b DEF AllKept, Kept, InMemory, OnDisk, InUpload, InCommand,
     Ordered, Down, Faults
<1>9. QED  BY <1>1, <1>2, <1>3, <1>4, <1>5, <1>6, <1>7, <1>8 DEF BackupIInv,
       FilesIInv

LEMMA StutterKeeps ==
  ASSUME BackupIInv, UNCHANGED vars
  PROVE  BackupIInv'
<1>0. /\ TypeOK /\ Shapes /\ Down /\ SaversOK /\ OneHolder
      /\ CommandOK /\ FileAgrees /\ AllKept
  BY DEF BackupIInv, FilesIInv
<1>1. TypeOK'
  BY <1>0 DEF Debounce, TypeOK, vars, diskVars, memVars, loopVars
<1>2. Shapes'
  BY <1>0 DEF Shapes, vars, diskVars, loopVars
<1>3. Down'
  BY <1>0 DEF Down, vars, memVars, loopVars
<1>4. SaversOK'
  BY <1>0 DEF SaversOK, SaverOK, Busy, Ordered, Down, vars, diskVars, memVars
<1>5. OneHolder'
  BY <1>0 DEF OneHolder, Busy, Ordered, vars, memVars
<1>6. CommandOK'
  BY <1>0 DEF CommandOK, Busy, Ordered, vars, memVars
<1>7. FileAgrees'
  BY <1>0 DEF FileAgrees, Ordered, vars, diskVars, memVars
<1>8. AllKept'
  BY <1>0 DEF AllKept, Kept, InMemory, OnDisk, InUpload, InCommand, Ordered,
     Busy, Faults, vars, diskVars, memVars, loopVars
<1>9. QED  BY <1>1, <1>2, <1>3, <1>4, <1>5, <1>6, <1>7, <1>8 DEF BackupIInv,
       FilesIInv

\* The server starts on an empty machine with an empty bucket.
LEMMA InitOK == Init => BackupIInv
<1> SUFFICES ASSUME Init PROVE BackupIInv
  OBVIOUS
<1>1. TypeOK
  <2>1. /\ <<>> \in Seq(Files) /\ Len(<<>>) <= scenario.capacity
        /\ 0 \in 0 .. Debounce
    BY DEF Init, Debounce
  <2>a. scenario \in Scenarios /\ up \in BOOLEAN /\ ticked \in BOOLEAN
    BY Zenon DEF Init
  <2>c. saves \in 0 .. MaxSaves
    BY DEF Init
  <2>b. mem \in [Files -> SUBSET (1 .. MaxSaves)]
    BY DEF Init
  <2>2. /\ save \in [Writers -> Save] /\ data \in Content
        /\ local \in [Files -> Content] /\ remote \in [Files -> Content]
    BY Types DEF Init
  <2>3. due \subseteq pending /\ pending \subseteq Files /\ reading \in due \cup {NoFile}
    BY DEF Init
  <2>4. age \in [Files -> 0 .. Debounce]
    BY <2>1 DEF Init
  <2>5. QED  BY <2>a, <2>2, <2>4 DEF Init, TypeOK
<1>2. Shapes /\ Down
  BY Fields DEF Init, Shapes, Down
<1>3. SaversOK /\ OneHolder /\ CommandOK
  BY Fields DEF Init, SaversOK, SaverOK, OneHolder, CommandOK, Busy, Writers
<1>4. FileAgrees /\ AllKept
  BY Fields DEF Init, FileAgrees, Readable, AllKept, Kept, InMemory, OnDisk,
     InUpload, InCommand
<1>5. QED  BY <1>1, <1>2, <1>3, <1>4 DEF BackupIInv, FilesIInv

\* Every action keeps the invariant.
LEMMA NextKeeps == BackupIInv /\ [Next]_vars => BackupIInv'
<1> SUFFICES ASSUME BackupIInv, [Next]_vars PROVE BackupIInv'
  OBVIOUS
<1>1. CASE UNCHANGED vars
  BY <1>1, StutterKeeps
<1>2. CASE \E w \in Savers, f \in Files : Change(w, f)
  BY <1>2, ChangeKeeps
<1>3. CASE \E f \in Files : CommandChange(f)
  BY <1>3, CommandChangeKeeps
<1>4. CASE \E w \in Writers : Write(w)
  BY <1>4, MarshalKeeps, TruncateKeeps, WrittenKeeps DEF Write
<1>5. CASE Tick \/ Receive \/ OnTick
  BY <1>5, TickKeeps, ReceiveKeeps, OnTickKeeps
<1>6. CASE Upload
  BY <1>6, ReadFileKeeps, PutObjectKeeps, PutFailsKeeps DEF Upload
<1>7. CASE Crash \/ LoseMachine \/ Serve
  BY <1>7, CrashKeeps, LoseMachineKeeps, ServeKeeps
<1>8. QED
  BY <1>1, <1>2, <1>3, <1>4, <1>5, <1>6, <1>7 DEF Next

\* Only a put changes the bucket, and of an ordered file it puts all there was.
LEMMA PutGrows ==
  ASSUME BackupIInv, [Next]_vars, NEW f \in Files, Ordered(f),
         "get" \notin Faults, remote'[f].state = "whole"
  PROVE  remote[f].has \subseteq remote'[f].has
<1>1. CASE UNCHANGED remote
  BY <1>1
<1>2. ASSUME NEW g \in Files, PutObject(g)
      PROVE  remote[f].has \subseteq remote'[f].has
  <2>1. reading = g /\ remote' = [remote EXCEPT ![g] = data]
    BY <1>2 DEF PutObject
  <2>2. remote \in [Files -> Content] /\ InUpload(f)
    BY DEF BackupIInv, FilesIInv, TypeOK, AllKept, Kept
  <2>3. QED  BY <2>1, <2>2 DEF InUpload
<1>3. UNCHANGED remote \/ \E g \in Files : PutObject(g)
  BY DEF Next, Change, CommandChange, Write, Marshal, Truncate, Written, Tick,
     Receive, OnTick, Upload, ReadFile, PutFails, Crash, LoseMachine, Stop,
     Serve, vars, diskVars
<1>4. QED  BY <1>2, <1>3

\* A file that is saved under its mutex, and only by commands that run while the
\* server does not, is readable and holds what the server has in memory, unless
\* a save of it is under way: after any crash, loss of the machine, failed
\* upload and restoration.
THEOREM FilesSafe == Spec => []FilesInv
<1>1. BackupIInv => FilesInv
  BY DEF BackupIInv, FilesIInv, FilesInv
<1>2. QED
  BY InitOK, NextKeeps, <1>1, PTL DEF Spec

\* An upload of such a file never drops a change that the bucket had, if no
\* restoration fails half way.
THEOREM UploadsGrow == Spec => BackupGrows
<1>1. BackupIInv /\ [Next]_vars =>
        [\A f \in Files :
           (Ordered(f) /\ "get" \notin Faults /\ remote'[f].state = "whole")
             => remote[f].has \subseteq remote'[f].has]_vars
  BY PutGrows
<1>2. QED
  BY InitOK, NextKeeps, <1>1, PTL DEF Spec, BackupGrows

(***************************************************************************)
(* The executable file                                                     *)
(***************************************************************************)
WholeOf(t) == [of |-> t, state |-> "whole"]
TornOf(t)  == [of |-> t, state |-> "torn"]

\* What a step of doUpdate may rely on: an invocation has a release, has bytes
\* of that release, and writes only bytes that it has verified.
Verified ==
  \A p \in Procs :
    /\ pc[p] # "idle" => tag[p] \in Tags
    /\ pc[p] = "verify" => bytes[p] \in Bytes /\ bytes[p].of = tag[p]
    /\ pc[p] \in {"write", "written", "rename"} => bytes[p] = WholeOf(tag[p])

\* Without overlap the temporary file belongs to the one invocation there is.
Alone ==
  ~overlap =>
    /\ \A p, q \in Procs : pc[p] # "idle" /\ pc[q] # "idle" => p = q
    /\ \A p \in Procs :
         /\ pc[p] = "written" => open[p] = "tmp" /\ tmp = TornOf(tag[p])
         /\ pc[p] = "rename" => tmp = bytes[p]

UpdateStrong == UpdateInv /\ Verified /\ Alone

\* An invocation starts only when it is alone, or updates may overlap.
LEMMA InvokeKeeps ==
  ASSUME UpdateStrong, NEW p \in Procs, NEW t \in Tags, Invoke(p, t)
  PROVE  UpdateStrong'
<1> USE TagsAssumption DEF UpdateStrong, UpdateInv, UpdateTypes
<1>1. UpdateTypes'
  BY DEF Invoke, Goto, PCs, Absent
<1>2. InstalledWhole'
  BY DEF Invoke, Goto, InstalledWhole
<1>3. Verified'
  BY DEF Invoke, Goto, Verified
<1>4. Alone'
  BY DEF Invoke, Goto, Alone
<1>5. QED  BY <1>1, <1>2, <1>3, <1>4

\* The checksum has come, or not.
LEMMA FetchChecksumKeeps ==
  ASSUME UpdateStrong, NEW p \in Procs, FetchChecksum(p)
  PROVE  UpdateStrong'
<1> USE TagsAssumption DEF UpdateStrong, UpdateInv, UpdateTypes
<1>1. UpdateTypes'
  BY DEF FetchChecksum, Fail, Goto, Forget, PCs, Absent
<1>2. InstalledWhole'
  BY DEF FetchChecksum, Fail, Goto, Forget, InstalledWhole
<1>3. Verified'
  BY DEF FetchChecksum, Fail, Goto, Forget, Verified
<1>4. Alone'
  BY DEF FetchChecksum, Fail, Goto, Forget, Alone
<1>5. QED  BY <1>1, <1>2, <1>3, <1>4

\* What was downloaded is of the release asked for, whole or corrupt.
LEMMA DownloadKeeps ==
  ASSUME UpdateStrong, NEW p \in Procs, Download(p)
  PROVE  UpdateStrong'
<1> USE TagsAssumption DEF UpdateStrong, UpdateInv, UpdateTypes
<1>1. UpdateTypes'
  <2>1. CASE Fail(p, "download") /\ UNCHANGED <<tmp, open>>
    BY <2>1 DEF Fail, Goto, Forget, PCs, Absent
  <2>2. CASE ~Fail(p, "download")
    <3>1. PICK s \in Outcomes :
            bytes' = [bytes EXCEPT ![p] = [of |-> tag[p], state |-> s]]
      BY <2>2 DEF Download
    <3>2. [of |-> tag[p], state |-> s] \in Bytes
      BY <2>2 DEF Download, Goto, Outcomes, Bytes, Verified
    <3>3. bytes' \in [Procs -> Bytes \cup {Absent}]
      BY <3>1, <3>2
    <3>4. QED  BY <2>2, <3>1, <3>3 DEF Download, Goto, PCs
  <2>3. QED  BY <2>1, <2>2 DEF Download
<1>2. InstalledWhole'
  BY DEF Download, Outcomes, Fail, Goto, Forget, InstalledWhole
<1>3. Verified'
  BY DEF Download, Outcomes, Fail, Goto, Forget, Verified, Bytes
<1>4. Alone'
  BY DEF Download, Outcomes, Fail, Goto, Forget, Alone
<1>5. QED  BY <1>1, <1>2, <1>3, <1>4

\* The comparison is what makes the bytes that are written verified ones.
LEMMA VerifyKeeps ==
  ASSUME UpdateStrong, NEW p \in Procs, Verify(p)
  PROVE  UpdateStrong'
<1> USE TagsAssumption DEF UpdateStrong, UpdateInv, UpdateTypes
<1>1. UpdateTypes'
  BY DEF Verify, Matches, Fail, Goto, Forget, PCs, Absent
<1>2. InstalledWhole'
  BY DEF Verify, Matches, Fail, Goto, Forget, InstalledWhole
<1>3. Verified'
  BY DEF Verify, Matches, Fail, Goto, Forget, Verified, WholeOf, Bytes
<1>4. Alone'
  BY DEF Verify, Matches, Fail, Goto, Forget, Alone
<1>5. QED  BY <1>1, <1>2, <1>3, <1>4

\* The temporary file is emptied.
LEMMA WriteBeginKeeps ==
  ASSUME UpdateStrong, NEW p \in Procs, WriteBegin(p)
  PROVE  UpdateStrong'
<1> USE TagsAssumption DEF UpdateStrong, UpdateInv, UpdateTypes
<1>1. UpdateTypes'
  BY DEF WriteBegin, Goto, PCs, Bytes, Verified
<1>2. InstalledWhole'
  BY DEF WriteBegin, Goto, InstalledWhole
<1>3. Verified'
  BY DEF WriteBegin, Goto, Verified
<1>4. Alone'
  BY DEF WriteBegin, Goto, Alone, Verified, WholeOf, TornOf
<1>5. QED  BY <1>1, <1>2, <1>3, <1>4

\* The bytes go where the open file is: without overlap, the temporary file.
LEMMA WriteEndKeeps ==
  ASSUME UpdateStrong, NEW p \in Procs, WriteEnd(p)
  PROVE  UpdateStrong'
<1> USE TagsAssumption DEF UpdateStrong, UpdateInv, UpdateTypes
<1>1. UpdateTypes'
  BY DEF WriteEnd, Filled, Close, Fail, Goto, Forget, PCs, Bytes, Absent, Verified, WholeOf
<1>2. InstalledWhole'
  BY DEF WriteEnd, Filled, Close, Fail, Goto, Forget, InstalledWhole,
     Verified, Alone, WholeOf, TornOf
<1>3. Verified'
  BY DEF WriteEnd, Filled, Close, Fail, Goto, Forget, Verified
<1>4. Alone'
  BY DEF WriteEnd, Filled, Close, Fail, Goto, Forget, Alone, Verified, WholeOf, TornOf
<1>5. QED  BY <1>1, <1>2, <1>3, <1>4

\* The temporary file is put in place, or is removed.
LEMMA RenameKeeps ==
  ASSUME UpdateStrong, NEW p \in Procs, Rename(p)
  PROVE  UpdateStrong'
<1> USE TagsAssumption DEF UpdateStrong, UpdateInv, UpdateTypes
<1>1. CASE tmp # Absent /\ Goto(p, "rename", "idle") /\ exec' = tmp
           /\ tmp' = Absent /\ Forget(p) /\ Renamed
  <2>1. open' \in [Procs -> {"closed", "tmp", "exec", "removed"}]
    BY <1>1 DEF Renamed
  <2>2. \A q \in Procs : (open'[q] = "closed") = (open[q] = "closed")
    BY <1>1 DEF Renamed
  <2>3. UpdateTypes'
    BY <1>1, <2>1, <2>2 DEF Goto, Forget, PCs, Absent
  <2>4. InstalledWhole'
    BY <1>1 DEF Goto, InstalledWhole, Verified, Alone, WholeOf, Absent
  <2>5. Verified' /\ Alone'
    BY <1>1 DEF Goto, Forget, Verified, Alone, WholeOf, PCs
  <2>6. QED  BY <2>3, <2>4, <2>5
<1>2. CASE Fail(p, "rename") /\ tmp' = Absent /\ Removed
  <2>1. open' \in [Procs -> {"closed", "tmp", "exec", "removed"}]
    BY <1>2 DEF Removed
  <2>2. \A q \in Procs : (open'[q] = "closed") = (open[q] = "closed")
    BY <1>2 DEF Removed
  <2>3. UpdateTypes'
    BY <1>2, <2>1, <2>2 DEF Fail, Goto, Forget, PCs, Absent
  <2>4. InstalledWhole'
    BY <1>2 DEF Fail, Goto, InstalledWhole, Absent
  <2>5. Verified' /\ Alone'
    BY <1>2 DEF Fail, Goto, Forget, Verified, Alone, WholeOf, PCs
  <2>6. QED  BY <2>3, <2>4, <2>5
<1>3. QED  BY <1>1, <1>2 DEF Rename

\* An invocation is killed.
LEMMA KillKeeps ==
  ASSUME UpdateStrong, NEW p \in Procs, Kill(p)
  PROVE  UpdateStrong'
<1> USE TagsAssumption DEF UpdateStrong, UpdateInv, UpdateTypes
<1>1. UpdateTypes'
  BY DEF Kill, Close, Goto, Forget, PCs, Absent
<1>2. InstalledWhole'
  BY DEF Kill, Close, Goto, Forget, InstalledWhole
<1>3. Verified'
  BY DEF Kill, Close, Goto, Forget, Verified
<1>4. Alone'
  BY DEF Kill, Close, Goto, Forget, Alone
<1>5. QED  BY <1>1, <1>2, <1>3, <1>4

\* The strengthened invariant holds at first and is kept by every step.
LEMMA InitStrong == UpdateInit => UpdateStrong
BY TagsAssumption DEF UpdateInit, UpdateStrong, UpdateInv, UpdateTypes, InstalledWhole, Verified, Alone,
       Bytes, Absent, PCs

LEMMA NextStrong == UpdateStrong /\ [UpdateNext]_updateVars => UpdateStrong'
<1> SUFFICES ASSUME UpdateStrong, [UpdateNext]_updateVars PROVE UpdateStrong'
  OBVIOUS
<1>1. CASE UNCHANGED updateVars
  BY <1>1 DEF updateVars, UpdateStrong, UpdateInv, UpdateTypes, InstalledWhole, Verified, Alone
<1>2. CASE UpdateNext
  BY <1>2, InvokeKeeps, FetchChecksumKeeps, DownloadKeeps, VerifyKeeps,
     WriteBeginKeeps, WriteEndKeeps, RenameKeeps, KillKeeps DEF UpdateNext
<1>3. QED  BY <1>1, <1>2

LEMMA StrongHolds == UpdateSpec => []UpdateStrong
BY InitStrong, NextStrong, PTL DEF UpdateSpec

\* No bytes without their checksum reach the executable, however many updates
\* overlap; and without overlap it is whole at every moment (update.go:128-154).
THEOREM UpdateSafe == UpdateSpec => []UpdateInv
<1>1. UpdateStrong => UpdateInv  BY DEF UpdateStrong
<1>2. QED  BY <1>1, StrongHolds, PTL

\* Without overlap the executable changes only when an invocation renames, to
\* the release that this invocation was asked for (update.go:67-69, 147).
THEOREM UpdateInstallsItsTag == UpdateSpec => InstallsItsTag
<1> DEFINE Its == ~overlap /\ exec' # exec =>
                    \E p \in Procs : pc[p] = "rename" /\ exec'.of = tag[p]
<1>1. UpdateStrong /\ [UpdateNext]_updateVars => [Its]_updateVars
  <2> SUFFICES ASSUME UpdateStrong, UpdateNext, ~overlap, exec' # exec
               PROVE  \E p \in Procs : pc[p] = "rename" /\ exec'.of = tag[p]
    OBVIOUS
  <2>1. PICK p \in Procs : WriteEnd(p) \/ Rename(p)
    BY DEF UpdateNext, Invoke, FetchChecksum, Download, Verify, WriteBegin, Kill, Fail
  <2>2. ~WriteEnd(p)
    BY DEF WriteEnd, Fail, Goto, UpdateStrong, Alone
  <2>3. pc[p] = "rename" /\ exec' = tmp
    BY <2>1, <2>2 DEF Rename, Fail, Goto
  <2>4. exec' = WholeOf(tag[p])
    BY <2>3 DEF UpdateStrong, Alone, Verified
  <2>5. QED  BY <2>3, <2>4 DEF WholeOf
<1>2. QED  BY <1>1, StrongHolds, PTL DEF UpdateSpec, InstallsItsTag
=============================================================================
