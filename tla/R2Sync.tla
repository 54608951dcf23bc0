------------------------------- MODULE R2Sync -------------------------------
(***************************************************************************)
(* The data files: the goroutines of the server, and commands in processes *)
(* of their own, which save them, the event-driven backup of backup.go,    *)
(* and the start of the server.  A save writes its file and puts the name  *)
(* into syncChan; one goroutine collects the names and, at a tick of its   *)
(* ticker, uploads the files that have been quiet for syncDebounce.        *)
(* cmdServe restores from R2 when instances.json is missing.               *)
(*                                                                         *)
(* The content of a file is the set of the changes it records.  Time is    *)
(* counted in periods of the ticker.                                       *)
(***************************************************************************)
EXTENDS Naturals, Sequences, FiniteSets

CONSTANTS Files, MainFile, \* MainFile is instances.json
          NoFile,
          Savers, Command, \* goroutines of the server, and a command
          MaxSaves,  \* bound: changes made
          Scenarios  \* sizes and faults: see the assumption

ASSUME FilesAssumption == MainFile \in Files /\ NoFile \notin Files
ASSUME SaversAssumption == Command \notin Savers
ASSUME MaxSavesAssumption == MaxSaves \in Nat
\* unlocked: files that some saves write after their mutex was released
\* (instances.json, health.go:230; users.json, auth.go:203; ...).  cli: files
\* that a command changes (users.json, nodes.json, admin-tokens.json; a command
\* has loaded no instances, so remove-user finds none to save: auth.go:180).
\* offline: commands run only while the server does not.
\* capacity: of syncChan.  debounce: syncDebounce in periods of the ticker.
\* faults: "put", "get": R2 refuses.  "crash": the process ends.  "lose": and
\* its machine with the data directory.
ASSUME ScenariosAssumption ==
  Scenarios \subseteq [unlocked : SUBSET Files, cli : SUBSET (Files \ {MainFile}),
                      offline : BOOLEAN,
                      capacity : Nat \ {0}, debounce : Nat \ {0},
                      faults : SUBSET {"put", "get", "crash", "lose"}]

VARIABLES
  scenario, \* one of Scenarios, from beginning to end
  up,       \* the process serves
  mem,      \* the changes the process has in memory, per file
  save,     \* per saver, the save under way
  saves,    \* the number of changes made
  local, remote, \* the data directory and the bucket
  syncChan,
  pending,  \* the keys of the loop's map pending
  age,      \* now.Sub(pending[f])
  ticked,   \* the ticker's channel holds a tick
  due,      \* the files that this tick still uploads
  reading, data  \* the upload under way, and the bytes it read

diskVars == <<local, remote>>
memVars  == <<up, mem, save, saves>>
loopVars == <<pending, ticked, due, reading, data>>
vars == <<scenario, diskVars, memVars, syncChan, loopVars, age>>
Debounce == scenario.debounce
Faults == scenario.faults

\* "empty": truncated and not yet written.  "torn": two writes at once.
Content == [state : {"missing", "empty", "torn", "whole"}, has : SUBSET (1 .. MaxSaves)]
Missing == [state |-> "missing", has |-> {}]
Empty   == [state |-> "empty", has |-> {}]
Torn    == [state |-> "torn", has |-> {}]
Whole(S) == [state |-> "whole", has |-> S]
Readable(c) == c.state \in {"missing", "whole"}

\* A save has changed its map, then has its bytes (json.MarshalIndent), then
\* has the file open and truncated.
Save == [pc : {"idle", "changed", "marshalled", "open"}, file : Files,
         locked : BOOLEAN, image : SUBSET (1 .. MaxSaves)]
NoSave == [pc |-> "idle", file |-> MainFile, locked |-> FALSE, image |-> {}]
Writers == Savers \cup {Command}

TypeOK ==
  /\ scenario \in Scenarios /\ up \in BOOLEAN
  /\ mem \in [Files -> SUBSET (1 .. MaxSaves)]
  /\ save \in [Writers -> Save] /\ saves \in 0 .. MaxSaves
  /\ local \in [Files -> Content] /\ remote \in [Files -> Content]
  /\ syncChan \in Seq(Files) /\ Len(syncChan) <= scenario.capacity
  /\ due \subseteq pending /\ pending \subseteq Files
  /\ age \in [Files -> 0 .. Debounce]
  /\ ticked \in BOOLEAN
  /\ reading \in due \cup {NoFile} /\ data \in Content

(***************************************************************************)
(* Saves                                                                   *)
(***************************************************************************)
\* Mutant of triggerSync: the names are kept in a list without a limit.
triggerSyncUnbounded(f) == syncChan' = Append(syncChan, f)
triggerSync(f) ==
  syncChan' = IF Len(syncChan) < scenario.capacity THEN Append(syncChan, f)
              ELSE syncChan

MutexFree(f) == \A w \in Savers : ~(save[w].locked /\ save[w].file = f)
\* Mutant of MayUnlock: every save comes after the unlock.
MayUnlockAlways(f) == TRUE
MayUnlock(f) == f \in scenario.unlocked
\* A handler changes the map under its mutex.  It keeps the mutex until the
\* file is written, or not even until the map is read again for the save.
Change(w, f) ==
  /\ up /\ save[w].pc = "idle" /\ MutexFree(f) /\ saves < MaxSaves
  /\ saves' = saves + 1
  /\ mem' = [mem EXCEPT ![f] = @ \cup {saves'}]
  /\ \/ save' = [save EXCEPT ![w] = [pc |-> "marshalled", file |-> f,
                                     locked |-> TRUE, image |-> mem'[f]]]
     \/ /\ MayUnlock(f)
        /\ save' = [save EXCEPT ![w] = [NoSave EXCEPT !.pc = "changed", !.file = f]]
  /\ UNCHANGED <<scenario, up, diskVars, syncChan, loopVars, age>>
Marshal(w) ==
  /\ save[w].pc = "changed"
  /\ save' = [save EXCEPT ![w].pc = "marshalled", ![w].image = mem[save[w].file]]
  /\ UNCHANGED <<scenario, up, mem, saves, diskVars, syncChan, loopVars, age>>

\* A command reads the file, changes what it read, and saves it.
CommandChange(f) ==
  /\ f \in scenario.cli /\ save[Command].pc = "idle" /\ saves < MaxSaves
  /\ scenario.offline => ~up
  /\ Readable(local[f])
  /\ saves' = saves + 1
  /\ save' = [save EXCEPT ![Command] = [pc |-> "marshalled", file |-> f,
                           locked |-> FALSE, image |-> local[f].has \cup {saves'}]]
  /\ UNCHANGED <<scenario, up, mem, diskVars, syncChan, loopVars, age>>

\* os.WriteFile empties the file ...
Truncate(w) ==
  /\ save[w].pc = "marshalled"
  /\ save' = [save EXCEPT ![w].pc = "open"]
  /\ local' = [local EXCEPT ![save[w].file] = Empty]
  /\ UNCHANGED <<scenario, up, mem, saves, remote, syncChan, loopVars, age>>
\* ... and writes it: over what another save wrote since, if it did, of which
\* the end may stay.  The name goes into the channel of the process.
Overwritten(old, image) ==
  IF old = Empty THEN {Whole(image)} ELSE {Whole(image), Torn}
Written(w) ==
  LET f == save[w].file IN
  /\ save[w].pc = "open"
  /\ save' = [save EXCEPT ![w] = NoSave]
  /\ \E c \in Overwritten(local[f], save[w].image) : local' = [local EXCEPT ![f] = c]
  /\ IF w = Command THEN UNCHANGED syncChan ELSE triggerSync(f)
  /\ UNCHANGED <<scenario, up, mem, saves, remote, loopVars, age>>

(***************************************************************************)
(* startSyncLoop                                                           *)
(***************************************************************************)
Older(t) == [f \in Files |-> IF t[f] < Debounce THEN t[f] + 1 ELSE t[f]]
Tick ==
  /\ age' = Older(age)
  /\ ticked' = TRUE
  /\ UNCHANGED <<scenario, diskVars, memVars, syncChan,
                 pending, due, reading, data>>

Waiting == up /\ due = {}
Receive ==
  /\ Waiting /\ syncChan # <<>>
  /\ pending' = pending \cup {Head(syncChan)}
  /\ age' = [age EXCEPT ![Head(syncChan)] = 0]
  /\ syncChan' = Tail(syncChan)
  /\ UNCHANGED <<scenario, diskVars, memVars, ticked, due, reading, data>>
OnTick ==
  /\ Waiting /\ ticked
  /\ ticked' = FALSE
  /\ due' = {f \in pending : age[f] = Debounce}
  /\ UNCHANGED <<scenario, diskVars, memVars, syncChan,
                 pending, reading, data, age>>

\* syncFileToR2: the whole file is read, and then put.
ReadFile(f) ==
  /\ up /\ f \in due /\ reading = NoFile
  /\ reading' = f
  /\ data' = local[f]
  /\ UNCHANGED <<scenario, diskVars, memVars, syncChan,
                 pending, due, ticked, age>>
\* Mutant of Handled: names sent during the upload count as handled by it.
HandledDraining(f) ==
  /\ due' = due \ {f}
  /\ pending' = pending \ {f}
  /\ syncChan' = SelectSeq(syncChan, LAMBDA g : g # f)
  /\ reading' = NoFile /\ data' = Missing
  /\ UNCHANGED <<scenario, local, memVars, ticked, age>>
Handled(f) ==
  /\ due' = due \ {f}
  /\ pending' = pending \ {f}
  /\ reading' = NoFile /\ data' = Missing
  /\ UNCHANGED <<scenario, local, memVars, syncChan, ticked, age>>
PutObject(f) ==
  /\ up /\ reading = f
  /\ remote' = [remote EXCEPT ![f] = data]
  /\ Handled(f)
\* The error is logged, and the name is dropped all the same.
PutFails(f) ==
  /\ "put" \in Faults /\ up /\ reading = f
  /\ UNCHANGED remote
  /\ Handled(f)

(***************************************************************************)
(* The end of the process, and cmdServe                                    *)
(***************************************************************************)
\* The savers in ended stop; the data directory is then disk.
Stop(disk, ended) ==
  /\ up /\ up' = FALSE
  /\ local' = disk
  /\ mem' = [f \in Files |-> {}]
  /\ save' = [w \in Writers |-> IF w \in ended THEN NoSave ELSE save[w]]
  /\ syncChan' = <<>> /\ pending' = {} /\ due' = {}
  /\ reading' = NoFile /\ data' = Missing
  /\ UNCHANGED <<scenario, remote, saves, ticked, age>>
Crash == "crash" \in Faults /\ Stop(local, Savers)
LoseMachine == "lose" \in Faults /\ Stop([f \in Files |-> Missing], Writers)

\* restoreFromR2 stops at the first error; what it has got by then stays.
Restored(got) == [f \in Files |-> IF f \in got THEN remote[f] ELSE local[f]]
Got == IF "get" \in Faults THEN SUBSET Files ELSE {Files}
\* Mutant of StartDisks: nothing is restored.
StartDisksAsFound == {local}
StartDisks ==
  IF local[MainFile].state = "missing" THEN {Restored(got) : got \in Got}
  ELSE {local}
\* A file that does not parse ends the process (log.Fatalf).
Serve ==
  /\ ~up
  /\ scenario.offline => save[Command].pc = "idle"
  /\ \E disk \in StartDisks :
       /\ local' = disk
       /\ \A f \in Files : Readable(disk[f])
       /\ mem' = [f \in Files |-> disk[f].has]
  /\ up' = TRUE
  /\ UNCHANGED <<scenario, save, saves, remote, syncChan, loopVars, age>>

Init ==
  /\ scenario \in Scenarios
  /\ up = TRUE /\ mem = [f \in Files |-> {}]
  /\ save = [w \in Writers |-> NoSave] /\ saves = 0
  /\ local = [f \in Files |-> Missing] /\ remote = local
  /\ syncChan = <<>> /\ pending = {} /\ due = {} /\ ticked = FALSE
  /\ age = [f \in Files |-> 0]
  /\ reading = NoFile /\ data = Missing

Write(w) == Marshal(w) \/ Truncate(w) \/ Written(w)
Upload == \E f \in Files : ReadFile(f) \/ PutObject(f) \/ PutFails(f)
Next ==
  \/ \E w \in Savers, f \in Files : Change(w, f)
  \/ \E f \in Files : CommandChange(f)
  \/ \E w \in Writers : Write(w)
  \/ Tick \/ Receive \/ OnTick \/ Upload
  \/ Crash \/ LoseMachine \/ Serve
Spec == Init /\ [][Next]_vars

\* The clock goes on, a write and an upload return, and the select statement
\* chooses among the cases that are ready at random.
FairSpec ==
  /\ Spec /\ WF_vars(Tick) /\ WF_vars(Upload)
  /\ \A w \in Writers : WF_vars(Write(w))
  /\ SF_vars(Receive) /\ SF_vars(OnTick)

(***************************************************************************)
(* Properties                                                              *)
(***************************************************************************)
\* No save of f overlaps another: all hold its mutex, commands included.
Ordered(f) == f \notin scenario.unlocked /\ (f \in scenario.cli => scenario.offline)

\* "Persisted in users.json as the single source of truth" (auth.go:24-25):
\* unless a save of it is under way, an ordered file is readable and holds what
\* the server has in memory, after any crash, loss or restoration.
FileAgrees ==
  \A f \in Files :
     (Ordered(f) /\ up /\ \A w \in Savers : save[w].pc # "idle" => save[w].file # f)
        => Readable(local[f]) /\ local[f].has = mem[f]
\* Well typed, with files that agree.
FilesInv == TypeOK /\ FileAgrees

\* "channel full, drop (next sync will pick up latest state)" (backup.go:231):
\* the bucket catches up with every change of the server, whatever is saved
\* during an upload, read half-written, or written by two savers at once, if
\* nothing fails and the channel has room.  A dropped name, a failed upload and
\* a command's change are not made up for.
Reliable == Faults = {} /\ scenario.capacity >= MaxSaves
CatchesUp ==
  \A f \in Files :
     (Reliable /\ f \notin scenario.cli /\ remote[f] # local[f])
        ~> (remote[f] = local[f])

\* A restart, and a restoration on a new machine, continue from what the bucket
\* has: an upload of a whole file never drops a change that the bucket had
\* (backup.go:235-292, server.go:2183-2191), if the file is ordered and no
\* restoration stopped half way.
BackupGrows ==
  [][\A f \in Files :
        (Ordered(f) /\ "get" \notin Faults /\ remote'[f].state = "whole")
          => remote[f].has \subseteq remote'[f].has]_vars
=============================================================================
