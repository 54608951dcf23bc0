------------------------------- MODULE Update -------------------------------
(***************************************************************************)
(* "lxc-manager update" (update.go): each invocation is a process p that   *)
(* downloads a release, checks its checksum and puts it in the place of    *)
(* the executable.  updateMu is a variable of each process, so TryLock     *)
(* always succeeds: overlap says whether invocations run at the same time. *)
(***************************************************************************)
CONSTANTS Tags, Procs, NoTag,
          Failures \* "net": a download fails or is corrupted.  "disk": a write
                 \* or a rename fails.  "crash": an invocation is killed.

ASSUME TagsAssumption == Tags # {} /\ NoTag \notin Tags
ASSUME FailuresAssumption == Failures \subseteq {"net", "disk", "crash"}

VARIABLES
  overlap,  \* several invocations at a time, or one: it never changes
  exec,     \* the executable file
  tmp,      \* the file .lxc-manager.new
  pc,
  tag, bytes,\* the release p installs, and the bytes it has downloaded
  open      \* where the file is that p has open for writing: a rename or a
            \* removal by another process takes it elsewhere

updateVars == <<overlap, exec, tmp, pc, tag, bytes, open>>

\* "corrupt" stands for bytes that do not have the published checksum.
Bytes == [of : Tags, state : {"whole", "torn", "corrupt"}]
Absent == [of |-> NoTag, state |-> "missing"]
PCs == {"idle", "checksum", "download", "verify", "write", "written", "rename"}

UpdateTypes ==
  /\ overlap \in BOOLEAN /\ exec \in Bytes /\ tmp \in Bytes \cup {Absent}
  /\ pc \in [Procs -> PCs]
  /\ tag \in [Procs -> Tags \cup {NoTag}]
  /\ bytes \in [Procs -> Bytes \cup {Absent}]
  /\ open \in [Procs -> {"closed", "tmp", "exec", "removed"}]
  /\ \A p \in Procs : (open[p] = "closed") = (pc[p] # "written")
  /\ \A p \in Procs : (pc[p] = "idle") => (tag[p] = NoTag /\ bytes[p] = Absent)

Goto(p, from, to) ==
  pc[p] = from /\ pc' = [pc EXCEPT ![p] = to] /\ UNCHANGED overlap
Forget(p) == /\ tag' = [tag EXCEPT ![p] = NoTag]
             /\ bytes' = [bytes EXCEPT ![p] = Absent]
\* An error return: the message is printed and the process ends.
Fail(p, from) == Goto(p, from, "idle") /\ Forget(p) /\ UNCHANGED exec
Close(p) == open' = [open EXCEPT ![p] = "closed"]

\* Only an executable that is whole starts; it does not download the version
\* that it is.  t is the argument, or what "latest" resolves to.
Invoke(p, t) ==
  /\ Goto(p, "idle", "checksum")
  /\ overlap \/ \A q \in Procs : pc[q] = "idle"
  /\ exec.state = "whole" /\ t # exec.of
  /\ tag' = [tag EXCEPT ![p] = t]
  /\ UNCHANGED <<exec, tmp, bytes, open>>

FetchChecksum(p) ==
  /\ UNCHANGED <<tmp, open>>
  /\ \/ Goto(p, "checksum", "download") /\ UNCHANGED <<exec, tag, bytes>>
     \/ "net" \in Failures /\ Fail(p, "checksum")
Outcomes == {"whole"} \cup IF "net" \in Failures THEN {"corrupt"} ELSE {}
Download(p) ==
  /\ UNCHANGED <<tmp, open>>
  /\ \/ /\ Goto(p, "download", "verify") /\ UNCHANGED <<exec, tag>>
        /\ \E s \in Outcomes :
             bytes' = [bytes EXCEPT ![p] = [of |-> tag[p], state |-> s]]
     \/ "net" \in Failures /\ Fail(p, "download")
\* Mutant of Matches: the checksum is not compared.
MatchesAnything(p) == bytes[p] # Absent
Matches(p) == bytes[p].state = "whole"
Verify(p) ==
  /\ UNCHANGED <<tmp, open>>
  /\ \/ Matches(p) /\ Goto(p, "verify", "write") /\ UNCHANGED <<exec, tag, bytes>>
     \/ ~Matches(p) /\ Fail(p, "verify")

\* os.WriteFile empties the temporary file and fills it; when that fails, the
\* file is left as it is.
WriteBegin(p) ==
  /\ Goto(p, "write", "written")
  /\ tmp' = [of |-> tag[p], state |-> "torn"]
  /\ open' = [open EXCEPT ![p] = "tmp"]
  /\ UNCHANGED <<exec, tag, bytes>>
\* What p's bytes make of the file: a tail of another release's longer bytes,
\* written since p emptied the file, may stay behind them.
Filled(p, file) ==
  {bytes[p]} \cup IF file.of = tag[p] THEN {} ELSE {[bytes[p] EXCEPT !.state = "torn"]}
WriteEnd(p) ==
  /\ Close(p)
  /\ \/ /\ Goto(p, "written", "rename") /\ UNCHANGED <<tag, bytes>>
        /\ \/ open[p] = "tmp" /\ tmp' \in Filled(p, tmp) /\ UNCHANGED exec
           \/ open[p] = "exec" /\ exec' \in Filled(p, exec) /\ UNCHANGED tmp
           \/ open[p] = "removed" /\ UNCHANGED <<exec, tmp>>
     \/ "disk" \in Failures /\ Fail(p, "written") /\ UNCHANGED tmp
\* A rename and a removal take the file from under those who have it open.
Renamed == open' = [q \in Procs |-> CASE open[q] = "tmp" -> "exec"
                                      [] open[q] = "exec" -> "removed"
                                      [] OTHER -> open[q]]
Removed == open' = [q \in Procs |-> IF open[q] = "tmp" THEN "removed" ELSE open[q]]
\* Mutant of Rename: a temporary file of an earlier attempt is put in place.
RenameAtOnce(p) ==
  \/ /\ pc[p] \in {"download", "rename"} /\ Goto(p, pc[p], "idle")
     /\ tmp # Absent /\ exec' = tmp /\ tmp' = Absent /\ Forget(p) /\ Renamed
  \/ "disk" \in Failures /\ Fail(p, "rename") /\ tmp' = Absent /\ Removed
Rename(p) ==
  \/ /\ tmp # Absent /\ Goto(p, "rename", "idle")
     /\ exec' = tmp /\ tmp' = Absent /\ Forget(p) /\ Renamed
  \/ /\ "disk" \in Failures \/ tmp = Absent
     /\ Fail(p, "rename") /\ tmp' = Absent /\ Removed
Kill(p) ==
  /\ "crash" \in Failures /\ pc[p] # "idle"
  /\ Goto(p, pc[p], "idle") /\ Forget(p)
  /\ Close(p) /\ UNCHANGED <<exec, tmp>>

UpdateInit ==
  /\ overlap \in BOOLEAN
  /\ exec \in [of : Tags, state : {"whole"}] /\ tmp = Absent
  /\ pc = [p \in Procs |-> "idle"]
  /\ tag = [p \in Procs |-> NoTag] /\ bytes = [p \in Procs |-> Absent]
  /\ open = [p \in Procs |-> "closed"]

UpdateNext ==
  \E p \in Procs :
     \/ \E t \in Tags : Invoke(p, t)
     \/ FetchChecksum(p) \/ Download(p) \/ Verify(p)
     \/ WriteBegin(p) \/ WriteEnd(p) \/ Rename(p) \/ Kill(p)
UpdateSpec == UpdateInit /\ [][UpdateNext]_updateVars

(***************************************************************************)
(* Properties                                                              *)
(***************************************************************************)
\* "Atomic replacement - write to temp file, then rename" (update.go:134): the
\* executable is at every moment a release whose checksum was verified.  Of
\* updates that overlap on the temporary file, one may install what another has
\* half written, but no bytes that do not have their checksum (update.go:128).
InstalledWhole ==
  /\ exec.state # "corrupt" /\ tmp.state # "corrupt"
  /\ ~overlap => exec.state = "whole"
\* Well typed, with a whole executable.
UpdateInv == UpdateTypes /\ InstalledWhole

\* One at a time, an invocation installs the release it was asked for
\* (update.go:67-69).
InstallsItsTag ==
  [][~overlap /\ exec' # exec
       => \E p \in Procs : pc[p] = "rename" /\ exec'.of = tag[p]]_updateVars
=============================================================================
