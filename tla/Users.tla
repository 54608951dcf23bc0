------------------------------- MODULE Users -------------------------------
(***************************************************************************)
(* User records, the token index and users.json (auth.go), with the        *)
(* creation of containers by users, which they interleave with.            *)
(*                                                                         *)
(* A request is served by a goroutine p of Procs; an action is one critical *)
(* section.  addUser, regenerateUserToken and updateUserName keep usersMu  *)
(* while they write the file; deleteUser saves after it has released it.   *)
(***************************************************************************)
EXTENDS Naturals, FiniteSets

CONSTANTS Ids, Tokens, \* the identifiers and tokens that may be drawn
          Names, Containers, Procs,
          NoUser,      \* "": what a missing key of userTokens gives
          Scenarios    \* what may happen: see the assumption

ASSUME NullAssumption == NoUser \notin Ids
\* serial: a request starts when no other is served.  crash: the process may
\* end and be started again.
ASSUME ScenariosAssumption ==
  Scenarios \subseteq [serial : BOOLEAN, crash : BOOLEAN]

VARIABLES
  scenario,      \* one of Scenarios, from beginning to end
  users,         \* the keys of the map users
  name, tokens,  \* fields of each record; the object outlives its map entry
  userTokens,    \* token -> user, NoUser where the map has no entry
  owner,         \* the UserID of each registered container, NoUser also if ""
  registered,    \* the containers that are registered
  drawn,         \* the identifiers, tokens and container names drawn so far
  pc, loc, img,  \* per goroutine: where it is, its variables, bytes to write
  disk           \* the records in users.json

mem  == <<users, name, tokens, userTokens>>
cont == <<owner, registered>>
vars == <<scenario, mem, cont, drawn, pc, loc, img, disk>>

Record == [id : Ids, name : Names, tokens : SUBSET Tokens]
Local == [id : Ids \cup {NoUser}, tok : SUBSET Tokens, todo : SUBSET Containers]
Idle == [id |-> NoUser, tok |-> {}, todo |-> {}]
PCs == {"idle", "write", "list", "destroy", "tokens", "drop", "save",
        "lateWrite", "lookup", "register"}

TypeOK ==
  /\ scenario \in Scenarios
  /\ users \subseteq Ids
  /\ name \in [Ids -> Names] /\ tokens \in [Ids -> SUBSET Tokens]
  /\ userTokens \in [Tokens -> Ids \cup {NoUser}]
  /\ owner \in [Containers -> Ids \cup {NoUser}] /\ registered \subseteq Containers
  /\ drawn \subseteq Ids \cup Tokens \cup Containers
  /\ pc \in [Procs -> PCs]
  /\ loc \in [Procs -> Local]
  /\ img \in [Procs -> SUBSET Record] /\ disk \subseteq Record
  /\ \A S \in {disk} \cup {img[p] : p \in Procs} :
       \A r, s \in S : r.id = s.id => r = s
  /\ \A p, q \in Procs : pc[p] = "write" /\ pc[q] = "write" => p = q

\* Mutant of UsersMuFree: the lock is not taken.
UsersMuIgnored == TRUE
\* usersMu is held by the goroutine that writes the file under it.
UsersMuFree == \A p \in Procs : pc[p] # "write"
Goto(p, from, to) ==
  pc[p] = from /\ pc' = [pc EXCEPT ![p] = to] /\ UNCHANGED scenario
Begin(p, to) ==
  /\ scenario.serial => \A q \in Procs : pc[q] = "idle"
  /\ Goto(p, "idle", to)
Snapshot == {[id |-> i, name |-> name[i], tokens |-> tokens[i]] : i \in users}
\* Under usersMu: change the maps and marshal them; the write comes next.
Marshal(p) == img' = [img EXCEPT ![p] = Snapshot']

addUser(p, n, i, t) ==
  /\ UsersMuFree /\ Begin(p, "write")
  /\ \A j \in users : name[j] # n
  /\ i \notin drawn /\ t \notin drawn /\ drawn' = drawn \cup {i, t}
  /\ users' = users \cup {i}
  /\ name' = [name EXCEPT ![i] = n] /\ tokens' = [tokens EXCEPT ![i] = {t}]
  /\ userTokens' = [userTokens EXCEPT ![t] = i]
  /\ Marshal(p)
  /\ UNCHANGED <<cont, loc, disk>>

Drop(S) == userTokens' = [t \in Tokens |-> IF t \in S THEN NoUser
                                           ELSE userTokens[t]]
\* Mutant of Reset: the tokens that are replaced stay in the index.
ResetKeepingOld(i, t) == userTokens' = [userTokens EXCEPT ![t] = i]
Reset(i, t) ==
  userTokens' = [u \in Tokens |-> IF u = t THEN i
                                  ELSE IF u \in tokens[i] THEN NoUser
                                  ELSE userTokens[u]]
regenerateUserToken(p, i, t) ==
  /\ UsersMuFree /\ Begin(p, "write")
  /\ i \in users /\ t \notin drawn /\ drawn' = drawn \cup {t}
  /\ Reset(i, t)
  /\ tokens' = [tokens EXCEPT ![i] = {t}]
  /\ UNCHANGED <<users, name>> /\ Marshal(p)
  /\ UNCHANGED <<cont, loc, disk>>

\* Mutant of NameFree: a rename does not look at the other names.
NameUnchecked(i, n) == i \in users
NameFree(i, n) == \A j \in users \ {i} : name[j] # n
updateUserName(p, i, n) ==
  /\ UsersMuFree /\ Begin(p, "write")
  /\ i \in users /\ NameFree(i, n)
  /\ name' = [name EXCEPT ![i] = n]
  /\ UNCHANGED <<users, tokens, userTokens, drawn>> /\ Marshal(p)
  /\ UNCHANGED <<cont, loc, disk>>

WriteFile(p, from) ==
  /\ Goto(p, from, "idle")
  /\ disk' = img[p] /\ img' = [img EXCEPT ![p] = {}]
  /\ loc' = [loc EXCEPT ![p] = Idle]
  /\ UNCHANGED <<mem, cont, drawn>>

(***************************************************************************)
(* deleteUser                                                              *)
(***************************************************************************)
DeleteStart(p, i) ==
  /\ UsersMuFree /\ Begin(p, "list")
  /\ i \in users
  /\ loc' = [loc EXCEPT ![p].id = i]
  /\ UNCHANGED <<mem, cont, drawn, img, disk>>
DeleteList(p) ==
  /\ Goto(p, "list", "destroy")
  /\ loc' = [loc EXCEPT ![p].todo =
               {c \in registered : owner[c] = loc[p].id}]
  /\ UNCHANGED <<mem, cont, drawn, img, disk>>
DeleteContainer(p, c) ==
  /\ pc[p] = "destroy" /\ c \in loc[p].todo
  /\ registered' = registered \ {c}
  /\ loc' = [loc EXCEPT ![p].todo = @ \ {c}]
  /\ UNCHANGED <<scenario, mem, owner, drawn, pc, img, disk>>
\* Mutant of Destroyed: the user goes although a container is left.
DestroyedOne(p) == Cardinality(loc[p].todo) <= 1
Destroyed(p) == loc[p].todo = {}
\* Mutant of DeleteTokens: the index is left to the next start.
DeleteTokensLater(p) ==
  /\ Destroyed(p) /\ Goto(p, "destroy", "drop")
  /\ UNCHANGED <<mem, cont, drawn, loc, img, disk>>
DeleteTokens(p) ==
  /\ Destroyed(p) /\ Goto(p, "destroy", "drop")
  /\ Drop(tokens[loc[p].id])
  /\ UNCHANGED <<users, name, tokens, cont, drawn, loc, img, disk>>
DeleteDrop(p) ==
  /\ UsersMuFree /\ Goto(p, "drop", "save")
  /\ users' = users \ {loc[p].id}
  /\ UNCHANGED <<name, tokens, userTokens, cont, drawn, loc, img, disk>>
\* Mutant of DeleteSave: the file is left to the next change.
DeleteSaveLater(p) ==
  /\ Goto(p, "save", "idle") /\ loc' = [loc EXCEPT ![p] = Idle]
  /\ UNCHANGED <<mem, cont, drawn, img, disk>>
\* saveUsers without usersMu.
DeleteSave(p) ==
  /\ Goto(p, "save", "lateWrite")
  /\ UNCHANGED mem /\ Marshal(p)
  /\ UNCHANGED <<cont, drawn, loc, disk>>

(***************************************************************************)
(* handleCreate: validateUser asks the index twice                         *)
(***************************************************************************)
CreateValidate(p, t) ==
  /\ Begin(p, "lookup")
  /\ userTokens[t] # NoUser
  /\ loc' = [loc EXCEPT ![p].tok = {t}]
  /\ UNCHANGED <<mem, cont, drawn, img, disk>>
CreateLookup(p) ==
  /\ Goto(p, "lookup", "register")
  /\ \E t \in loc[p].tok : loc' = [loc EXCEPT ![p].id = userTokens[t]]
  /\ UNCHANGED <<mem, cont, drawn, img, disk>>
CreateRegister(p, c) ==
  /\ Goto(p, "register", "idle")
  /\ c \notin drawn /\ drawn' = drawn \cup {c}
  /\ registered' = registered \cup {c}
  /\ owner' = [owner EXCEPT ![c] = loc[p].id]
  /\ loc' = [loc EXCEPT ![p] = Idle]
  /\ UNCHANGED <<mem, img, disk>>
CreateFails(p) ==
  /\ Goto(p, "register", "idle") /\ loc' = [loc EXCEPT ![p] = Idle]
  /\ UNCHANGED <<mem, cont, drawn, img, disk>>

\* The process ends; loadUsers rebuilds the maps from the file, which has one
\* record of each user.
Saved(i) == CHOOSE r \in disk : r.id = i
Restart ==
  /\ scenario.crash /\ UNCHANGED scenario
  /\ users' = {r.id : r \in disk}
  /\ name' = [i \in Ids |-> IF i \in users' THEN Saved(i).name ELSE name[i]]
  /\ tokens' = [i \in Ids |-> IF i \in users' THEN Saved(i).tokens ELSE {}]
  /\ userTokens' = [t \in Tokens |->
       IF \E i \in users' : t \in tokens'[i]
       THEN CHOOSE i \in users' : t \in tokens'[i] ELSE NoUser]
  /\ pc' = [p \in Procs |-> "idle"]
  /\ loc' = [p \in Procs |-> Idle] /\ img' = [p \in Procs |-> {}]
  /\ UNCHANGED <<cont, drawn, disk>>

Init ==
  /\ scenario \in Scenarios
  /\ users = {} /\ disk = {} /\ registered = {} /\ drawn = {}
  /\ name \in [Ids -> Names] /\ \A i, j \in Ids : name[i] = name[j]
  /\ tokens = [i \in Ids |-> {}]
  /\ userTokens = [t \in Tokens |-> NoUser]
  /\ owner = [c \in Containers |-> NoUser]
  /\ pc = [p \in Procs |-> "idle"]
  /\ loc = [p \in Procs |-> Idle] /\ img = [p \in Procs |-> {}]

Change(p) ==
  \/ \E i \in Ids, n \in Names, t \in Tokens : addUser(p, n, i, t)
  \/ \E i \in Ids, t \in Tokens : regenerateUserToken(p, i, t)
  \/ \E i \in Ids, n \in Names : updateUserName(p, i, n)
  \/ WriteFile(p, "write")
Delete(p) ==
  \/ \E i \in Ids : DeleteStart(p, i)
  \/ DeleteList(p) \/ \E c \in Containers : DeleteContainer(p, c)
  \/ DeleteTokens(p) \/ DeleteDrop(p) \/ DeleteSave(p)
  \/ WriteFile(p, "lateWrite")
Create(p) ==
  \/ \E t \in Tokens : CreateValidate(p, t)
  \/ CreateLookup(p) \/ \E c \in Containers : CreateRegister(p, c)
  \/ CreateFails(p)
Next == (\E p \in Procs : Change(p) \/ Delete(p) \/ Create(p)) \/ Restart
Spec == Init /\ [][Next]_vars

(***************************************************************************)
(* Properties                                                              *)
(***************************************************************************)
\* addUser and updateUserName refuse a name that is taken (auth.go:151-155,
\* 246-251): no two users have one name, whatever they interleave with.
NamesUnique == \A i, j \in users : name[i] = name[j] => i = j

Deleting(i) == \E p \in Procs : loc[p].id = i /\ pc[p] \in {"drop", "save"}
\* "Runtime index: built from UserRecord.Tokens" (auth.go:44): for a user who
\* is not being deleted, the index holds the tokens of the record and no other.
IndexAgrees ==
  \A i \in users : \A t \in Tokens :
     /\ userTokens[t] = i => t \in tokens[i]
     /\ (t \in tokens[i] /\ ~Deleting(i)) => userTokens[t] = i
\* Well typed, with unique names and an index that agrees.
UsersInv == TypeOK /\ NamesUnique /\ IndexAgrees

\* "deleteUser removes a user by ID, destroys all their containers, and removes
\* all tokens" (auth.go:170).  Of one request at a time: a token in the index
\* belongs to a user ...
TokensDie ==
  scenario.serial => \A t \in Tokens : userTokens[t] \in users \cup {NoUser}
\* ... and so does a registered container, also when the process ends within
\* the deletion.  Neither holds of a deletion and another request.
OwnersExist == scenario.serial => \A c \in registered : owner[c] \in users

\* "Persisted in users.json as the single source of truth" (auth.go:24-25): of
\* one request at a time, between requests the file holds the users.
DiskAgrees ==
  (scenario.serial /\ \A p \in Procs : pc[p] = "idle") => disk = Snapshot
=============================================================================
