----------------------------- MODULE UsersProofs -----------------------------
(***************************************************************************)
(* TLAPS: names, tokens, owners and users.json of Users, for all sets of   *)
(* identifiers, tokens, names, containers and goroutines, with crashes; and*)
(* what the clients of Events see, for all clients, goroutines and queues. *)
(***************************************************************************)
EXTENDS Users, Events, TLAPS

\* What may become users.json: no two records have an identifier, a name or a
\* token in common, and what they have was drawn.
ImageOK(S) ==
  /\ \A r \in S : r.id \in drawn /\ r.tokens \subseteq drawn
  /\ \A r, s \in S :
       (r.id = s.id \/ r.name = s.name \/ r.tokens \cap s.tokens # {}) => r = s
ImagesOK == ImageOK(disk) /\ \A p \in Procs : ImageOK(img[p])

\* A token is of one record, of a user that is gone too, for that record is
\* what a second deletion of the user still reads.
TokensApart ==
  \A i, j \in Ids : \A t \in Tokens : t \in tokens[i] /\ t \in tokens[j] => i = j

\* Nothing is in the maps that was not drawn, so nothing new is in them.
AllDrawn ==
  /\ users \subseteq drawn
  /\ \A i \in Ids : tokens[i] \subseteq drawn
  /\ \A t \in Tokens : userTokens[t] # NoUser => userTokens[t] \in drawn
  /\ \A p \in Procs : loc[p].id # NoUser => loc[p].id \in drawn

\* A deletion is of a user, who is in the map no more when it saves.
Deletions ==
  \A p \in Procs :
    /\ pc[p] \in {"list", "destroy", "drop", "save"} => loc[p].id \in Ids
    /\ pc[p] = "save" => loc[p].id \notin users

UsersStrong ==
  /\ UsersInv
  /\ ImagesOK /\ TokensApart /\ AllDrawn /\ Deletions

\* What one request at a time adds.
OnDisk == {r.id : r \in disk}
Owned(i) == {c \in registered : owner[c] = i}
Alone == \A p, q \in Procs : pc[p] # "idle" /\ pc[q] # "idle" => p = q
OwnersSaved == \A c \in registered : owner[c] \in users /\ owner[c] \in OnDisk
FileInStep ==
  /\ (\A p \in Procs : pc[p] \notin {"write", "save", "lateWrite"}) => disk = Snapshot
  /\ \A p \in Procs : pc[p] \in {"write", "lateWrite"} => img[p] = Snapshot
\* How far a request has got.
Progress ==
  \A p \in Procs :
    /\ pc[p] \in {"list", "destroy", "drop"} => loc[p].id \in users
    /\ pc[p] = "destroy" => Owned(loc[p].id) \subseteq loc[p].todo
    /\ pc[p] \in {"drop", "save"} => Owned(loc[p].id) = {}
    /\ pc[p] = "drop" => \A t \in Tokens : userTokens[t] # loc[p].id
    /\ pc[p] = "lookup" => \A t \in loc[p].tok : userTokens[t] # NoUser
    /\ pc[p] = "register" => loc[p].id \in users
SerialStrong ==
  /\ Alone /\ OwnersSaved /\ FileInStep /\ Progress
  /\ \A t \in Tokens : userTokens[t] \in users \cup {NoUser}
UsersIInv == UsersStrong /\ (scenario.serial => SerialStrong)

(***************************************************************************)
(* Users, tokens and the file, with requests that overlap                  *)
(***************************************************************************)
\* Local variables keep their types when one of them changes.
LEMMA LocalSet ==
  ASSUME TypeOK, NEW p \in Procs
  PROVE  /\ \A i \in Ids \cup {NoUser} : [loc EXCEPT ![p].id = i] \in [Procs -> Local]
         /\ \A T \in SUBSET Tokens : [loc EXCEPT ![p].tok = T] \in [Procs -> Local]
         /\ \A C \in SUBSET Containers : [loc EXCEPT ![p].todo = C] \in [Procs -> Local]
<1>1. loc \in [Procs -> Local]
  BY DEF TypeOK
<1>2. \A l \in Local : [loc EXCEPT ![p] = l] \in [Procs -> Local]
  BY <1>1
<1>3. ASSUME NEW i \in Ids \cup {NoUser} PROVE [loc[p] EXCEPT !.id = i] \in Local
  BY <1>1 DEF Local
<1>4. ASSUME NEW T \in SUBSET Tokens PROVE [loc[p] EXCEPT !.tok = T] \in Local
  BY <1>1 DEF Local
<1>5. ASSUME NEW C \in SUBSET Containers PROVE [loc[p] EXCEPT !.todo = C] \in Local
  BY <1>1 DEF Local
<1>6. QED  BY <1>2, <1>3, <1>4, <1>5

\* What is marshalled is well typed, and as good as the maps are.
LEMMA SnapshotType ==
  ASSUME users' \subseteq Ids, name' \in [Ids -> Names],
         tokens' \in [Ids -> SUBSET Tokens]
  PROVE  /\ Snapshot' \subseteq Record
         /\ \A r, s \in Snapshot' : r.id = s.id => r = s
BY DEF Snapshot, Record

LEMMA SnapshotOK ==
  ASSUME TypeOK', NamesUnique', TokensApart', AllDrawn'
  PROVE  ImageOK(Snapshot)'
BY DEF TypeOK, NamesUnique, TokensApart, AllDrawn, ImageOK, Snapshot

\* A new user takes identifiers that are in no map.
LEMMA AddUserKeeps ==
  ASSUME UsersStrong, NEW p \in Procs, NEW n \in Names, NEW i \in Ids, NEW t \in Tokens,
         addUser(p, n, i, t)
  PROVE  UsersStrong'
<1> USE DEF UsersStrong, UsersInv, TypeOK
<1>1. users' \subseteq Ids /\ name' \in [Ids -> Names]
      /\ tokens' \in [Ids -> SUBSET Tokens]
  BY DEF addUser
<1>2. TypeOK'
  BY SnapshotType DEF addUser, Begin, Goto, Marshal, cont, PCs, UsersMuFree
<1>3. NamesUnique' /\ TokensApart' /\ AllDrawn'
  BY DEF addUser, NamesUnique, TokensApart, AllDrawn
<1>4. IndexAgrees'
  BY NullAssumption DEF addUser, Begin, Goto, IndexAgrees, Deleting, AllDrawn
<1>5. ImagesOK'
  BY <1>2, <1>3, SnapshotOK DEF addUser, Marshal, ImagesOK, ImageOK
<1>6. Deletions'
  BY NullAssumption DEF addUser, Begin, Goto, Deletions, AllDrawn
<1>7. QED  BY <1>2, <1>3, <1>4, <1>5, <1>6

\* The old tokens leave the index as they leave the record.
LEMMA RegenerateUserTokenKeeps ==
  ASSUME UsersStrong, NEW p \in Procs, NEW i \in Ids, NEW t \in Tokens,
         regenerateUserToken(p, i, t)
  PROVE  UsersStrong'
<1> USE DEF UsersStrong, UsersInv, TypeOK
<1>1. users' \subseteq Ids /\ name' \in [Ids -> Names]
      /\ tokens' \in [Ids -> SUBSET Tokens]
  BY DEF regenerateUserToken
<1>2. TypeOK'
  BY SnapshotType DEF regenerateUserToken, Reset, Begin, Goto, Marshal, cont,
     PCs, UsersMuFree
<1>3. NamesUnique' /\ TokensApart' /\ AllDrawn'
  BY DEF regenerateUserToken, Reset, NamesUnique, TokensApart, AllDrawn
<1>4. IndexAgrees'
  BY NullAssumption DEF regenerateUserToken, Reset, Begin, Goto, IndexAgrees,
     Deleting, TokensApart, AllDrawn
<1>5. ImagesOK'
  BY <1>2, <1>3, SnapshotOK DEF regenerateUserToken, Marshal, ImagesOK, ImageOK
<1>6. Deletions'
  BY DEF regenerateUserToken, Begin, Goto, Deletions
<1>7. QED  BY <1>2, <1>3, <1>4, <1>5, <1>6

\* Only the names change, and the new one is nobody's.
LEMMA UpdateUserNameKeeps ==
  ASSUME UsersStrong, NEW p \in Procs, NEW i \in Ids, NEW n \in Names,
         updateUserName(p, i, n)
  PROVE  UsersStrong'
<1> USE DEF UsersStrong, UsersInv, TypeOK
<1>1. users' \subseteq Ids /\ name' \in [Ids -> Names]
      /\ tokens' \in [Ids -> SUBSET Tokens]
  BY DEF updateUserName
<1>2. TypeOK'
  BY SnapshotType DEF updateUserName, Begin, Goto, Marshal, cont, PCs,
     UsersMuFree
<1>3. NamesUnique' /\ TokensApart' /\ AllDrawn'
  BY DEF updateUserName, NameFree, NamesUnique, TokensApart, AllDrawn
<1>4. IndexAgrees'
  BY DEF updateUserName, Begin, Goto, IndexAgrees, Deleting
<1>5. ImagesOK'
  BY <1>2, <1>3, SnapshotOK DEF updateUserName, Marshal, ImagesOK, ImageOK
<1>6. Deletions'
  BY DEF updateUserName, Begin, Goto, Deletions
<1>7. QED  BY <1>2, <1>3, <1>4, <1>5, <1>6

\* An image becomes the file.
LEMMA WriteFileKeeps ==
  ASSUME UsersStrong, NEW p \in Procs, NEW from \in {"write", "lateWrite"},
         WriteFile(p, from)
  PROVE  UsersStrong'
<1> USE DEF UsersStrong, UsersInv, TypeOK
<1>2. TypeOK'
  BY DEF WriteFile, Goto, Idle, Local, mem, cont, PCs
<1>3. NamesUnique' /\ TokensApart' /\ AllDrawn'
  BY DEF WriteFile, Idle, mem, NamesUnique, TokensApart, AllDrawn
<1>4. IndexAgrees'
  BY DEF WriteFile, Goto, mem, IndexAgrees, Deleting
<1>5. ImagesOK'
  BY DEF WriteFile, ImagesOK, ImageOK
<1>6. Deletions'
  BY DEF WriteFile, Goto, mem, Deletions
<1>7. QED  BY <1>2, <1>3, <1>4, <1>5, <1>6

\* deleteUser finds its user, and remembers the identifier.
LEMMA DeleteStartKeeps ==
  ASSUME UsersStrong, NEW p \in Procs, NEW i \in Ids,
         DeleteStart(p, i)
  PROVE  UsersStrong'
<1> USE DEF UsersStrong, UsersInv, TypeOK
<1>1. loc' \in [Procs -> Local]
  BY LocalSet DEF DeleteStart
<1>2. TypeOK'
  BY <1>1 DEF DeleteStart, Begin, Goto, mem, cont, PCs
<1>3. NamesUnique' /\ TokensApart' /\ AllDrawn'
  BY DEF DeleteStart, mem, NamesUnique, TokensApart, AllDrawn
<1>4. IndexAgrees'
  BY DEF DeleteStart, Begin, Goto, mem, IndexAgrees, Deleting
<1>5. ImagesOK'
  BY DEF DeleteStart, ImagesOK, ImageOK
<1>6. Deletions'
  BY DEF DeleteStart, Begin, Goto, mem, Deletions
<1>7. QED  BY <1>2, <1>3, <1>4, <1>5, <1>6

LEMMA DeleteListKeeps ==
  ASSUME UsersStrong, NEW p \in Procs,
         DeleteList(p)
  PROVE  UsersStrong'
<1> USE DEF UsersStrong, UsersInv, TypeOK
<1>1. loc' \in [Procs -> Local]
  BY LocalSet DEF DeleteList
<1>2. TypeOK'
  BY <1>1 DEF DeleteList, Goto, mem, cont, PCs
<1>3. NamesUnique' /\ TokensApart' /\ AllDrawn'
  BY DEF DeleteList, mem, NamesUnique, TokensApart, AllDrawn
<1>4. IndexAgrees'
  BY DEF DeleteList, Goto, mem, IndexAgrees, Deleting
<1>5. ImagesOK'
  BY DEF DeleteList, ImagesOK, ImageOK
<1>6. Deletions'
  BY DEF DeleteList, Goto, mem, Deletions
<1>7. QED  BY <1>2, <1>3, <1>4, <1>5, <1>6

LEMMA DeleteContainerKeeps ==
  ASSUME UsersStrong, NEW p \in Procs, NEW c \in Containers,
         DeleteContainer(p, c)
  PROVE  UsersStrong'
<1> USE DEF UsersStrong, UsersInv, TypeOK
<1>1. loc' \in [Procs -> Local]
  <2>1. loc[p].todo \ {c} \in SUBSET Containers
    BY DEF Local
  <2>2. QED  BY <2>1, LocalSet DEF DeleteContainer
<1>2. TypeOK'
  BY <1>1 DEF DeleteContainer, mem
<1>3. NamesUnique' /\ TokensApart' /\ AllDrawn'
  BY DEF DeleteContainer, mem, NamesUnique, TokensApart, AllDrawn
<1>4. IndexAgrees'
  BY DEF DeleteContainer, mem, IndexAgrees, Deleting
<1>5. ImagesOK'
  BY DEF DeleteContainer, ImagesOK, ImageOK
<1>6. Deletions'
  BY DEF DeleteContainer, mem, Deletions
<1>7. QED  BY <1>2, <1>3, <1>4, <1>5, <1>6

\* The index loses the tokens of a user who is being deleted from here on.
LEMMA DeleteTokensKeeps ==
  ASSUME UsersStrong, NEW p \in Procs,
         DeleteTokens(p)
  PROVE  UsersStrong'
<1> USE DEF UsersStrong, UsersInv, TypeOK
<1>2. TypeOK'
  BY DEF DeleteTokens, Drop, Goto, cont, PCs
<1>3. NamesUnique' /\ TokensApart' /\ AllDrawn'
  BY DEF DeleteTokens, Drop, NamesUnique, TokensApart, AllDrawn
<1>4. IndexAgrees'
  BY NullAssumption DEF DeleteTokens, Drop, Goto, IndexAgrees, Deleting,
     TokensApart, Deletions
<1>5. ImagesOK'
  BY DEF DeleteTokens, ImagesOK, ImageOK
<1>6. Deletions'
  BY DEF DeleteTokens, Goto, Deletions
<1>7. QED  BY <1>2, <1>3, <1>4, <1>5, <1>6

LEMMA DeleteDropKeeps ==
  ASSUME UsersStrong, NEW p \in Procs,
         DeleteDrop(p)
  PROVE  UsersStrong'
<1> USE DEF UsersStrong, UsersInv, TypeOK
<1>2. TypeOK'
  BY DEF DeleteDrop, Goto, cont, PCs
<1>3. NamesUnique' /\ TokensApart' /\ AllDrawn'
  BY DEF DeleteDrop, NamesUnique, TokensApart, AllDrawn
<1>4. IndexAgrees'
  BY DEF DeleteDrop, Goto, IndexAgrees, Deleting
<1>5. ImagesOK'
  BY DEF DeleteDrop, ImagesOK, ImageOK
<1>6. Deletions'
  BY DEF DeleteDrop, Goto, Deletions
<1>7. QED  BY <1>2, <1>3, <1>4, <1>5, <1>6

\* The deletion no longer excuses the user, who is gone.
LEMMA DeleteSaveKeeps ==
  ASSUME UsersStrong, NEW p \in Procs,
         DeleteSave(p)
  PROVE  UsersStrong'
<1> USE DEF UsersStrong, UsersInv, TypeOK
<1>2. TypeOK'
  BY SnapshotType DEF DeleteSave, Goto, Marshal, mem, cont, PCs
<1>3. NamesUnique' /\ TokensApart' /\ AllDrawn'
  BY DEF DeleteSave, mem, NamesUnique, TokensApart, AllDrawn
<1>4. IndexAgrees'
  BY DEF DeleteSave, Goto, mem, IndexAgrees, Deleting, Deletions
<1>5. ImagesOK'
  BY <1>2, <1>3, SnapshotOK DEF DeleteSave, Marshal, ImagesOK, ImageOK
<1>6. Deletions'
  BY DEF DeleteSave, Goto, mem, Deletions
<1>7. QED  BY <1>2, <1>3, <1>4, <1>5, <1>6

\* A creation changes no user.
LEMMA CreateValidateKeeps ==
  ASSUME UsersStrong, NEW p \in Procs, NEW t \in Tokens,
         CreateValidate(p, t)
  PROVE  UsersStrong'
<1> USE DEF UsersStrong, UsersInv, TypeOK
<1>1. loc' \in [Procs -> Local]
  <2>1. {t} \in SUBSET Tokens
    OBVIOUS
  <2>2. QED  BY <2>1, LocalSet DEF CreateValidate
<1>2. TypeOK'
  BY <1>1 DEF CreateValidate, Begin, Goto, mem, cont, PCs
<1>3. NamesUnique' /\ TokensApart' /\ AllDrawn'
  BY DEF CreateValidate, mem, NamesUnique, TokensApart, AllDrawn
<1>4. IndexAgrees'
  BY DEF CreateValidate, Begin, Goto, mem, IndexAgrees, Deleting
<1>5. ImagesOK'
  BY DEF CreateValidate, ImagesOK, ImageOK
<1>6. Deletions'
  BY DEF CreateValidate, Begin, Goto, mem, Deletions
<1>7. QED  BY <1>2, <1>3, <1>4, <1>5, <1>6

LEMMA CreateLookupKeeps ==
  ASSUME UsersStrong, NEW p \in Procs,
         CreateLookup(p)
  PROVE  UsersStrong'
<1> USE DEF UsersStrong, UsersInv, TypeOK
<1>0. PICK t \in loc[p].tok : loc' = [loc EXCEPT ![p].id = userTokens[t]]
  BY DEF CreateLookup
<1>a. t \in Tokens /\ userTokens[t] \in Ids \cup {NoUser}
  BY DEF Local
<1>1. loc' \in [Procs -> Local]
  BY <1>0, <1>a, LocalSet
<1>2. TypeOK'
  BY <1>1 DEF CreateLookup, Goto, mem, cont, PCs
<1>3. NamesUnique' /\ TokensApart' /\ AllDrawn'
  <2>1. \A q \in Procs : loc'[q].id \in {loc[q].id, userTokens[t]}
    BY <1>0
  <2>2. QED  BY <1>a, <2>1 DEF CreateLookup, mem, NamesUnique, TokensApart,
         AllDrawn
<1>4. IndexAgrees'
  BY DEF CreateLookup, Goto, mem, IndexAgrees, Deleting
<1>5. ImagesOK'
  BY DEF CreateLookup, ImagesOK, ImageOK
<1>6. Deletions'
  BY DEF CreateLookup, Goto, mem, Deletions
<1>7. QED  BY <1>2, <1>3, <1>4, <1>5, <1>6

LEMMA CreateRegisterKeeps ==
  ASSUME UsersStrong, NEW p \in Procs, NEW c \in Containers,
         CreateRegister(p, c)
  PROVE  UsersStrong'
<1> USE DEF UsersStrong, UsersInv, TypeOK
<1>2. TypeOK'
  BY DEF CreateRegister, Goto, Idle, Local, mem, PCs
<1>3. NamesUnique' /\ TokensApart' /\ AllDrawn'
  BY DEF CreateRegister, Idle, mem, NamesUnique, TokensApart, AllDrawn
<1>4. IndexAgrees'
  BY DEF CreateRegister, Goto, mem, IndexAgrees, Deleting
<1>5. ImagesOK'
  BY DEF CreateRegister, ImagesOK, ImageOK
<1>6. Deletions'
  BY DEF CreateRegister, Goto, mem, Deletions
<1>7. QED  BY <1>2, <1>3, <1>4, <1>5, <1>6

LEMMA CreateFailsKeeps ==
  ASSUME UsersStrong, NEW p \in Procs,
         CreateFails(p)
  PROVE  UsersStrong'
<1> USE DEF UsersStrong, UsersInv, TypeOK
<1>2. TypeOK'
  BY DEF CreateFails, Goto, Idle, Local, mem, cont, PCs
<1>3. NamesUnique' /\ TokensApart' /\ AllDrawn'
  BY DEF CreateFails, Idle, mem, NamesUnique, TokensApart, AllDrawn
<1>4. IndexAgrees'
  BY DEF CreateFails, Goto, mem, IndexAgrees, Deleting
<1>5. ImagesOK'
  BY DEF CreateFails, ImagesOK, ImageOK
<1>6. Deletions'
  BY DEF CreateFails, Goto, mem, Deletions
<1>7. QED  BY <1>2, <1>3, <1>4, <1>5, <1>6

\* The maps are rebuilt from a file of which no two records clash.
LEMMA SavedIs ==
  ASSUME UsersStrong, NEW r \in disk
  PROVE  Saved(r.id) = r
BY DEF Saved

LEMMA RestartKeeps ==
  ASSUME UsersStrong, Restart
  PROVE  UsersStrong'
<1> USE DEF UsersStrong, UsersInv, TypeOK
<1>1. ASSUME NEW i \in users'
      PROVE  \E r \in disk :
               i = r.id /\ name'[i] = r.name /\ tokens'[i] = r.tokens
  <2>1. PICK r \in disk : i = r.id
    BY DEF Restart
  <2>2. Saved(i) = r /\ i \in Ids
    BY <2>1, SavedIs DEF Record
  <2>3. name'[i] = r.name /\ tokens'[i] = r.tokens
    BY <2>2 DEF Restart
  <2>4. QED  BY <2>1, <2>3
<1>2. /\ \A i \in Ids : i \notin users' => tokens'[i] = {} /\ name'[i] = name[i]
      /\ users' \subseteq Ids
  BY DEF Restart, Record
<1>3. name' \in [Ids -> Names] /\ tokens' \in [Ids -> SUBSET Tokens]
  <2>1. \A i \in Ids : name'[i] \in Names /\ tokens'[i] \in SUBSET Tokens
    BY <1>1, <1>2 DEF Record
  <2>2. DOMAIN name' = Ids /\ DOMAIN tokens' = Ids
    BY DEF Restart
  <2>3. name' = [i \in Ids |-> name'[i]] /\ tokens' = [i \in Ids |-> tokens'[i]]
    BY DEF Restart
  <2>4. QED  BY <2>1, <2>3
<1>4. TokensApart' /\ NamesUnique'
  <2>1. ASSUME NEW i \in Ids, NEW j \in Ids, NEW t \in Tokens,
               t \in tokens'[i], t \in tokens'[j]
        PROVE  i = j
    <3>1. i \in users' /\ j \in users'
      BY <1>2, <2>1
    <3>2. QED  BY <1>1, <2>1, <3>1 DEF ImagesOK, ImageOK
  <2>2. ASSUME NEW i \in users', NEW j \in users', name'[i] = name'[j]
        PROVE  i = j
    BY <1>1, <2>2 DEF ImagesOK, ImageOK
  <2>3. QED  BY <2>1, <2>2 DEF TokensApart, NamesUnique
<1>5. \A t \in Tokens :
        \/ userTokens'[t] = NoUser /\ \A i \in users' : t \notin tokens'[i]
        \/ userTokens'[t] \in users' /\ t \in tokens'[userTokens'[t]]
  BY DEF Restart
<1>6. TypeOK'
  BY <1>2, <1>3, <1>5 DEF Restart, cont, PCs, Idle, Local
<1>7. AllDrawn'
  <2>1. drawn' = drawn /\ \A p \in Procs : loc'[p].id = NoUser
    BY DEF Restart, Idle
  <2>2. \A i \in users' : i \in drawn /\ tokens'[i] \subseteq drawn
    BY <1>1 DEF ImagesOK, ImageOK
  <2>3. QED  BY <1>2, <1>5, <2>1, <2>2 DEF AllDrawn
<1>8. IndexAgrees'
  BY <1>2, <1>4, <1>5, NullAssumption DEF IndexAgrees, TokensApart
<1>9. ImagesOK'
  BY DEF Restart, ImagesOK, ImageOK
<1>10. Deletions'
  BY DEF Restart, Deletions
<1>11. QED  BY <1>4, <1>6, <1>7, <1>8, <1>9, <1>10

LEMMA InitStrong == Init => UsersStrong
BY DEF Init, UsersStrong, UsersInv, TypeOK, NamesUnique, IndexAgrees, ImagesOK,
   ImageOK, TokensApart, AllDrawn, Deletions, PCs, Idle, Local

LEMMA NextStrong == UsersStrong /\ [Next]_vars => UsersStrong'
<1> SUFFICES ASSUME UsersStrong, [Next]_vars PROVE UsersStrong'
  OBVIOUS
<1>1. CASE UNCHANGED vars
  BY <1>1 DEF vars, mem, cont, UsersStrong, UsersInv, TypeOK, NamesUnique,
     IndexAgrees, Deleting, ImagesOK, ImageOK, TokensApart, AllDrawn, Deletions
<1>2. ASSUME NEW p \in Procs, Change(p) PROVE UsersStrong'
  BY <1>2, AddUserKeeps, RegenerateUserTokenKeeps, UpdateUserNameKeeps,
     WriteFileKeeps DEF Change
<1>3. ASSUME NEW p \in Procs, Delete(p) PROVE UsersStrong'
  BY <1>3, DeleteStartKeeps, DeleteListKeeps, DeleteContainerKeeps,
     DeleteTokensKeeps, DeleteDropKeeps, DeleteSaveKeeps, WriteFileKeeps DEF
     Delete
<1>4. ASSUME NEW p \in Procs, Create(p) PROVE UsersStrong'
  BY <1>4, CreateValidateKeeps, CreateLookupKeeps, CreateRegisterKeeps,
     CreateFailsKeeps DEF Create
<1>5. QED  BY <1>1, <1>2, <1>3, <1>4, RestartKeeps DEF Next

LEMMA StrongHolds == Spec => []UsersStrong
BY InitStrong, NextStrong, PTL DEF Spec

\* Whatever requests overlap and wherever the process ends: no two users have
\* one name, and the index has the tokens of each user who is not being deleted
\* (auth.go:44, 151-155, 246-251).
THEOREM UsersSafe == Spec => []UsersInv
<1>1. UsersStrong => UsersInv  BY DEF UsersStrong
<1>2. QED  BY <1>1, StrongHolds, PTL

(***************************************************************************)
(* One request at a time                                                   *)
(***************************************************************************)
\* Nobody but p is busy, before and after a step of p.
Others(p) == \A q \in Procs \ {p} : pc[q] = "idle" /\ pc'[q] = "idle"

LEMMA SnapshotIds == {r.id : r \in Snapshot} = users
<1>1. ASSUME NEW i \in users PROVE \E r \in Snapshot : r.id = i
  <2>1. [id |-> i, name |-> name[i], tokens |-> tokens[i]] \in Snapshot
    BY DEF Snapshot
  <2>2. QED  BY <2>1
<1>2. ASSUME NEW r \in Snapshot PROVE r.id \in users
  BY DEF Snapshot
<1>3. QED  BY <1>1, <1>2

LEMMA OthersIdle ==
  ASSUME UsersStrong, SerialStrong, scenario.serial, NEW p \in Procs,
         NEW from \in PCs, NEW to \in PCs,
         Begin(p, to) \/ (from # "idle" /\ Goto(p, from, to))
  PROVE  Others(p) /\ Alone'
BY DEF SerialStrong, Alone, Others, UsersStrong, UsersInv, TypeOK, Begin, Goto

LEMMA AddUserSerial ==
  ASSUME UsersStrong, SerialStrong, scenario.serial, NEW p \in Procs,
         NEW n \in Names, NEW i \in Ids, NEW t \in Tokens,
         addUser(p, n, i, t)
  PROVE  SerialStrong'
<1> USE DEF SerialStrong, UsersStrong, UsersInv, TypeOK
<1>1. Others(p) /\ Alone'
  BY OthersIdle DEF addUser, PCs
<1>3. \A k \in Tokens : userTokens'[k] \in users' \cup {NoUser}
  BY DEF addUser
<1>4. OwnersSaved'
  BY DEF addUser, cont, OwnersSaved, OnDisk
<1>5. FileInStep'
  BY DEF addUser, Begin, Goto, Marshal, FileInStep
<1>6. Progress'
  BY DEF addUser, Begin, Goto, Progress
<1>7. QED  BY <1>1, <1>3, <1>4, <1>5, <1>6

LEMMA RegenerateUserTokenSerial ==
  ASSUME UsersStrong, SerialStrong, scenario.serial, NEW p \in Procs,
         NEW i \in Ids, NEW t \in Tokens,
         regenerateUserToken(p, i, t)
  PROVE  SerialStrong'
<1> USE DEF SerialStrong, UsersStrong, UsersInv, TypeOK
<1>1. Others(p) /\ Alone'
  BY OthersIdle DEF regenerateUserToken, PCs
<1>3. \A k \in Tokens : userTokens'[k] \in users' \cup {NoUser}
  BY DEF regenerateUserToken, Reset
<1>4. OwnersSaved'
  BY DEF regenerateUserToken, cont, OwnersSaved, OnDisk
<1>5. FileInStep'
  BY DEF regenerateUserToken, Begin, Goto, Marshal, FileInStep
<1>6. Progress'
  BY DEF regenerateUserToken, Begin, Goto, Progress
<1>7. QED  BY <1>1, <1>3, <1>4, <1>5, <1>6

LEMMA UpdateUserNameSerial ==
  ASSUME UsersStrong, SerialStrong, scenario.serial, NEW p \in Procs,
         NEW i \in Ids, NEW n \in Names,
         updateUserName(p, i, n)
  PROVE  SerialStrong'
<1> USE DEF SerialStrong, UsersStrong, UsersInv, TypeOK
<1>1. Others(p) /\ Alone'
  BY OthersIdle DEF updateUserName, PCs
<1>3. \A k \in Tokens : userTokens'[k] \in users' \cup {NoUser}
  BY DEF updateUserName
<1>4. OwnersSaved'
  BY DEF updateUserName, cont, OwnersSaved, OnDisk
<1>5. FileInStep'
  BY DEF updateUserName, Begin, Goto, Marshal, FileInStep
<1>6. Progress'
  BY DEF updateUserName, Begin, Goto, Progress
<1>7. QED  BY <1>1, <1>3, <1>4, <1>5, <1>6

LEMMA WriteFileSerial ==
  ASSUME UsersStrong, SerialStrong, scenario.serial, NEW p \in Procs,
         NEW from \in {"write", "lateWrite"},
         WriteFile(p, from)
  PROVE  SerialStrong'
<1> USE DEF SerialStrong, UsersStrong, UsersInv, TypeOK
<1>1. Others(p) /\ Alone'
  BY OthersIdle DEF WriteFile, PCs
<1>2. Snapshot' = Snapshot
  BY DEF WriteFile, mem, Snapshot
<1>3. \A k \in Tokens : userTokens'[k] \in users' \cup {NoUser}
  BY DEF WriteFile, mem
<1>4. OwnersSaved'
  <2>1. OnDisk' = users
    BY SnapshotIds DEF WriteFile, Goto, FileInStep, OnDisk
  <2>2. QED  BY <2>1 DEF WriteFile, mem, cont, OwnersSaved
<1>5. FileInStep'
  BY <1>2 DEF WriteFile, Goto, FileInStep
<1>6. Progress'
  BY <1>1 DEF WriteFile, Goto, Progress, Others
<1>7. QED  BY <1>1, <1>3, <1>4, <1>5, <1>6

LEMMA DeleteStartSerial ==
  ASSUME UsersStrong, SerialStrong, scenario.serial, NEW p \in Procs, NEW i \in Ids,
         DeleteStart(p, i)
  PROVE  SerialStrong'
<1> USE DEF SerialStrong, UsersStrong, UsersInv, TypeOK
<1>1. Others(p) /\ Alone'
  BY OthersIdle DEF DeleteStart, PCs
<1>2. Snapshot' = Snapshot
  BY DEF DeleteStart, mem, Snapshot
<1>3. \A k \in Tokens : userTokens'[k] \in users' \cup {NoUser}
  BY DEF DeleteStart, mem
<1>4. OwnersSaved'
  BY DEF DeleteStart, mem, cont, OwnersSaved, OnDisk
<1>5. FileInStep'
  BY <1>2 DEF DeleteStart, Begin, Goto, FileInStep
<1>6. Progress'
  BY DEF DeleteStart, Begin, Goto, mem, Progress
<1>7. QED  BY <1>1, <1>3, <1>4, <1>5, <1>6

LEMMA DeleteListSerial ==
  ASSUME UsersStrong, SerialStrong, scenario.serial, NEW p \in Procs,
         DeleteList(p)
  PROVE  SerialStrong'
<1> USE DEF SerialStrong, UsersStrong, UsersInv, TypeOK
<1>1. Others(p) /\ Alone'
  BY OthersIdle DEF DeleteList, PCs
<1>2. Snapshot' = Snapshot
  BY DEF DeleteList, mem, Snapshot
<1>3. \A k \in Tokens : userTokens'[k] \in users' \cup {NoUser}
  BY DEF DeleteList, mem
<1>4. OwnersSaved'
  BY DEF DeleteList, mem, cont, OwnersSaved, OnDisk
<1>5. FileInStep'
  BY <1>2 DEF DeleteList, Goto, FileInStep
<1>6. Progress'
  BY DEF DeleteList, Goto, mem, cont, Progress, Owned
<1>7. QED  BY <1>1, <1>3, <1>4, <1>5, <1>6

LEMMA DeleteContainerSerial ==
  ASSUME UsersStrong, SerialStrong, scenario.serial, NEW p \in Procs,
         NEW c \in Containers,
         DeleteContainer(p, c)
  PROVE  SerialStrong'
<1> USE DEF SerialStrong, UsersStrong, UsersInv, TypeOK
<1>1. Others(p) /\ Alone'
  BY DEF DeleteContainer, Others, Alone
<1>2. Snapshot' = Snapshot
  BY DEF DeleteContainer, mem, Snapshot
<1>3. \A k \in Tokens : userTokens'[k] \in users' \cup {NoUser}
  BY DEF DeleteContainer, mem
<1>4. OwnersSaved'
  BY <1>1, <1>2 DEF DeleteContainer, OwnersSaved, OnDisk, FileInStep, Snapshot,
     Others
<1>5. FileInStep'
  BY <1>2 DEF DeleteContainer, FileInStep
<1>6. Progress'
  BY DEF DeleteContainer, mem, Progress, Owned
<1>7. QED  BY <1>1, <1>3, <1>4, <1>5, <1>6

LEMMA DeleteTokensSerial ==
  ASSUME UsersStrong, SerialStrong, scenario.serial, NEW p \in Procs,
         DeleteTokens(p)
  PROVE  SerialStrong'
<1> USE DEF SerialStrong, UsersStrong, UsersInv, TypeOK
<1>1. Others(p) /\ Alone'
  BY OthersIdle DEF DeleteTokens, PCs
<1>2. Snapshot' = Snapshot
  BY DEF DeleteTokens, Snapshot
<1>3. \A k \in Tokens : userTokens'[k] \in users' \cup {NoUser}
  BY DEF DeleteTokens, Drop
<1>4. OwnersSaved'
  BY DEF DeleteTokens, cont, OwnersSaved, OnDisk
<1>5. FileInStep'
  BY <1>2 DEF DeleteTokens, Goto, FileInStep
<1>6. Progress'
  <2>1. Owned(loc[p].id) = {} /\ loc[p].id \in users
    BY DEF DeleteTokens, Destroyed, Goto, Progress
  <2>2. \A t \in Tokens : userTokens'[t] # loc[p].id
    BY <2>1, NullAssumption DEF DeleteTokens, Drop, IndexAgrees
  <2>3. Owned(loc[p].id)' = {} /\ pc'[p] = "drop" /\ loc' = loc /\ users' = users
    BY <2>1 DEF DeleteTokens, Goto, cont, Owned
  <2>4. QED  BY <1>1, <2>1, <2>2, <2>3 DEF Progress, Others
<1>7. QED  BY <1>1, <1>3, <1>4, <1>5, <1>6

LEMMA DeleteDropSerial ==
  ASSUME UsersStrong, SerialStrong, scenario.serial, NEW p \in Procs,
         DeleteDrop(p)
  PROVE  SerialStrong'
<1> USE DEF SerialStrong, UsersStrong, UsersInv, TypeOK
<1>1. Others(p) /\ Alone'
  BY OthersIdle DEF DeleteDrop, PCs
<1>3. \A k \in Tokens : userTokens'[k] \in users' \cup {NoUser}
  BY DEF DeleteDrop, Goto, Progress
<1>4. OwnersSaved'
  BY DEF DeleteDrop, Goto, cont, OwnersSaved, OnDisk, Progress, Owned
<1>5. FileInStep'
  BY <1>1 DEF DeleteDrop, Goto, FileInStep, Others
<1>6. Progress'
  BY <1>1 DEF DeleteDrop, Goto, cont, Progress, Others, Owned
<1>7. QED  BY <1>1, <1>3, <1>4, <1>5, <1>6

LEMMA DeleteSaveSerial ==
  ASSUME UsersStrong, SerialStrong, scenario.serial, NEW p \in Procs,
         DeleteSave(p)
  PROVE  SerialStrong'
<1> USE DEF SerialStrong, UsersStrong, UsersInv, TypeOK
<1>1. Others(p) /\ Alone'
  BY OthersIdle DEF DeleteSave, PCs
<1>2. Snapshot' = Snapshot
  BY DEF DeleteSave, mem, Snapshot
<1>3. \A k \in Tokens : userTokens'[k] \in users' \cup {NoUser}
  BY DEF DeleteSave, mem
<1>4. OwnersSaved'
  BY DEF DeleteSave, mem, cont, OwnersSaved, OnDisk
<1>5. FileInStep'
  BY <1>2 DEF DeleteSave, Goto, Marshal, FileInStep
<1>6. Progress'
  BY <1>1 DEF DeleteSave, Goto, Progress, Others
<1>7. QED  BY <1>1, <1>3, <1>4, <1>5, <1>6

LEMMA CreateValidateSerial ==
  ASSUME UsersStrong, SerialStrong, scenario.serial, NEW p \in Procs, NEW t \in Tokens,
         CreateValidate(p, t)
  PROVE  SerialStrong'
<1> USE DEF SerialStrong, UsersStrong, UsersInv, TypeOK
<1>1. Others(p) /\ Alone'
  BY OthersIdle DEF CreateValidate, PCs
<1>2. Snapshot' = Snapshot
  BY DEF CreateValidate, mem, Snapshot
<1>3. \A k \in Tokens : userTokens'[k] \in users' \cup {NoUser}
  BY DEF CreateValidate, mem
<1>4. OwnersSaved'
  BY DEF CreateValidate, mem, cont, OwnersSaved, OnDisk
<1>5. FileInStep'
  BY <1>2 DEF CreateValidate, Begin, Goto, FileInStep
<1>6. Progress'
  BY DEF CreateValidate, Begin, Goto, mem, Progress
<1>7. QED  BY <1>1, <1>3, <1>4, <1>5, <1>6

LEMMA CreateLookupSerial ==
  ASSUME UsersStrong, SerialStrong, scenario.serial, NEW p \in Procs,
         CreateLookup(p)
  PROVE  SerialStrong'
<1> USE DEF SerialStrong, UsersStrong, UsersInv, TypeOK
<1>1. Others(p) /\ Alone'
  BY OthersIdle DEF CreateLookup, PCs
<1>2. Snapshot' = Snapshot
  BY DEF CreateLookup, mem, Snapshot
<1>3. \A k \in Tokens : userTokens'[k] \in users' \cup {NoUser}
  BY DEF CreateLookup, mem
<1>4. OwnersSaved'
  BY DEF CreateLookup, mem, cont, OwnersSaved, OnDisk
<1>5. FileInStep'
  BY <1>2 DEF CreateLookup, Goto, FileInStep
<1>6. Progress'
  <2>1. PICK t \in loc[p].tok : loc' = [loc EXCEPT ![p].id = userTokens[t]]
    BY DEF CreateLookup
  <2>2. t \in Tokens /\ pc[p] = "lookup"
    BY DEF Local, CreateLookup, Goto
  <2>3. loc'[p].id \in users
    BY <2>1, <2>2 DEF Progress
  <2>4. users' = users /\ pc'[p] = "register"
    BY DEF CreateLookup, Goto, mem
  <2>5. QED  BY <1>1, <2>3, <2>4 DEF Progress, Others
<1>7. QED  BY <1>1, <1>3, <1>4, <1>5, <1>6

LEMMA CreateRegisterSerial ==
  ASSUME UsersStrong, SerialStrong, scenario.serial, NEW p \in Procs,
         NEW c \in Containers,
         CreateRegister(p, c)
  PROVE  SerialStrong'
<1> USE DEF SerialStrong, UsersStrong, UsersInv, TypeOK
<1>1. Others(p) /\ Alone'
  BY OthersIdle DEF CreateRegister, PCs
<1>2. Snapshot' = Snapshot
  BY DEF CreateRegister, mem, Snapshot
<1>3. \A k \in Tokens : userTokens'[k] \in users' \cup {NoUser}
  BY DEF CreateRegister, mem
<1>4. OwnersSaved'
  <2>1. loc[p].id \in users /\ users = OnDisk
    BY <1>1, SnapshotIds DEF CreateRegister, Goto, Progress, FileInStep, Others,
       OnDisk
  <2>2. QED  BY <2>1 DEF CreateRegister, mem, OwnersSaved, OnDisk
<1>5. FileInStep'
  BY <1>2 DEF CreateRegister, Goto, FileInStep
<1>6. Progress'
  BY <1>1 DEF CreateRegister, Goto, Progress, Others
<1>7. QED  BY <1>1, <1>3, <1>4, <1>5, <1>6

LEMMA CreateFailsSerial ==
  ASSUME UsersStrong, SerialStrong, scenario.serial, NEW p \in Procs,
         CreateFails(p)
  PROVE  SerialStrong'
<1> USE DEF SerialStrong, UsersStrong, UsersInv, TypeOK
<1>1. Others(p) /\ Alone'
  BY OthersIdle DEF CreateFails, PCs
<1>2. Snapshot' = Snapshot
  BY DEF CreateFails, mem, Snapshot
<1>3. \A k \in Tokens : userTokens'[k] \in users' \cup {NoUser}
  BY DEF CreateFails, mem
<1>4. OwnersSaved'
  BY DEF CreateFails, mem, cont, OwnersSaved, OnDisk
<1>5. FileInStep'
  BY <1>2 DEF CreateFails, Goto, FileInStep
<1>6. Progress'
  BY <1>1 DEF CreateFails, Goto, Progress, Others
<1>7. QED  BY <1>1, <1>3, <1>4, <1>5, <1>6

\* After a crash the users are those of the file, and the file is in step.
LEMMA RestartSerial ==
  ASSUME UsersStrong, SerialStrong, Restart
  PROVE  SerialStrong'
<1> USE DEF UsersStrong, UsersInv, TypeOK
<1>1. users' = OnDisk /\ users' \subseteq Ids
  BY DEF Restart, OnDisk, Record
<1>2. Snapshot' = disk'
  <2>1. \A r \in disk :
          r = [id |-> r.id, name |-> name'[r.id], tokens |-> tokens'[r.id]]
    BY SavedIs DEF Restart, Record
  <2>2. Snapshot' = {[id |-> i, name |-> name'[i], tokens |-> tokens'[i]] : i \in OnDisk}
    BY <1>1 DEF Snapshot
  <2>3. disk \subseteq Snapshot'
    BY <2>1, <2>2 DEF OnDisk
  <2>4. ASSUME NEW i \in OnDisk
        PROVE  [id |-> i, name |-> name'[i], tokens |-> tokens'[i]] \in disk
    BY <2>1 DEF OnDisk
  <2>5. \A r \in Snapshot' : r \in disk
    BY <2>2, <2>4
  <2>6. disk' = disk
    BY DEF Restart
  <2>7. QED  BY <2>3, <2>5, <2>6
<1>3. \A p \in Procs : pc'[p] = "idle"
  BY DEF Restart
<1>4. \A k \in Tokens : userTokens'[k] \in users' \cup {NoUser}
  BY DEF Restart
<1>5. OwnersSaved'
  BY DEF Restart, cont, SerialStrong, OwnersSaved, OnDisk
<1>6. Alone' /\ FileInStep' /\ Progress'
  BY <1>2, <1>3 DEF Alone, FileInStep, Progress
<1>7. QED  BY <1>4, <1>5, <1>6 DEF SerialStrong

LEMMA InitSerial == Init => SerialStrong
BY DEF Init, SerialStrong, Alone, OwnersSaved, FileInStep, Progress, Snapshot

LEMMA NextSerial ==
  ASSUME UsersStrong, UsersStrong', scenario.serial => SerialStrong, [Next]_vars
  PROVE  (scenario.serial => SerialStrong)'
<1>1. scenario' = scenario
  BY DEF vars, Next, Change, Delete, Create, Restart, addUser,
     regenerateUserToken, updateUserName, WriteFile, DeleteStart, DeleteList,
     DeleteContainer, DeleteTokens, DeleteDrop, DeleteSave, CreateValidate,
     CreateLookup, CreateRegister, CreateFails, Begin, Goto
<1>2. SUFFICES ASSUME scenario.serial, SerialStrong PROVE SerialStrong'
  BY <1>1
<1>3. CASE UNCHANGED vars
  BY <1>2, <1>3 DEF vars, mem, cont, SerialStrong, Alone, OwnersSaved, OnDisk,
     FileInStep, Snapshot, Progress, Owned
<1>4. ASSUME NEW p \in Procs, Change(p) PROVE SerialStrong'
  BY <1>2, <1>4, AddUserSerial, RegenerateUserTokenSerial, UpdateUserNameSerial,
     WriteFileSerial DEF Change
<1>5. ASSUME NEW p \in Procs, Delete(p) PROVE SerialStrong'
  BY <1>2, <1>5, DeleteStartSerial, DeleteListSerial, DeleteContainerSerial,
     DeleteTokensSerial, DeleteDropSerial, DeleteSaveSerial, WriteFileSerial DEF
     Delete
<1>6. ASSUME NEW p \in Procs, Create(p) PROVE SerialStrong'
  BY <1>2, <1>6, CreateValidateSerial, CreateLookupSerial, CreateRegisterSerial,
     CreateFailsSerial DEF Create
<1>7. QED  BY <1>2, <1>3, <1>4, <1>5, <1>6, RestartSerial DEF Next

LEMMA IInvHolds == Spec => []UsersIInv
<1>1. Init => UsersIInv
  BY InitStrong, InitSerial DEF UsersIInv
<1>2. UsersIInv /\ [Next]_vars => UsersIInv'
  BY NextStrong, NextSerial DEF UsersIInv
<1>3. QED  BY <1>1, <1>2, PTL DEF Spec

\* Of one request at a time, a token in the index is a user's (auth.go:170-206).
THEOREM TokensDieWithUsers == Spec => []TokensDie
<1>1. UsersIInv => TokensDie  BY DEF UsersIInv, SerialStrong, TokensDie
<1>2. QED  BY <1>1, IInvHolds, PTL

\* Of one request at a time, a registered container has an owner, also when the
\* process ends in the middle of the deletion of a user (auth.go:170-206).
THEOREM ContainersHaveOwners == Spec => []OwnersExist
<1>1. UsersIInv => OwnersExist  BY DEF UsersIInv, SerialStrong, OwnersSaved,
       OwnersExist
<1>2. QED  BY <1>1, IInvHolds, PTL

\* Between requests that do not overlap the file holds the users (auth.go:24-25).
THEOREM FileHoldsUsers == Spec => []DiskAgrees
<1>1. UsersIInv => DiskAgrees  BY DEF UsersIInv, SerialStrong, FileInStep,
       DiskAgrees
<1>2. QED  BY <1>1, IInvHolds, PTL


(***************************************************************************)
(* The event stream of Events, for every number of goroutines and clients  *)
(* and every capacity of a channel                                         *)
(***************************************************************************)
\* Changes do not overlap and are all announced.
Orderly == setting.serial /\ ~setting.silent
OneChange ==
  \A v, w \in Writers : stage[v] # "idle" /\ stage[w] # "idle" => v = w

\* What an event says once its fields are read, were they read now: while its
\* change is under way, the record as it is.
Now(e) == [state  |-> IF e.state  = Late THEN rec.state  ELSE e.state,
           health |-> IF e.health = Late THEN rec.health ELSE e.health]
Truthful == \A w \in Writers : stage[w] \in {"read", "send"} => Now(evt[w]) = rec

\* The last event that waits for a client, or else what the client knows, is
\* the record.
Newest(c) == IF queue[c] = <<>> THEN view[c] ELSE Last(queue[c])
UpToDate ==
  AllSent => \A c \in clients \ missed :
               Follows(c) \/ queue[c] # <<>> => Newest(c) = rec
Strangers == \A c \in Clients \ clients : view[c] = Unknown

EventsIInv ==
  /\ EventsTypes /\ Strangers
  /\ Orderly => OneChange /\ Truthful /\ UpToDate

\* What a bounded sequence is.
LEMMA Bounded ==
  ASSUME NEW S, NEW n \in Nat
  PROVE  \A q : q \in BoundedSeq(S, n) <=> q \in Seq(S) /\ Len(q) <= n
<1>1. ASSUME NEW m \in 0 .. n, NEW q \in [1 .. m -> S]
      PROVE  q \in Seq(S) /\ Len(q) <= n
  OBVIOUS
<1>2. ASSUME NEW q \in Seq(S), Len(q) <= n
      PROVE  \E m \in 0 .. n : q \in [1 .. m -> S]
  <2>1. Len(q) \in 0 .. n /\ q \in [1 .. Len(q) -> S]
    BY <1>2
  <2>2. QED  BY <2>1
<1>3. QED  BY <1>1, <1>2 DEF BoundedSeq, SeqOf

\* A channel keeps its type when an event is put in it or taken out, and what
\* is put in is its last.
LEMMA QueueAppend ==
  ASSUME NEW q \in BoundedSeq(Followed, Capacity), NEW e \in Followed,
         Len(q) < Capacity
  PROVE  /\ Append(q, e) \in BoundedSeq(Followed, Capacity)
         /\ Append(q, e) # <<>> /\ Last(Append(q, e)) = e
<1>1. Capacity \in Nat
  BY CapacityAssumption
<1>2. q \in Seq(Followed)
  BY <1>1, Bounded
<1>3. /\ Append(q, e) \in Seq(Followed) /\ Len(Append(q, e)) = Len(q) + 1
      /\ Append(q, e)[Len(q) + 1] = e /\ Len(q) \in Nat
  BY <1>2
<1>4. Append(q, e) # <<>>
  BY <1>3
<1>5. Len(Append(q, e)) <= Capacity
  BY <1>1, <1>3
<1>6. QED  BY <1>1, <1>3, <1>4, <1>5, Bounded DEF Last
LEMMA QueueTail ==
  ASSUME NEW q \in BoundedSeq(Followed, Capacity), q # <<>>
  PROVE  /\ Tail(q) \in BoundedSeq(Followed, Capacity) /\ Head(q) \in Followed
         /\ Tail(q) = <<>> => Head(q) = Last(q)
         /\ Tail(q) # <<>> => Last(Tail(q)) = Last(q)
<1>1. Capacity \in Nat
  BY CapacityAssumption
<1>2. q \in Seq(Followed) /\ Len(q) <= Capacity
  BY <1>1, Bounded
<1>3. /\ Tail(q) \in Seq(Followed) /\ Len(Tail(q)) = Len(q) - 1
      /\ Head(q) \in Followed /\ Len(q) \in Nat /\ Len(q) > 0
      /\ Head(q) = q[1]
      /\ \A i \in 1 .. Len(q) - 1 : Tail(q)[i] = q[i + 1]
  BY <1>2
<1>4. Len(Tail(q)) <= Capacity
  BY <1>1, <1>2, <1>3
<1>5. Tail(q) = <<>> => Head(q) = Last(q)
  <2>1. Len(<<>>) = 0
    OBVIOUS
  <2>2. Tail(q) = <<>> => Len(Tail(q)) = 0
    BY <2>1, Zenon
  <2>3. Tail(q) = <<>> => Len(q) = 1
    BY <2>2, <1>3
  <2>4. QED  BY <2>3, <1>3 DEF Last
<1>6. Tail(q) # <<>> => Last(Tail(q)) = Last(q)
  <2>1. Tail(q) # <<>> => Len(Tail(q)) # 0
    BY <1>3
  <2>2. Tail(q) # <<>> => Len(q) - 1 \in 1 .. Len(q) - 1
    BY <2>1, <1>3
  <2>3. QED  BY <2>2, <1>3 DEF Last
<1>7. QED  BY <1>1, <1>3, <1>4, <1>5, <1>6, Bounded

\* Nothing waits in a new channel.
LEMMA QueueEmpty == <<>> \in BoundedSeq(Followed, Capacity)
<1>1. Capacity \in Nat /\ Len(<<>>) <= Capacity /\ <<>> \in Seq(Followed)
  BY CapacityAssumption
<1>2. QED  BY <1>1, Bounded

\* An event that has been read is the record, if what it says is.
LEMMA ReadEvents ==
  ASSUME EventsTypes, NEW e \in Event
  PROVE  /\ Now(e) \in Followed /\ Now(Now(e)) = Now(e)
         /\ e \in Followed => Now(e) = e
<1>1. /\ rec.state \in States /\ rec.health \in Healths
      /\ e.state \in States \cup {Late} /\ e.health \in Healths \cup {Late}
  BY DEF EventsTypes, Followed, Event
<1>2. Late \notin States /\ Late \notin Healths
  BY DEF Late, States, Healths
<1>3. Now(e) \in Followed
  BY <1>1 DEF Now, Followed
<1>4. ASSUME NEW f \in Followed PROVE Now(f) = f
  <2>1. f.state # Late /\ f.health # Late
    BY <1>2 DEF Followed
  <2>2. f = [state |-> f.state, health |-> f.health]
    BY DEF Followed
  <2>3. QED  BY <2>1, <2>2 DEF Now
<1>5. QED  BY <1>3, <1>4

LEMMA EventsInitial == EventsInit => EventsIInv
<1>1. EventsInit => Running \in Followed
  BY DEF Running, Followed, States, Healths
<1>2. EventsInit => EventsTypes
  BY <1>1, QueueEmpty DEF EventsInit, EventsTypes, Event, Followed
<1>3. QED
  BY <1>2 DEF EventsInit, EventsIInv, Strangers, OneChange, Truthful, UpToDate

\* Nobody else is under way when a change begins, if changes are in order.
LEMMA BeginsAlone ==
  ASSUME NEW w \in Writers, MayBegin(w), Orderly
  PROVE  \A v \in Writers : stage[v] = "idle"
BY DEF MayBegin, Orderly

\* A change is announced of what the record becomes.
LEMMA AnnounceKeeps ==
  ASSUME EventsIInv, NEW w \in Writers, NEW new \in Followed, NEW e \in Event,
         Announce(w, new, e),
         Orderly => \A v \in Writers \ {w} : stage[v] = "idle",
         /\ e.state \in {new.state, Late} /\ e.health \in {new.health, Late}
  PROVE  EventsIInv'
<1>1. /\ EventsTypes /\ Strangers /\ stage' = [stage EXCEPT ![w] = "read"]
      /\ evt' = [evt EXCEPT ![w] = e] /\ rec' = new
      /\ UNCHANGED <<setting, clients, queue, view, missed>>
  BY DEF EventsIInv, Announce
<1>2. EventsTypes'
  BY <1>1 DEF EventsTypes
<1>3. Strangers'
  BY <1>1 DEF Strangers
<1>4. stage'[w] = "read" /\ evt'[w] = e
  BY <1>1 DEF EventsTypes
<1>5. \A v \in Writers \ {w} : stage'[v] = stage[v]
  BY <1>1 DEF EventsTypes
<1>6. ASSUME Orderly PROVE OneChange' /\ Truthful' /\ UpToDate'
  <2>1. \A v \in Writers : stage'[v] # "idle" => v = w
    BY <1>5, <1>6
  <2>2. Now(e)' = new
    <3>1. new = [state |-> new.state, health |-> new.health]
      BY DEF Followed
    <3>2. QED  BY <1>1, <3>1 DEF Now
  <2>3. Truthful'
    BY <2>1, <2>2, <1>1, <1>4 DEF Truthful, Now
  <2>4. ~AllSent'
    BY <1>4 DEF AllSent
  <2>5. QED  BY <2>1, <2>3, <2>4 DEF OneChange, UpToDate
<1>7. Orderly' = Orderly
  BY <1>1 DEF Orderly
<1>8. QED  BY <1>2, <1>3, <1>6, <1>7 DEF EventsIInv

\* One step of a writer or of a client.
LEMMA EventsStep ==
  ASSUME EventsIInv, EventsNext
  PROVE  EventsIInv'
<1>1. EventsTypes /\ Strangers
  BY DEF EventsIInv
<1>2. /\ rec \in Followed /\ rec.state \in States /\ rec.health \in Healths
      /\ \A w \in Writers : evt[w] \in Event
  BY <1>1 DEF EventsTypes, Followed
<1>3. ASSUME NEW w \in Writers, NEW s \in States, SetState(w, s)
      PROVE  EventsIInv'
  <2> DEFINE new == [state |-> s, health |-> ""]
             e == [state |-> s,
                   health |-> IF setting.kind = "node" THEN "" ELSE Late]
  <2>1. new \in Followed /\ e \in Event
    BY DEF Followed, Event, Healths
  <2>2. e.state \in {new.state, Late} /\ e.health \in {new.health, Late}
    OBVIOUS
  <2>3. Announce(w, new, e) /\ MayBegin(w)
    BY <1>3 DEF SetState
  <2>4. Orderly => \A v \in Writers \ {w} : stage[v] = "idle"
    BY <2>3, BeginsAlone
  <2> HIDE DEF new, e
  <2>5. QED  BY <2>1, <2>2, <2>3, <2>4, AnnounceKeeps
<1>4. ASSUME NEW w \in Writers, SetSilently(w) PROVE EventsIInv'
  <2>1. /\ UNCHANGED <<setting, stage, evt, clients, queue, view, missed>>
        /\ rec' = Running /\ setting.silent
    BY <1>4 DEF SetSilently
  <2>2. Running \in Followed
    BY DEF Running, Followed, States, Healths
  <2>3. EventsTypes'
    BY <1>1, <2>1, <2>2 DEF EventsTypes
  <2>4. QED  BY <1>1, <2>1, <2>3 DEF EventsIInv, Strangers, Orderly
<1>5. ASSUME NEW w \in Writers, Check(w) PROVE EventsIInv'
  <2>1. /\ UNCHANGED <<setting, rec, evt, clients, queue, view, missed>>
        /\ stage' = [stage EXCEPT ![w] = "checked"] /\ MayBegin(w)
    BY <1>5 DEF Check
  <2>2. stage'[w] = "checked" /\ \A v \in Writers \ {w} : stage'[v] = stage[v]
    BY <1>1, <2>1 DEF EventsTypes
  <2>3. EventsTypes'
    BY <1>1, <2>1 DEF EventsTypes
  <2>4. ASSUME Orderly PROVE OneChange' /\ Truthful' /\ UpToDate'
    <3>1. \A v \in Writers : stage[v] = "idle"
      BY <2>1, <2>4, BeginsAlone
    <3>2. AllSent /\ UpToDate
      BY <2>4, <3>1 DEF AllSent, EventsIInv
    <3>3. OneChange' /\ Truthful'
      BY <2>2, <3>1 DEF OneChange, Truthful
    <3>4. UpToDate'
      BY <2>1, <3>2 DEF UpToDate, Follows, Newest
    <3>5. QED  BY <3>3, <3>4
  <2>5. QED  BY <1>1, <2>1, <2>3, <2>4 DEF EventsIInv, Strangers, Orderly
<1>6. ASSUME NEW w \in Writers, NEW h \in Healths, stage[w] = "checked",
             Announce(w, [rec EXCEPT !.health = h], [state |-> Late, health |-> h])
      PROVE  EventsIInv'
  <2> DEFINE new == [rec EXCEPT !.health = h]
             e == [state |-> Late, health |-> h]
  <2>1. new \in Followed /\ e \in Event
    BY <1>2 DEF Followed, Event
  <2>2. new.health = h
    BY <1>2 DEF Followed
  <2>3. e.state \in {new.state, Late} /\ e.health \in {new.health, Late}
    BY <2>2
  <2>4. Orderly => \A v \in Writers \ {w} : stage[v] = "idle"
    BY <1>6 DEF EventsIInv, OneChange
  <2>5. Announce(w, new, e)
    BY <1>6
  <2> HIDE DEF new, e
  <2>6. QED  BY <2>1, <2>3, <2>4, <2>5, AnnounceKeeps
<1>7. ASSUME NEW w \in Writers, SetHealth(w) PROVE EventsIInv'
  <2>1. "unhealthy" \in Healths
    BY DEF Healths
  <2>2. QED  BY <1>6, <1>7, <2>1 DEF SetHealth
<1>8. ASSUME NEW w \in Writers, ClearHealth(w) PROVE EventsIInv'
  <2>1. "" \in Healths
    BY DEF Healths
  <2>2. QED  BY <1>6, <1>8, <2>1 DEF ClearHealth
<1>9. ASSUME NEW w \in Writers, Read(w) PROVE EventsIInv'
  <2>1. /\ UNCHANGED <<setting, rec, clients, queue, view, missed>>
        /\ stage' = [stage EXCEPT ![w] = "send"] /\ stage[w] = "read"
        /\ evt' = [evt EXCEPT ![w] = Now(evt[w])]
    BY <1>9 DEF Read, Now
  <2>2. Now(evt[w]) \in Followed /\ Now(Now(evt[w])) = Now(evt[w])
    BY <1>1, <1>2, ReadEvents
  <2>3. Followed \subseteq Event
    BY DEF Followed, Event
  <2>4. /\ evt' \in [Writers -> Event]
        /\ stage' \in [Writers -> {"idle", "checked", "read", "send"}]
    BY <1>1, <2>1, <2>2, <2>3 DEF EventsTypes
  <2>5. /\ stage'[w] = "send" /\ evt'[w] = Now(evt[w])
        /\ \A v \in Writers \ {w} : stage'[v] = stage[v] /\ evt'[v] = evt[v]
    BY <1>1, <2>1 DEF EventsTypes
  <2>6. \A v \in Writers : stage'[v] \in {"idle", "send"} => evt'[v] \in Followed
    BY <1>1, <2>2, <2>5 DEF EventsTypes
  <2>7. EventsTypes'
    BY <1>1, <2>1, <2>4, <2>6 DEF EventsTypes
  <2>8. ASSUME Orderly PROVE OneChange' /\ Truthful' /\ UpToDate'
    <3>1. OneChange /\ Truthful
      BY <2>8 DEF EventsIInv
    <3>2. OneChange'
      BY <2>1, <2>5, <3>1 DEF OneChange
    <3>3. \A f : Now(f)' = Now(f)
      BY <2>1 DEF Now
    <3>4. Truthful'
      BY <2>1, <2>2, <2>5, <3>1, <3>3 DEF Truthful
    <3>5. UpToDate'
      BY <2>5 DEF UpToDate, AllSent
    <3>6. QED  BY <3>2, <3>4, <3>5
  <2>9. QED  BY <1>1, <2>1, <2>7, <2>8 DEF EventsIInv, Strangers, Orderly
<1>10. ASSUME NEW w \in Writers, broadcastSSE(w) PROVE EventsIInv'
  <2>1. /\ UNCHANGED <<setting, rec, clients, view>>
        /\ stage' = [stage EXCEPT ![w] = "idle"] /\ stage[w] = "send"
        /\ evt' = [evt EXCEPT ![w] = Running]
        /\ queue' = [c \in Clients |-> IF c \in clients /\ HasRoom(c)
                                       THEN Append(queue[c], evt[w]) ELSE queue[c]]
        /\ missed' = missed \cup {c \in clients : ~HasRoom(c)}
    BY <1>10 DEF broadcastSSE, Deliver
  <2>2. Running \in Followed /\ Running \in Event /\ evt[w] \in Followed
    BY <1>1, <2>1 DEF Running, Followed, Event, States, Healths, EventsTypes
  <2>3. /\ stage'[w] = "idle" /\ evt'[w] = Running
        /\ \A v \in Writers \ {w} : stage'[v] = stage[v] /\ evt'[v] = evt[v]
    BY <1>1, <2>1 DEF EventsTypes
  <2>4. \A c \in Clients :
           /\ queue[c] \in BoundedSeq(Followed, Capacity)
           /\ c \in clients /\ HasRoom(c) =>
                /\ queue'[c] = Append(queue[c], evt[w])
                /\ queue'[c] # <<>> /\ Last(queue'[c]) = evt[w]
                /\ queue'[c] \in BoundedSeq(Followed, Capacity)
           /\ ~(c \in clients /\ HasRoom(c)) => queue'[c] = queue[c]
    <3> SUFFICES ASSUME NEW c \in Clients
                 PROVE  /\ queue[c] \in BoundedSeq(Followed, Capacity)
                        /\ c \in clients /\ HasRoom(c) =>
                             /\ queue'[c] = Append(queue[c], evt[w])
                             /\ queue'[c] # <<>> /\ Last(queue'[c]) = evt[w]
                             /\ queue'[c] \in BoundedSeq(Followed, Capacity)
                        /\ ~(c \in clients /\ HasRoom(c)) => queue'[c] = queue[c]
      OBVIOUS
    <3>1. queue[c] \in BoundedSeq(Followed, Capacity)
      BY <1>1 DEF EventsTypes
    <3>2. QED  BY <2>1, <2>2, <3>1, QueueAppend DEF HasRoom
  <2>5. queue' \in [Clients -> BoundedSeq(Followed, Capacity)]
    <3>1. \A c \in Clients : queue'[c] \in BoundedSeq(Followed, Capacity)
      BY <2>4
    <3>2. QED  BY <2>1, <3>1
  <2>6. EventsTypes'
    <3>1. missed' \subseteq clients'
      BY <1>1, <2>1 DEF EventsTypes
    <3>2. evt' \in [Writers -> Event]
      BY <1>1, <2>1, <2>2 DEF EventsTypes
    <3>3. \A v \in Writers : stage'[v] \in {"idle", "send"} => evt'[v] \in Followed
      BY <1>1, <2>2, <2>3 DEF EventsTypes
    <3>4. QED  BY <1>1, <2>1, <2>5, <3>1, <3>2, <3>3 DEF EventsTypes
  <2>7. ASSUME Orderly PROVE OneChange' /\ Truthful' /\ UpToDate'
    <3>1. OneChange /\ Truthful
      BY <2>7 DEF EventsIInv
    <3>2. \A v \in Writers : stage'[v] = "idle"
      BY <2>1, <2>3, <3>1 DEF OneChange
    <3>3. OneChange' /\ Truthful'
      BY <3>2 DEF OneChange, Truthful
    <3>4. evt[w] = rec
      BY <1>1, <1>2, <2>1, <2>2, <3>1, ReadEvents DEF Truthful
    <3>5. ASSUME NEW c \in clients' \ missed' PROVE Newest(c)' = rec'
      <4>1. c \in clients /\ HasRoom(c) /\ c \in Clients
        BY <1>1, <2>1, <3>5 DEF EventsTypes
      <4>2. QED  BY <2>1, <2>4, <3>4, <4>1 DEF Newest
    <3>6. QED  BY <3>3, <3>5 DEF UpToDate
  <2>8. QED  BY <1>1, <2>1, <2>6, <2>7 DEF EventsIInv, Strangers, Orderly
\* What the clients do leaves the writers as they are.
<1>11. ASSUME UNCHANGED <<setting, rec, stage, evt>>, EventsTypes', Strangers',
              Orderly /\ AllSent => UpToDate'
       PROVE  EventsIInv'
  <2>1. Orderly' = Orderly /\ (AllSent' <=> AllSent)
    BY <1>11 DEF Orderly, AllSent
  <2>2. OneChange => OneChange'
    BY <1>11 DEF OneChange
  <2>3. Truthful => Truthful'
    BY <1>11 DEF Truthful, Now
  <2>4. Orderly => UpToDate'
    BY <1>11, <2>1 DEF UpToDate
  <2>5. QED  BY <1>11, <2>1, <2>2, <2>3, <2>4 DEF EventsIInv
<1>12. ASSUME NEW c \in Clients, addSSEClient(c) PROVE EventsIInv'
  <2>1. /\ UNCHANGED <<setting, rec, stage, evt, view, missed>>
        /\ clients' = clients \cup {c} /\ queue' = [queue EXCEPT ![c] = <<>>]
        /\ c \notin clients
    BY <1>12 DEF addSSEClient
  <2>2. EventsTypes'
    BY <1>1, <2>1, QueueEmpty DEF EventsTypes
  <2>3. Strangers'
    BY <1>1, <2>1 DEF Strangers
  <2>4. view[c] = Unknown
    BY <1>1, <2>1 DEF Strangers
  <2>5. queue'[c] = <<>> /\ \A d \in Clients \ {c} : queue'[d] = queue[d]
    BY <1>1, <2>1 DEF EventsTypes
  <2>6. ASSUME Orderly, AllSent, NEW d \in clients' \ missed',
               Follows(d)' \/ queue'[d] # <<>>
        PROVE  Newest(d)' = rec'
    <3>1. d # c
      BY <2>1, <2>4, <2>5, <2>6 DEF Follows
    <3>2. d \in clients \ missed /\ queue'[d] = queue[d]
      BY <1>1, <2>1, <2>5, <2>6, <3>1 DEF EventsTypes
    <3>3. UpToDate
      BY <2>6 DEF EventsIInv
    <3>4. QED  BY <2>1, <2>6, <3>2, <3>3 DEF UpToDate, Follows, Newest
  <2>7. Orderly /\ AllSent => UpToDate'
    BY <2>6 DEF UpToDate
  <2>8. QED  BY <1>11, <2>1, <2>2, <2>3, <2>7
<1>13. ASSUME NEW c \in Clients, ReadList(c) PROVE EventsIInv'
  <2>1. /\ UNCHANGED <<setting, rec, stage, evt, clients, queue, missed>>
        /\ view' = [view EXCEPT ![c] = rec] /\ c \in clients
    BY <1>13 DEF ReadList
  <2>2. EventsTypes'
    BY <1>1, <2>1 DEF EventsTypes
  <2>3. view'[c] = rec /\ \A d \in Clients \ {c} : view'[d] = view[d]
    BY <1>1, <2>1 DEF EventsTypes
  <2>4. Strangers'
    BY <1>1, <2>1, <2>3 DEF Strangers
  <2>5. ASSUME Orderly, AllSent, NEW d \in clients' \ missed',
               Follows(d)' \/ queue'[d] # <<>>
        PROVE  Newest(d)' = rec'
    <3>1. UpToDate /\ d \in clients \ missed /\ d \in Clients
      BY <1>1, <2>1, <2>5 DEF EventsIInv, EventsTypes
    <3>2. QED  BY <2>1, <2>3, <2>5, <3>1 DEF UpToDate, Follows, Newest
  <2>6. Orderly /\ AllSent => UpToDate'
    BY <2>5 DEF UpToDate
  <2>7. QED  BY <1>11, <2>1, <2>2, <2>4, <2>6
<1>14. ASSUME NEW c \in Clients, Receive(c) PROVE EventsIInv'
  <2>1. /\ UNCHANGED <<setting, rec, stage, evt, clients, missed>>
        /\ view' = [view EXCEPT ![c] = Head(queue[c])]
        /\ queue' = [queue EXCEPT ![c] = Tail(queue[c])]
        /\ c \in clients /\ view[c] # Unknown /\ queue[c] # <<>>
    BY <1>14 DEF Receive
  <2>2. /\ queue[c] \in BoundedSeq(Followed, Capacity)
        /\ Tail(queue[c]) \in BoundedSeq(Followed, Capacity)
        /\ Head(queue[c]) \in Followed
        /\ Tail(queue[c]) = <<>> => Head(queue[c]) = Last(queue[c])
        /\ Tail(queue[c]) # <<>> => Last(Tail(queue[c])) = Last(queue[c])
    <3>1. queue[c] \in BoundedSeq(Followed, Capacity)
      BY <1>1 DEF EventsTypes
    <3>2. QED  BY <2>1, <3>1, QueueTail
  <2>3. /\ view'[c] = Head(queue[c]) /\ queue'[c] = Tail(queue[c])
        /\ \A d \in Clients \ {c} : view'[d] = view[d] /\ queue'[d] = queue[d]
    BY <1>1, <2>1 DEF EventsTypes
  <2>4. EventsTypes'
    BY <1>1, <2>1, <2>2 DEF EventsTypes
  <2>5. Strangers'
    BY <1>1, <2>1, <2>3 DEF Strangers
  <2>6. ASSUME Orderly, AllSent, NEW d \in clients' \ missed',
               Follows(d)' \/ queue'[d] # <<>>
        PROVE  Newest(d)' = rec'
    <3>1. UpToDate /\ d \in clients \ missed /\ d \in Clients
      BY <1>1, <2>1, <2>6 DEF EventsIInv, EventsTypes
    <3>2. CASE d # c
      BY <2>1, <2>3, <2>6, <3>1, <3>2 DEF UpToDate, Follows, Newest
    <3>3. CASE d = c
      <4>1. Last(queue[c]) = rec
        BY <2>1, <2>6, <3>1, <3>3 DEF UpToDate, Newest
      <4>2. QED  BY <2>1, <2>2, <2>3, <3>3, <4>1 DEF Newest
    <3>4. QED  BY <3>2, <3>3
  <2>7. Orderly /\ AllSent => UpToDate'
    BY <2>6 DEF UpToDate
  <2>8. QED  BY <1>11, <2>1, <2>4, <2>5, <2>7
<1>15. ASSUME NEW c \in Clients, removeSSEClient(c) PROVE EventsIInv'
  <2>1. /\ UNCHANGED <<setting, rec, stage, evt>>
        /\ clients' = clients \ {c} /\ missed' = missed \ {c}
        /\ view' = [view EXCEPT ![c] = Unknown]
        /\ queue' = [queue EXCEPT ![c] = <<>>]
    BY <1>15 DEF removeSSEClient
  <2>2. EventsTypes'
    BY <1>1, <2>1, QueueEmpty DEF EventsTypes
  <2>3. /\ view'[c] = Unknown /\ queue'[c] = <<>>
        /\ \A d \in Clients \ {c} : view'[d] = view[d] /\ queue'[d] = queue[d]
    BY <1>1, <2>1 DEF EventsTypes
  <2>4. Strangers'
    BY <1>1, <2>1, <2>3 DEF Strangers
  <2>5. ASSUME Orderly, AllSent, NEW d \in clients' \ missed',
               Follows(d)' \/ queue'[d] # <<>>
        PROVE  Newest(d)' = rec'
    <3>1. UpToDate /\ d \in clients \ missed /\ d \in Clients \ {c}
      BY <1>1, <2>1, <2>5 DEF EventsIInv, EventsTypes
    <3>2. QED  BY <2>1, <2>3, <2>5, <3>1 DEF UpToDate, Follows, Newest
  <2>6. Orderly /\ AllSent => UpToDate'
    BY <2>5 DEF UpToDate
  <2>7. QED  BY <1>11, <2>1, <2>2, <2>4, <2>6
<1>16. QED
  BY <1>3, <1>4, <1>5, <1>7, <1>8, <1>9, <1>10, <1>12, <1>13, <1>14, <1>15
     DEF EventsNext, Step

\* Nothing of it changes when nothing happens.
LEMMA EventsStutter == EventsIInv /\ UNCHANGED eventsVars => EventsIInv'
BY DEF EventsIInv, eventsVars, EventsTypes, Strangers, Orderly, OneChange,
       Truthful, Now, UpToDate, AllSent, Follows, Newest

\* "Pushes the changes of state and health" (doc/api.md:55): a client that was
\* never passed over and has received everything sees the record as it is, when
\* changes do not overlap and are all announced - setState, setHealth,
\* clearHealth, broadcastSSE and handleEvents.
THEOREM ViewsFollow == EventsSpec => []EventsInv
<1>1. EventsIInv /\ [EventsNext]_eventsVars => EventsIInv'
  BY EventsStep, EventsStutter
<1>2. EventsIInv => EventsInv
  BY DEF EventsIInv, EventsInv, ViewAgrees, Orderly, UpToDate, Follows, Newest,
         EventsTypes
<1>3. QED  BY <1>1, <1>2, EventsInitial, PTL DEF EventsSpec
=============================================================================
