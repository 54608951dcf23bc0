-------------------------- MODULE LockOrderProofs --------------------------
(***************************************************************************)
(* TLAPS: no circular wait and no race in LockOrder, for any number of     *)
(* goroutines and all scenarios.                                           *)
(*                                                                         *)
(* Each function is shown to keep a discipline when it is called with the  *)
(* locks that its callers hold, from the functions it calls; what is left  *)
(* of every operation then keeps it with the locks that the goroutine has. *)
(***************************************************************************)
EXTENDS LockOrder, TLAPS

(***************************************************************************)
(* The discipline                                                          *)
(***************************************************************************)
\* A lock that is held is the step that took it.
Locks == [do : {"lock", "rlock"}, on : Mutexes]
Ex(m) == [do |-> "lock", on |-> m]
Sh(m) == [do |-> "rlock", on |-> m]

\* An allocator, another operation, or an operation of which no order is asked.
Kinds == {"allocator", "other", "unordered"}

\* What may be locked inside what, cursorMu apart.
Outer == {"usersMu", "nodesMu"}
Inner == {"instMu", "userTokensMu"}
MayLock(m, h, k) ==
  \/ k = "unordered"
  \/ m # "cursorMu" /\ \A x \in h : \/ x.on = "cursorMu"
                                    \/ x.on \in Outer /\ m \in Inner
  \/ m = "cursorMu" /\ k = "allocator" /\ \A x \in h : x.on # "cursorMu"

Guard == [regionNodes |-> "nodesMu", cursors |-> "cursorMu", pool |-> "poolMu",
          sshPool |-> "sshPoolMu", userTokens |-> "userTokensMu",
          stateFails |-> "stateMu", sseClients |-> "sseClientsMu"]
MayRead(v, h) ==
  v \in Guarded => Ex(Guard[v]) \in h \/ Sh(Guard[v]) \in h
MayWrite(v, h) == v \in Guarded => Ex(Guard[v]) \in h

\* The step s of an operation of kind k with the locks h leads to the locks i.
Legal(s, h, i, k) ==
  \/ s.do \in {"lock", "rlock"} /\ MayLock(s.on, h, k) /\ i = h \cup {s}
  \/ s.do = "unlock" /\ Ex(s.on) \in h /\ i = h \ {Ex(s.on)}
  \/ s.do = "runlock" /\ Sh(s.on) \in h /\ i = h \ {Sh(s.on)}
  \/ s.do = "read" /\ MayRead(s.on, h) /\ i = h
  \/ s.do = "write" /\ MayWrite(s.on, h) /\ i = h
  \/ s.do = "draw" /\ h = {Ex("cursorMu")} /\ i = h

\* So do the steps of q, one after another: held has the locks before each.
Trace(q, held, k) ==
  \A i \in 1 .. Len(q) : Legal(q[i], held[i], held[i + 1], k)
Path(q, h, i, k) ==
  \E held \in [1 .. Len(q) + 1 -> SUBSET Locks] :
     held[1] = h /\ held[Len(q) + 1] = i /\ Trace(q, held, k)

\* A function called with the locks h returns with them.
Call(q, h, k) == q \in Seq(Step) /\ Path(q, h, h, k)

(***************************************************************************)
(* Paths                                                                   *)
(***************************************************************************)
LEMMA PathEmpty ==
  ASSUME NEW h \in SUBSET Locks, NEW k
  PROVE  Path(<<>>, h, h, k)
<1> DEFINE held == [n \in 1 .. Len(<<>>) + 1 |-> h]
<1>1. held \in [1 .. Len(<<>>) + 1 -> SUBSET Locks]
  OBVIOUS
<1>2. held[1] = h /\ held[Len(<<>>) + 1] = h /\ Trace(<<>>, held, k)
  BY DEF Trace
<1>3. QED  BY <1>2 DEF Path

LEMMA PathStep ==
  ASSUME NEW s \in Step, NEW h \in SUBSET Locks, NEW i \in SUBSET Locks, NEW k,
         Legal(s, h, i, k)
  PROVE  Path(<<s>>, h, i, k)
<1> DEFINE held == [n \in 1 .. Len(<<s>>) + 1 |-> IF n = 1 THEN h ELSE i]
<1>1. held \in [1 .. Len(<<s>>) + 1 -> SUBSET Locks]
  OBVIOUS
<1>2. Len(<<s>>) = 1 /\ held[1] = h /\ held[2] = i
  OBVIOUS
<1>3. Trace(<<s>>, held, k)
  BY DEF Trace
<1>4. QED  BY <1>3 DEF Path

LEMMA PathConcat ==
  ASSUME NEW q \in Seq(Step), NEW r \in Seq(Step), NEW k,
         NEW h \in SUBSET Locks, NEW i \in SUBSET Locks, NEW j \in SUBSET Locks,
         Path(q, h, i, k), Path(r, i, j, k)
  PROVE  Path(q \o r, h, j, k)
<1>1. PICK a \in [1 .. Len(q) + 1 -> SUBSET Locks] :
         a[1] = h /\ a[Len(q) + 1] = i /\ Trace(q, a, k)
  BY DEF Path
<1>2. PICK b \in [1 .. Len(r) + 1 -> SUBSET Locks] :
         b[1] = i /\ b[Len(r) + 1] = j /\ Trace(r, b, k)
  BY DEF Path
<1>3. /\ Len(q) \in Nat /\ Len(r) \in Nat /\ Len(q \o r) = Len(q) + Len(r)
      /\ \A n \in 1 .. Len(q) : (q \o r)[n] = q[n]
      /\ \A n \in Len(q) + 1 .. Len(q) + Len(r) : (q \o r)[n] = r[n - Len(q)]
  OBVIOUS
<1> DEFINE held == [n \in 1 .. Len(q \o r) + 1 |->
                      IF n <= Len(q) THEN a[n] ELSE b[n - Len(q)]]
<1>4. held \in [1 .. Len(q \o r) + 1 -> SUBSET Locks]
  OBVIOUS
<1>5. held[1] = h /\ held[Len(q \o r) + 1] = j
  BY <1>1, <1>2
<1>6. ASSUME NEW n \in 1 .. Len(q \o r)
      PROVE  Legal((q \o r)[n], held[n], held[n + 1], k)
  <2>1. CASE n < Len(q)
    <3>1. (q \o r)[n] = q[n] /\ held[n] = a[n] /\ held[n + 1] = a[n + 1]
      BY <2>1
    <3>2. Legal(q[n], a[n], a[n + 1], k)
      BY <1>1, <2>1 DEF Trace
    <3>3. QED  BY <3>1, <3>2
  <2>2. CASE n = Len(q)
    <3>1. (q \o r)[n] = q[n] /\ held[n] = a[n] /\ held[n + 1] = a[n + 1]
      BY <1>1, <1>2, <2>2
    <3>2. Legal(q[n], a[n], a[n + 1], k)
      BY <1>1, <2>2 DEF Trace
    <3>3. QED  BY <3>1, <3>2
  <2>3. CASE n > Len(q)
    <3>1. /\ (q \o r)[n] = r[n - Len(q)] /\ held[n] = b[n - Len(q)]
          /\ held[n + 1] = b[(n - Len(q)) + 1] /\ n - Len(q) \in 1 .. Len(r)
      BY <2>3
    <3>2. Legal(r[n - Len(q)], b[n - Len(q)], b[(n - Len(q)) + 1], k)
      BY <1>2, <3>1 DEF Trace
    <3>3. QED  BY <3>1, <3>2
  <2>4. QED  BY <2>1, <2>2, <2>3
<1>7. QED
  <2>1. Trace(q \o r, held, k)
    BY <1>6 DEF Trace
  <2> HIDE DEF held
  <2>2. QED  BY <1>4, <1>5, <2>1 DEF Path

\* The first step of a path, and the path of the others.
LEMMA PathHead ==
  ASSUME NEW q \in Seq(Step), q # <<>>, NEW k,
         NEW h \in SUBSET Locks, NEW j \in SUBSET Locks, Path(q, h, j, k)
  PROVE  \E i \in SUBSET Locks : Legal(Head(q), h, i, k) /\ Path(Tail(q), i, j, k)
<1>1. PICK a \in [1 .. Len(q) + 1 -> SUBSET Locks] :
         a[1] = h /\ a[Len(q) + 1] = j /\ Trace(q, a, k)
  BY DEF Path
<1>2. /\ Len(q) \in Nat /\ Len(q) > 0 /\ Len(Tail(q)) = Len(q) - 1
      /\ Head(q) = q[1] /\ \A n \in 1 .. Len(q) - 1 : Tail(q)[n] = q[n + 1]
  OBVIOUS
<1> DEFINE held == [n \in 1 .. Len(Tail(q)) + 1 |-> a[n + 1]]
<1>3. held \in [1 .. Len(Tail(q)) + 1 -> SUBSET Locks]
  OBVIOUS
<1>4. held[1] = a[2] /\ held[Len(Tail(q)) + 1] = j /\ a[2] \in SUBSET Locks
  BY <1>1
<1>5. Trace(Tail(q), held, k)
  <2> SUFFICES ASSUME NEW n \in 1 .. Len(Tail(q))
               PROVE  Legal(Tail(q)[n], held[n], held[n + 1], k)
    BY DEF Trace
  <2>1. /\ Tail(q)[n] = q[n + 1] /\ held[n] = a[n + 1]
        /\ held[n + 1] = a[(n + 1) + 1] /\ n + 1 \in 1 .. Len(q)
    OBVIOUS
  <2>2. Legal(q[n + 1], a[n + 1], a[(n + 1) + 1], k)
    BY <1>1 DEF Trace
  <2>3. QED  BY <2>2
<1>6. Legal(Head(q), h, a[2], k)
  BY <1>1 DEF Trace
<1> HIDE DEF held
<1>7. Path(Tail(q), a[2], j, k)
  BY <1>3, <1>4, <1>5 DEF Path
<1>8. QED  BY <1>6, <1>7

(***************************************************************************)
(* Calls of the building blocks                                            *)
(***************************************************************************)
LEMMA Nothing ==
  ASSUME NEW h \in SUBSET Locks, NEW k
  PROVE  Call(<<>>, h, k)
BY PathEmpty DEF Call

LEMMA Then ==
  ASSUME NEW h \in SUBSET Locks, NEW k, NEW q, NEW r, Call(q, h, k), Call(r, h, k)
  PROVE  Call(q \o r, h, k)
<1>1. q \in Seq(Step) /\ r \in Seq(Step) /\ q \o r \in Seq(Step)
  BY DEF Call
<1>2. QED  BY PathConcat DEF Call

LEMMA Getting ==
  ASSUME NEW h \in SUBSET Locks, NEW k, NEW v \in Variables, MayRead(v, h)
  PROVE  Call(Get(v), h, k)
<1> DEFINE s == [do |-> "read", on |-> v]
<1>1. s \in Step /\ Legal(s, h, h, k)
  BY DEF Step, Legal
<1>2. Call(<<s>>, h, k)
  BY <1>1, PathStep DEF Call
<1>3. QED  BY <1>2, Nothing DEF Get, Do

LEMMA Setting ==
  ASSUME NEW h \in SUBSET Locks, NEW k, NEW v \in Variables, MayWrite(v, h)
  PROVE  Call(Set(v), h, k)
<1> DEFINE s == [do |-> "write", on |-> v]
<1>1. s \in Step /\ Legal(s, h, h, k)
  BY DEF Step, Legal
<1>2. Call(<<s>>, h, k)
  BY <1>1, PathStep DEF Call
<1>3. QED  BY <1>2, Nothing DEF Set, Do

\* What is called under a mutex is called with its lock; the lock is a new one.
LEMMA Locking ==
  ASSUME NEW h \in SUBSET Locks, NEW k, NEW m \in Mutexes, NEW q,
         MayLock(m, h, k), Ex(m) \notin h, Call(q, h \cup {Ex(m)}, k)
  PROVE  Call(Under(m, q), h, k)
<1> DEFINE i == h \cup {Ex(m)}
           u == [do |-> "unlock", on |-> m]
<1>1. Ex(m) \in Step /\ u \in Step /\ i \in SUBSET Locks /\ q \in Seq(Step)
  BY DEF Ex, Step, Locks, Call
<1>2. Legal(Ex(m), h, i, k) /\ Legal(u, i, h, k)
  BY DEF Legal, Ex
<1>3. Path(<<Ex(m)>>, h, i, k) /\ Path(q, i, i, k) /\ Path(<<u>>, i, h, k)
  BY <1>1, <1>2, PathStep DEF Call
<1>4. <<Ex(m)>> \in Seq(Step) /\ <<u>> \in Seq(Step)
      /\ <<Ex(m)>> \o q \in Seq(Step) /\ <<Ex(m)>> \o q \o <<u>> \in Seq(Step)
  BY <1>1
<1> HIDE DEF i, u
<1>5. Path(<<Ex(m)>> \o q, h, i, k)
  BY <1>1, <1>3, <1>4, PathConcat
<1>6. Path(<<Ex(m)>> \o q \o <<u>>, h, h, k)
  BY <1>1, <1>3, <1>4, <1>5, PathConcat
<1>7. QED  BY <1>4, <1>6 DEF Call, Under, Do, Ex, u

LEMMA ReadLocking ==
  ASSUME NEW h \in SUBSET Locks, NEW k, NEW m \in Mutexes, NEW q,
         MayLock(m, h, k), Sh(m) \notin h, Call(q, h \cup {Sh(m)}, k)
  PROVE  Call(Sharing(m, q), h, k)
<1> DEFINE i == h \cup {Sh(m)}
           u == [do |-> "runlock", on |-> m]
<1>1. Sh(m) \in Step /\ u \in Step /\ i \in SUBSET Locks /\ q \in Seq(Step)
  BY DEF Sh, Step, Locks, Call
<1>2. Legal(Sh(m), h, i, k) /\ Legal(u, i, h, k)
  BY DEF Legal, Sh
<1>3. Path(<<Sh(m)>>, h, i, k) /\ Path(q, i, i, k) /\ Path(<<u>>, i, h, k)
  BY <1>1, <1>2, PathStep DEF Call
<1>4. <<Sh(m)>> \in Seq(Step) /\ <<u>> \in Seq(Step)
      /\ <<Sh(m)>> \o q \in Seq(Step) /\ <<Sh(m)>> \o q \o <<u>> \in Seq(Step)
  BY <1>1
<1> HIDE DEF i, u
<1>5. Path(<<Sh(m)>> \o q, h, i, k)
  BY <1>1, <1>3, <1>4, PathConcat
<1>6. Path(<<Sh(m)>> \o q \o <<u>>, h, h, k)
  BY <1>1, <1>3, <1>4, <1>5, PathConcat
<1>7. QED  BY <1>4, <1>6 DEF Call, Sharing, Do, Sh, u

(***************************************************************************)
(* Calls of the functions                                                  *)
(***************************************************************************)
\* A variable that its mutex guards may be touched under it, and the others may
\* be touched anywhere.
LEMMA Unguarded ==
  ASSUME NEW h, NEW v \in {"instances", "used", "nodes", "users"}
  PROVE  v \in Variables /\ MayRead(v, h) /\ MayWrite(v, h)
BY DEF Variables, MayRead, MayWrite, Guarded

LEMMA First ==
  ASSUME NEW m \in Mutexes \ {"cursorMu"}, NEW k
  PROVE  MayLock(m, {}, k) /\ Ex(m) \notin {} /\ Sh(m) \notin {}
BY DEF MayLock

\* The functions that take one mutex, for callers that may take it.
LEMMA GetNodeClient ==
  ASSUME NEW h \in SUBSET Locks, NEW k, MayLock("poolMu", h, k),
         Ex("poolMu") \notin h
  PROVE  Call(getNodeClient, h, k) /\ Call(removeNodeClient, h, k)
<1> DEFINE i == h \cup {Ex("poolMu")}
<1>1. i \in SUBSET Locks /\ "poolMu" \in Mutexes /\ "pool" \in Variables
  BY DEF Ex, Locks, Mutexes, Variables
<1>2. MayRead("pool", i) /\ MayWrite("pool", i)
  BY DEF MayRead, MayWrite, Guard
<1>3. Call(Get("pool"), i, k) /\ Call(Set("pool"), i, k) /\ Call(Get("nodes"), i, k)
  BY <1>1, <1>2, Getting, Setting, Unguarded
<1>4. Call(Get("pool") \o Get("nodes") \o Set("pool"), i, k)
  BY <1>1, <1>3, Then
<1>5. QED  BY <1>1, <1>3, <1>4, Locking DEF getNodeClient, removeNodeClient
\* The functions that take one mutex and touch one variable under it.
LEMMA Visiting ==
  ASSUME NEW h \in SUBSET Locks, NEW k, NEW m \in Mutexes, NEW v \in Variables,
         MayLock(m, h, k), Ex(m) \notin h, v \in Guarded => Guard[v] = m
  PROVE  Call(Under(m, Get(v)), h, k) /\ Call(Under(m, Set(v)), h, k)
<1> DEFINE i == h \cup {Ex(m)}
<1>1. i \in SUBSET Locks /\ MayRead(v, i) /\ MayWrite(v, i)
  BY DEF Ex, Locks, MayRead, MayWrite
<1>2. Call(Get(v), i, k) /\ Call(Set(v), i, k)
  BY <1>1, Getting, Setting
<1>3. QED  BY <1>2, Locking

LEMMA Visits ==
  ASSUME NEW k
  PROVE  /\ Call(Under("instMu", Get("instances")), {}, k)
         /\ Call(Under("instMu", Set("used")), {}, k)
         /\ Call(Under("nodesMu", Get("nodes")), {}, k)
         /\ Call(Under("stateMu", Set("stateFails")), {}, k)
         /\ Call(Under("plansMu", <<>>), {}, k)
         /\ Call(Under("usersMu", Set("users")), {}, k)
         /\ Call(Under("userTokensMu", Set("userTokens")), {}, k)
         /\ Call(sshKeepalive, {}, k) /\ Call(broadcastSSE, {}, k)
<1>1. /\ {} \in SUBSET Locks /\ {} \cup {Ex("plansMu")} \in SUBSET Locks
      /\ {"instMu", "nodesMu", "stateMu", "plansMu", "usersMu", "userTokensMu",
          "sshPoolMu", "sseClientsMu"} \subseteq Mutexes \ {"cursorMu"}
      /\ {"instances", "used", "nodes", "stateFails", "users", "userTokens",
          "sshPool", "sseClients"} \subseteq Variables
  BY DEF Mutexes, Variables, Ex, Locks
<1>2. /\ Guard["stateFails"] = "stateMu" /\ Guard["userTokens"] = "userTokensMu"
      /\ Guard["sshPool"] = "sshPoolMu" /\ Guard["sseClients"] = "sseClientsMu"
      /\ {"instances", "used", "nodes", "users"} \cap Guarded = {}
  BY DEF Guard, Guarded
<1>3. Call(Under("plansMu", <<>>), {}, k)
  BY <1>1, First, Nothing, Locking
<1>4. QED
  BY <1>1, <1>2, <1>3, First, Visiting DEF sshKeepalive, broadcastSSE

\* Between the locks.
LEMMA Bare ==
  ASSUME NEW h \in SUBSET Locks, NEW k
  PROVE  /\ Call(Get("instances"), h, k) /\ Call(Set("instances"), h, k)
         /\ Call(Get("nodes"), h, k) /\ Call(Set("nodes"), h, k)
         /\ Call(Get("users"), h, k) /\ Call(Set("used"), h, k)
         /\ Call(saveInstances, h, k)
BY Unguarded, Getting, Setting DEF saveInstances

LEMMA GetSSHClient ==
  ASSUME NEW h \in SUBSET Locks, NEW k, NEW dial \in BOOLEAN,
         MayLock("sshPoolMu", h, k), MayLock("nodesMu", h, k),
         Ex("sshPoolMu") \notin h, Ex("nodesMu") \notin h
  PROVE  Call(getSSHClient(dial), h, k)
<1>1. /\ {"sshPoolMu", "nodesMu"} \subseteq Mutexes
      /\ {"sshPool", "nodes"} \subseteq Variables
      /\ Guard["sshPool"] = "sshPoolMu" /\ "nodes" \notin Guarded
  BY DEF Mutexes, Variables, Guard, Guarded
<1>2. /\ Call(Under("sshPoolMu", Get("sshPool")), h, k)
      /\ Call(Under("sshPoolMu", Set("sshPool")), h, k)
      /\ Call(Under("nodesMu", Get("nodes")), h, k)
  BY <1>1, Visiting
<1>3. Call(Under("nodesMu", Get("nodes")) \o Under("sshPoolMu", Set("sshPool")), h, k)
  BY <1>2, Then
<1>4. Call(<<>>, h, k)
  BY Nothing
<1>5. QED  BY <1>2, <1>4, Then DEF getSSHClient

\* With no lock held.
LEMMA Clients ==
  ASSUME NEW k, NEW dial \in BOOLEAN
  PROVE  /\ Call(getNodeClient, {}, k) /\ Call(removeNodeClient, {}, k)
         /\ Call(getSSHClient(dial), {}, k) /\ Call(clientForInstance, {}, k)
<1>1. /\ {} \in SUBSET Locks
      /\ {"poolMu", "sshPoolMu", "nodesMu"} \subseteq Mutexes \ {"cursorMu"}
  BY DEF Mutexes
<1>2. Call(getNodeClient, {}, k) /\ Call(removeNodeClient, {}, k)
  BY <1>1, First, GetNodeClient
<1>3. Call(getSSHClient(dial), {}, k)
  BY <1>1, First, GetSSHClient
<1>4. QED  BY <1>2, <1>3, Visits, Then DEF clientForInstance

LEMMA Setters ==
  ASSUME NEW k
  PROVE  /\ Call(setState, {}, k) /\ Call(setHealth, {}, k)
         /\ Call(setNodeHealth, {}, k) /\ Call(setNodeState, {}, k)
<1>1. {} \in SUBSET Locks
  OBVIOUS
<1>2. Call(setState, {}, k)
  <2>1. Call(Under("instMu", Get("instances")) \o saveInstances, {}, k)
    BY Visits, Bare, Then
  <2>2. Call(Under("instMu", Get("instances")) \o saveInstances
               \o Under("stateMu", Set("stateFails")), {}, k)
    BY <2>1, Visits, Then
  <2>3. QED  BY <2>2, Visits, Then DEF setState
<1>3. Call(setHealth, {}, k) /\ Call(setNodeHealth, {}, k)
  BY Visits, Then DEF setHealth, setNodeHealth
<1>4. Call(setNodeState, {}, k)
  <2>1. Call(Under("nodesMu", Get("nodes")) \o Get("nodes"), {}, k)
    BY Visits, Bare, Then
  <2>2. QED  BY <2>1, Visits, Then DEF setNodeState
<1>5. QED  BY <1>2, <1>3, <1>4

\* nodesMu, then instMu.
LEMMA PickNode ==
  ASSUME NEW k
  PROVE  Call(pickNode, {}, k)
<1> DEFINE i == {} \cup {Ex("nodesMu")}
<1>1. /\ {} \in SUBSET Locks /\ i \in SUBSET Locks
      /\ {"nodesMu", "instMu"} \subseteq Mutexes \ {"cursorMu"}
      /\ {"regionNodes", "instances"} \subseteq Variables
      /\ "instances" \notin Guarded
  BY DEF Mutexes, Variables, Guarded, Locks, Ex
<1>2. MayRead("regionNodes", i) /\ MayLock("instMu", i, k) /\ Ex("instMu") \notin i
  BY DEF MayRead, Guard, MayLock, Ex, Outer, Inner
<1> HIDE DEF i
<1>3. /\ Call(Get("regionNodes"), i, k) /\ Call(Get("nodes"), i, k)
      /\ Call(Under("instMu", Get("instances")), i, k)
  BY <1>1, <1>2, Getting, Bare, Visiting
<1>4. Call(Get("regionNodes") \o Under("instMu", Get("instances")), i, k)
  BY <1>1, <1>3, Then
<1>5. Call(Get("regionNodes") \o Under("instMu", Get("instances")) \o Get("nodes"), i, k)
  BY <1>1, <1>3, Then
<1>6. Call(Under("nodesMu", Get("regionNodes") \o Under("instMu", Get("instances"))
                              \o Get("nodes")), {}, k)
  BY <1>1, <1>5, First, Locking DEF i
<1>7. QED  BY <1>1, <1>6, Clients, Then DEF pickNode

(***************************************************************************)
(* Allocations: cursorMu, then instMu, and instMu, then cursorMu.          *)
(***************************************************************************)
LEMMA SaveCursors ==
  ASSUME NEW h \in SUBSET Locks, NEW k, MayLock("cursorMu", h, k),
         Ex("cursorMu") \notin h
  PROVE  Call(saveCursors, h, k)
<1> DEFINE i == h \cup {Ex("cursorMu")}
<1>1. /\ i \in SUBSET Locks /\ "cursorMu" \in Mutexes
      /\ "cursors" \in Variables /\ MayRead("cursors", i)
  BY DEF Mutexes, Variables, Locks, Ex, MayRead, Guard
<1>2. Call(Get("cursors"), i, k)
  BY <1>1, Getting
<1>3. QED  BY <1>1, <1>2, Locking DEF saveCursors

\* What an allocation does under cursorMu, which it takes as its only lock.
LEMMA UnderCursorMu ==
  ASSUME NEW k \in {"allocator", "unordered"}
  PROVE  LET i == {} \cup {Ex("cursorMu")}
         IN  /\ {} \in SUBSET Locks /\ i \in SUBSET Locks
             /\ "cursorMu" \in Mutexes /\ Ex("cursorMu") \notin {}
             /\ MayLock("cursorMu", {}, k)
             /\ Call(Set("cursors"), i, k)
             /\ \A pool \in Pools : Call(allocWithCursor(pool), i, k)
<1> DEFINE i == {} \cup {Ex("cursorMu")}
<1>1. /\ {} \in SUBSET Locks /\ i \in SUBSET Locks /\ i = {Ex("cursorMu")}
      /\ "cursorMu" \in Mutexes /\ Ex("cursorMu") \notin {}
      /\ "cursors" \in Variables /\ MayWrite("cursors", i)
      /\ MayLock("cursorMu", {}, k)
  BY DEF Mutexes, Variables, Locks, Ex, MayWrite, Guard, MayLock
<1>2. Call(Set("cursors"), i, k)
  BY <1>1, Setting
<1>3. ASSUME NEW pool \in Pools
      PROVE  Call(allocWithCursor(pool), i, k)
  <2> DEFINE s == [do |-> "draw", on |-> pool]
  <2>1. s \in Step /\ Legal(s, i, i, k)
    BY <1>1 DEF Step, Legal
  <2>2. QED  BY <1>1, <2>1, PathStep DEF Call, allocWithCursor, Do
<1>4. QED  BY <1>1, <1>2, <1>3

LEMMA AllocPorts ==
  ASSUME NEW k \in {"allocator", "unordered"}
  PROVE  Call(AllocPort, {}, k)
<1> DEFINE i == {} \cup {Ex("cursorMu")}
<1>1. /\ {} \in SUBSET Locks /\ i \in SUBSET Locks /\ "cursorMu" \in Mutexes
      /\ Ex("cursorMu") \notin {} /\ MayLock("cursorMu", {}, k)
      /\ Call(Set("cursors"), i, k) /\ Call(allocWithCursor("ports"), i, k)
  BY UnderCursorMu DEF Pools
<1> HIDE DEF i
<1>2. Call(Set("cursors") \o allocWithCursor("ports"), i, k)
  BY <1>1, Then
<1>3. Call(Set("cursors") \o allocWithCursor("ports") \o Set("used"), i, k)
  BY <1>1, <1>2, Bare, Then
<1>4. QED  BY <1>1, <1>3, Locking DEF AllocPort, i

LEMMA AllocateStaticIP ==
  ASSUME NEW k \in {"allocator", "unordered"}
  PROVE  Call(allocateStaticIP, {}, k)
<1> DEFINE i == {} \cup {Ex("cursorMu")}
           a == Set("cursors") \o ipInUse
           b == a \o allocWithCursor("addresses")
<1>1. /\ {} \in SUBSET Locks /\ i \in SUBSET Locks /\ "cursorMu" \in Mutexes
      /\ Ex("cursorMu") \notin {} /\ MayLock("cursorMu", {}, k)
      /\ Call(Set("cursors"), i, k) /\ Call(allocWithCursor("addresses"), i, k)
  BY UnderCursorMu DEF Pools
<1>2. /\ "instMu" \in Mutexes /\ "instances" \in Variables
      /\ "instances" \notin Guarded
      /\ MayLock("instMu", i, k) /\ Ex("instMu") \notin i
  BY DEF Mutexes, Variables, Guarded, MayLock, Ex
<1> HIDE DEF i
<1>3. Call(ipInUse, i, k)
  BY <1>1, <1>2, Visiting DEF ipInUse
<1>4. Call(a, i, k)
  BY <1>1, <1>3, Then
<1>5. Call(b, i, k)
  BY <1>1, <1>4, Then
<1>6. Call(b \o Set("cursors"), i, k)
  BY <1>1, <1>5, Then
<1>7. QED  BY <1>1, <1>6, Locking DEF allocateStaticIP, i

LEMMA Allocations ==
  ASSUME NEW k \in {"allocator", "unordered"}
  PROVE  /\ Call(AllocPort \o AllocPort \o allocateStaticIP, {}, k)
         /\ Call(AllocPort, {}, k)
<1>1. {} \in SUBSET Locks
  OBVIOUS
<1>2. Call(AllocPort, {}, k)
  BY AllocPorts
<1>3. Call(AllocPort \o AllocPort, {}, k)
  BY <1>2, Then
<1>4. QED  BY <1>2, AllocateStaticIP, Then

LEMMA Registrations ==
  ASSUME NEW k \in {"allocator", "unordered"}
  PROVE  Call(registerInstance, {}, k)
<1> DEFINE i == {} \cup {Ex("instMu")}
<1>1. {} \in SUBSET Locks /\ i \in SUBSET Locks /\ "instMu" \in Mutexes \ {"cursorMu"}
  BY DEF Mutexes, Locks, Ex
<1>2. MayLock("cursorMu", i, k) /\ Ex("cursorMu") \notin i
  BY DEF MayLock, Ex
<1> HIDE DEF i
<1>3. Call(Set("instances") \o saveInstances, i, k)
  BY <1>1, Bare, Then
<1>4. Call(Set("instances") \o saveInstances \o saveCursors, i, k)
  BY <1>1, <1>2, <1>3, SaveCursors, Then
<1>5. Call(Under("instMu", Set("instances") \o saveInstances \o saveCursors), {}, k)
  BY <1>1, <1>4, First, Locking DEF i
<1>6. QED  BY <1>5, Allocations, Then DEF registerInstance

LEMMA UnregisterInstance ==
  ASSUME NEW k
  PROVE  Call(unregisterInstance, {}, k)
<1> DEFINE i == {} \cup {Ex("instMu")}
<1>1. {} \in SUBSET Locks /\ i \in SUBSET Locks /\ "instMu" \in Mutexes \ {"cursorMu"}
  BY DEF Mutexes, Locks, Ex
<1> HIDE DEF i
<1>2. Call(Set("used") \o Set("instances"), i, k)
  BY <1>1, Bare, Then
<1>3. Call(Set("used") \o Set("instances") \o saveInstances, i, k)
  BY <1>1, Bare, Then
<1>4. QED  BY <1>1, <1>3, First, Locking DEF unregisterInstance, i

\* The functions on the node.
LEMMA CreateContainerOnNode ==
  ASSUME NEW k, NEW dial \in BOOLEAN
  PROVE  Call(createContainerOnNode(dial), {}, k)
<1>1. Call(getSSHClient(dial) \o Under("nodesMu", Get("nodes")), {}, k)
  BY Clients, Visits, Then
<1>2. QED  BY <1>1, Bare, Then DEF createContainerOnNode

LEMMA DestroyContainer ==
  ASSUME NEW k, NEW dial \in BOOLEAN
  PROVE  Call(destroyContainer(dial), {}, k)
<1>1. Call(clientForInstance \o Under("instMu", Get("instances")), {}, k)
  BY Clients, Visits, Then
<1>2. Call(clientForInstance \o Under("instMu", Get("instances"))
             \o getSSHClient(dial), {}, k)
  BY <1>1, Clients, Then
<1>3. QED  BY <1>2, UnregisterInstance, Then DEF destroyContainer

LEMMA MigrateContainer ==
  ASSUME NEW k \in {"allocator", "unordered"}, NEW dial \in BOOLEAN
  PROVE  Call(migrateContainer(dial), {}, k)
<1> DEFINE a == Under("instMu", Set("used")) \o AllocPort \o AllocPort
           b == a \o allocateStaticIP
           c == b \o createContainerOnNode(dial) \o getNodeClient
           d == c \o getSSHClient(dial) \o Under("nodesMu", Get("nodes"))
           e == d \o Under("instMu", Get("instances"))
<1>1. Call(Under("instMu", Set("used")) \o AllocPort, {}, k)
  BY Visits, Allocations, Then
<1>2. Call(a, {}, k)
  BY <1>1, Allocations, Then
<1>3. Call(b, {}, k)
  BY <1>2, AllocateStaticIP, Then
<1>4. Call(b \o createContainerOnNode(dial), {}, k)
  BY <1>3, CreateContainerOnNode, Then
<1>5. Call(c, {}, k)
  BY <1>4, Clients, Then
<1>6. Call(c \o getSSHClient(dial), {}, k)
  BY <1>5, Clients, Then
<1>7. Call(d, {}, k)
  BY <1>6, Visits, Then
<1>8. Call(e, {}, k)
  BY <1>7, Visits, Then
<1>9. QED  BY <1>8, Bare, Then DEF migrateContainer

\* instMu, then the mutexes of the pools and nodesMu: only where no order is
\* asked.
LEMMA SyncDNATForNode ==
  ASSUME NEW dial \in BOOLEAN
  PROVE  Call(syncDNATForNode(dial), {}, "unordered")
<1> DEFINE i == {} \cup {Ex("instMu")}
           k == "unordered"
<1>1. {} \in SUBSET Locks /\ i \in SUBSET Locks /\ "instMu" \in Mutexes \ {"cursorMu"}
  BY DEF Mutexes, Locks, Ex
<1>2. /\ \A m \in {"poolMu", "sshPoolMu", "nodesMu"} :
           MayLock(m, i, k) /\ Ex(m) \notin i
  BY DEF MayLock, Ex
<1> HIDE DEF i, k
<1>3. /\ Call(Get("instances"), i, k) /\ Call(getNodeClient, i, k)
      /\ Call(getSSHClient(dial), i, k) /\ Call(getSSHClient(FALSE), i, k)
  BY <1>1, <1>2, Bare, GetNodeClient, GetSSHClient
<1>4. Call(Get("instances") \o getNodeClient, i, k)
  BY <1>1, <1>3, Then
<1>5. Call(Get("instances") \o getNodeClient \o getSSHClient(dial), i, k)
  BY <1>1, <1>3, Then
<1>6. Call(Get("instances") \o getNodeClient \o getSSHClient(dial)
             \o getSSHClient(FALSE), i, k)
  BY <1>1, <1>3, <1>5, Then
<1>7. QED  BY <1>1, <1>6, First, Locking DEF syncDNATForNode, i, k

(***************************************************************************)
(* Calls of the operations, which goroutines make with no lock held        *)
(***************************************************************************)
LEMMA Creation ==
  ASSUME NEW k \in {"allocator", "unordered"}, NEW dial \in BOOLEAN
  PROVE  Call(createContainerCore(dial), {}, k)
<1> DEFINE a == pickNode \o Under("plansMu", <<>>)
           b == a \o Under("nodesMu", Get("nodes"))
<1>1. Call(a, {}, k)
  BY PickNode, Visits, Then
<1>2. Call(b, {}, k)
  BY <1>1, Visits, Then
<1>3. Call(b \o registerInstance, {}, k)
  BY <1>2, Registrations, Then
<1>4. QED  BY <1>3, CreateContainerOnNode, Then DEF createContainerCore

LEMMA Migration ==
  ASSUME NEW k \in {"allocator", "unordered"}, NEW dial \in BOOLEAN
  PROVE  Call(handleMigrate(dial), {}, k)
<1> DEFINE a == Under("instMu", Get("instances")) \o Under("nodesMu", Get("nodes"))
           b == a \o getNodeClient
           c == b \o Under("instMu", Get("instances"))
<1>1. Call(a, {}, k)
  BY Visits, Then
<1>2. Call(b, {}, k)
  BY <1>1, Clients, Then
<1>3. Call(c, {}, k)
  BY <1>2, Visits, Then
<1>4. Call(c \o saveInstances, {}, k)
  BY <1>3, Bare, Then
<1>5. QED  BY <1>4, MigrateContainer, Then DEF handleMigrate

LEMMA UserRequests ==
  ASSUME NEW k, NEW dial \in BOOLEAN
  PROVE  /\ Call(handleDelete(dial), {}, k) /\ Call(handleStart, {}, k)
         /\ Call(handleList, {}, k)
<1>1. Call(validateUser, {}, k)
  <2> DEFINE i == {} \cup {Sh("userTokensMu")}
  <2>1. /\ {} \in SUBSET Locks /\ i \in SUBSET Locks
        /\ "userTokensMu" \in Mutexes \ {"cursorMu"}
        /\ "userTokens" \in Variables /\ MayRead("userTokens", i)
    BY DEF Mutexes, Variables, Locks, Sh, MayRead, Guard
  <2>2. Call(Get("userTokens"), i, k)
    BY <2>1, Getting
  <2>3. QED  BY <2>1, <2>2, First, ReadLocking DEF validateUser
<1> DEFINE a == validateUser \o Under("instMu", Get("instances"))
           b == a \o clientForInstance
<1>2. Call(a, {}, k)
  BY <1>1, Visits, Then
<1>3. Call(b, {}, k)
  BY <1>2, Clients, Then
<1>4. Call(b \o getSSHClient(dial), {}, k)
  BY <1>3, Clients, Then
<1>5. Call(handleDelete(dial), {}, k)
  BY <1>4, UnregisterInstance, Then DEF handleDelete
<1>6. Call(handleStart, {}, k)
  BY <1>3, Setters, Then DEF handleStart
<1>7. Call(handleList, {}, k)
  BY <1>2, Visits, Then DEF handleList
<1>8. QED  BY <1>5, <1>6, <1>7

LEMMA Checks ==
  ASSUME NEW k, NEW dial \in BOOLEAN
  PROVE  /\ Call(checkContainer, {}, k)
         /\ Call(checkNodeHealth(dial), {}, "unordered")
<1>1. Call(checkContainer, {}, k)
  <2> DEFINE a == Under("instMu", Get("instances"))
                     \o Under("nodesMu", Get("nodes"))
             b == a \o getNodeClient
  <2>1. Call(a, {}, k)
    BY Visits, Then
  <2>2. Call(b, {}, k)
    BY <2>1, Clients, Then
  <2>3. Call(b \o Under("stateMu", Set("stateFails")), {}, k)
    BY <2>2, Visits, Then
  <2>4. QED  BY <2>3, Setters, Then DEF checkContainer
<1>2. Call(checkNodeHealth(dial), {}, "unordered")
  <2>1. Call(Under("nodesMu", Get("nodes")) \o getNodeClient, {}, "unordered")
    BY Visits, Clients, Then
  <2>2. Call(Under("nodesMu", Get("nodes")) \o getNodeClient \o setNodeHealth,
             {}, "unordered")
    BY <2>1, Setters, Then
  <2>3. QED  BY <2>2, SyncDNATForNode, Then DEF checkNodeHealth
<1>3. QED  BY <1>1, <1>2

LEMMA NodeRequests ==
  ASSUME NEW k, NEW dial \in BOOLEAN
  PROVE  Call(removeNode, {}, k) /\ Call(rebuildNode(dial), {}, k)
<1>1. Call(removeNode, {}, k)
  <2> DEFINE i == {} \cup {Ex("nodesMu")}
             a == Under("nodesMu", Get("nodes")) \o Under("instMu", Get("instances"))
             drop == Under("nodesMu", Set("regionNodes") \o Set("nodes"))
  <2>1. /\ {} \in SUBSET Locks /\ i \in SUBSET Locks
        /\ "nodesMu" \in Mutexes \ {"cursorMu"}
        /\ "regionNodes" \in Variables /\ MayWrite("regionNodes", i)
    BY DEF Mutexes, Variables, Locks, Ex, MayWrite, Guard
  <2>2. Call(Set("regionNodes") \o Set("nodes"), i, k)
    BY <2>1, Setting, Bare, Then
  <2>3. Call(drop, {}, k)
    BY <2>1, <2>2, First, Locking
  <2>4. Call(a, {}, k)
    BY Visits, Then
  <2>5. Call(a \o drop, {}, k)
    BY <2>3, <2>4, Then
  <2>6. Call(a \o drop \o Get("nodes"), {}, k)
    BY <2>5, Bare, Then
  <2>7. QED  BY <2>6, Clients, Then DEF removeNode
<1>2. Call(rebuildNode(dial), {}, k)
  <2> DEFINE i == {} \cup {Ex("instMu")}
             a == Under("nodesMu", Get("nodes")) \o setNodeState \o getSSHClient(dial)
             b == a \o Under("instMu", Get("instances")) \o saveInstances
             c == b \o removeNodeClient \o getNodeClient
             both == Under("instMu", Get("instances") \o Set("used"))
             d == c \o both \o createContainerOnNode(FALSE)
             e == d \o Under("instMu", Get("instances")) \o Under("nodesMu", Get("nodes"))
  <2>1. {} \in SUBSET Locks /\ i \in SUBSET Locks /\ "instMu" \in Mutexes \ {"cursorMu"}
    BY DEF Mutexes, Locks, Ex
  <2>2. Call(Get("instances") \o Set("used"), i, k)
    BY <2>1, Bare, Then
  <2>3. Call(both, {}, k)
    BY <2>1, <2>2, First, Locking
  <2>4. Call(Under("nodesMu", Get("nodes")) \o setNodeState, {}, k)
    BY Visits, Setters, Then
  <2>5. Call(a, {}, k)
    BY <2>4, Clients, Then
  <2>6. Call(a \o Under("instMu", Get("instances")), {}, k)
    BY <2>5, Visits, Then
  <2>7. Call(b, {}, k)
    BY <2>6, Bare, Then
  <2>8. Call(b \o removeNodeClient, {}, k)
    BY <2>7, Clients, Then
  <2>9. Call(c, {}, k)
    BY <2>8, Clients, Then
  <2>10. Call(c \o both, {}, k)
    BY <2>3, <2>9, Then
  <2>11. Call(d, {}, k)
    BY <2>10, CreateContainerOnNode, Then
  <2>12. Call(d \o Under("instMu", Get("instances")), {}, k)
    BY <2>11, Visits, Then
  <2>13. Call(e, {}, k)
    BY <2>12, Visits, Then
  <2>14. QED  BY <2>13, Bare, Then DEF rebuildNode
<1>3. QED  BY <1>1, <1>2

\* usersMu, then instMu or userTokensMu.
LEMMA AdminRequests ==
  ASSUME NEW k, NEW dial \in BOOLEAN
  PROVE  /\ Call(listUsers, {}, k) /\ Call(regenerateUserToken, {}, k)
         /\ Call(deleteUser(dial), {}, k)
<1>1. /\ {"usersMu", "instMu", "userTokensMu"} \subseteq Mutexes \ {"cursorMu"}
      /\ {"instances", "userTokens"} \subseteq Variables /\ {} \in SUBSET Locks
      /\ "instances" \notin Guarded /\ Guard["userTokens"] = "userTokensMu"
  BY DEF Mutexes, Variables, Guarded, Guard
<1>2. Call(listUsers, {}, k)
  <2> DEFINE i == {} \cup {Sh("usersMu")}
  <2>1. i \in SUBSET Locks /\ MayLock("instMu", i, k) /\ Ex("instMu") \notin i
    BY DEF Mutexes, Locks, Sh, Ex, MayLock, Outer, Inner
  <2> HIDE DEF i
  <2>2. Call(Get("users") \o Under("instMu", Get("instances")), i, k)
    BY <1>1, <2>1, Bare, Visiting, Then
  <2>3. QED  BY <1>1, <2>2, First, ReadLocking DEF listUsers, i
<1>3. Call(regenerateUserToken, {}, k)
  <2> DEFINE i == {} \cup {Ex("usersMu")}
  <2>1. /\ i \in SUBSET Locks /\ MayLock("userTokensMu", i, k)
        /\ Ex("userTokensMu") \notin i
    BY DEF Mutexes, Locks, Ex, MayLock, Outer, Inner
  <2> HIDE DEF i
  <2>2. Call(Get("users") \o Under("userTokensMu", Set("userTokens")), i, k)
    BY <1>1, <2>1, Bare, Visiting, Then
  <2>3. Call(Get("users") \o Under("userTokensMu", Set("userTokens"))
               \o Get("users"), i, k)
    BY <2>1, <2>2, Bare, Then
  <2>4. QED  BY <1>1, <2>3, First, Locking DEF regenerateUserToken, i
<1>4. Call(deleteUser(dial), {}, k)
  <2> DEFINE i == {} \cup {Sh("usersMu")}
             a == Sharing("usersMu", Get("users")) \o Under("instMu", Get("instances"))
             b == a \o destroyContainer(dial)
             c == b \o Under("userTokensMu", Set("userTokens"))
             d == c \o Under("usersMu", Set("users"))
  <2>1. i \in SUBSET Locks
    BY DEF Mutexes, Locks, Sh
  <2>2. Call(Sharing("usersMu", Get("users")), {}, k)
    BY <1>1, <2>1, Bare, First, ReadLocking
  <2>3. Call(a, {}, k)
    BY <2>2, Visits, Then
  <2>4. Call(b, {}, k)
    BY <2>3, DestroyContainer, Then
  <2>5. Call(c, {}, k)
    BY <2>4, Visits, Then
  <2>6. Call(d, {}, k)
    BY <2>5, Visits, Then
  <2>7. QED  BY <2>6, Bare, Then DEF deleteUser
<1>5. QED  BY <1>2, <1>3, <1>4

\* Whatever a goroutine is asked for, it goes about it in order: an allocation
\* as an allocator, and a check of a node where no order is asked.
LEMMA ScriptsInOrder ==
  ASSUME NEW o \in AllOps, NEW dial \in BOOLEAN, NEW k \in Kinds,
         o \in Allocators => k # "other", o = "checkNode" => k = "unordered"
  PROVE  Call(Script(dial)[o], {}, k)
<1>1. CASE o = "create"
  BY <1>1, Creation DEF Script, Kinds, Allocators
<1>2. CASE o = "migrate"
  BY <1>2, Migration DEF Script, Kinds, Allocators
<1>3. CASE o \in {"delete", "start", "list"}
  BY <1>3, UserRequests DEF Script
<1>4. CASE o \in {"checkNode", "checkContainer"}
  BY <1>4, Checks DEF Script
<1>5. CASE o = "keepalive"
  BY <1>5, Visits DEF Script
<1>6. CASE o \in {"removeNode", "rebuildNode"}
  BY <1>6, NodeRequests DEF Script
<1>7. CASE o \in {"listUsers", "resetToken", "deleteUser"}
  BY <1>7, AdminRequests DEF Script
<1>8. QED
  BY <1>1, <1>2, <1>3, <1>4, <1>5, <1>6, <1>7 DEF AllOps, Allocators

(***************************************************************************)
(* The invariant                                                           *)
(***************************************************************************)
Having(g, hd, rd) == {Ex(m) : m \in {n \in Mutexes : hd[n] = g}}
                        \cup {Sh(m) : m \in {n \in Mutexes : g \in rd[n]}}
Holds(g) == Having(g, holder, readers)
Kind(g) == IF ~Ordered THEN "unordered"
           ELSE IF op[g] \in Allocators THEN "allocator" ELSE "other"

\* What is left of every operation is in order, and ends without locks.
Alive(g) == op[g] # "dead"
InOrder ==
  \A g \in Workers : Alive(g) => Path(left[g], Holds(g), {}, Kind(g))

OneAllocation ==
  scenario.oneAllocator =>
    \A g, h \in Workers : op[g] \in Allocators /\ op[h] \in Allocators => g = h
CursorHolders ==
  Ordered =>
    \A g \in Workers : (holder["cursorMu"] = g \/ g \in readers["cursorMu"])
                         => op[g] \in Allocators \cup {"dead"}
Exclusive == \A m \in Mutexes : holder[m] # NoWorker => readers[m] = {}

LockIInv ==
  /\ TypeOK /\ left \in [Workers -> Seq(Step)]
  /\ InOrder /\ OneAllocation /\ CursorHolders /\ Exclusive

\* A lock tells its mutex and how it is held.
LEMMA LockNames ==
  ASSUME NEW m, NEW n
  PROVE  /\ Ex(m) = Ex(n) <=> m = n
         /\ Sh(m) = Sh(n) <=> m = n
         /\ Ex(m) # Sh(n)
         /\ Ex(m).on = m /\ Sh(m).on = m
<1>1. /\ Ex(m).on = m /\ Sh(m).on = m /\ Ex(n).on = n /\ Sh(n).on = n
      /\ Ex(m).do = "lock" /\ Sh(n).do = "rlock" /\ "lock" # "rlock"
  BY DEF Ex, Sh
<1>2. m = n => Ex(m) = Ex(n) /\ Sh(m) = Sh(n)
  OBVIOUS
<1>3. QED  BY <1>1

LEMMA LocksAre ==
  ASSUME NEW x \in Locks
  PROVE  x.on \in Mutexes /\ (x = Ex(x.on) \/ x = Sh(x.on))
BY DEF Locks, Ex, Sh

\* The locks that a goroutine has.
LEMMA HavingWhat ==
  ASSUME NEW g, NEW hd, NEW rd
  PROVE  /\ Having(g, hd, rd) \in SUBSET Locks
         /\ \A m \in Mutexes : Ex(m) \in Having(g, hd, rd) <=> hd[m] = g
         /\ \A m \in Mutexes : Sh(m) \in Having(g, hd, rd) <=> g \in rd[m]
<1>1. \A m \in Mutexes : Ex(m) \in Locks /\ Sh(m) \in Locks
  BY DEF Ex, Sh, Locks
<1>2. QED  BY <1>1, LockNames DEF Having

LEMMA HavingWhich ==
  ASSUME NEW g, NEW hd, NEW rd, NEW i \in SUBSET Locks,
         \A m \in Mutexes : Ex(m) \in i <=> hd[m] = g,
         \A m \in Mutexes : Sh(m) \in i <=> g \in rd[m]
  PROVE  i = Having(g, hd, rd)
<1>1. \A x \in Locks : x \in i <=> x \in Having(g, hd, rd)
  BY HavingWhat, LocksAre
<1>2. QED  BY <1>1, HavingWhat

LEMMA HoldsWhat ==
  ASSUME NEW g
  PROVE  /\ Holds(g) \in SUBSET Locks
         /\ \A m \in Mutexes : Ex(m) \in Holds(g) <=> holder[m] = g
         /\ \A m \in Mutexes : Sh(m) \in Holds(g) <=> g \in readers[m]
BY HavingWhat DEF Holds

\* At the end of a path.
LEMMA PathEnd ==
  ASSUME NEW h, NEW i, NEW k, Path(<<>>, h, i, k)
  PROVE  h = i
BY DEF Path

\* A goroutine with nothing left to do has no locks.
LEMMA NoneLeft ==
  ASSUME LockIInv, NEW g \in Workers, left[g] = <<>>, Alive(g)
  PROVE  /\ Holds(g) = {}
         /\ \A m \in Mutexes : holder[m] # g /\ g \notin readers[m]
BY PathEnd, HoldsWhat DEF LockIInv, InOrder

\* The next step of a goroutine is in order, and so is what follows.
LEMMA NextStep ==
  ASSUME LockIInv, NEW g \in Workers, left[g] # <<>>
  PROVE  \E i \in SUBSET Locks : /\ Legal(Head(left[g]), Holds(g), i, Kind(g))
                                 /\ Path(Tail(left[g]), i, {}, Kind(g))
                                 /\ Head(left[g]) \in Step
                                 /\ Tail(left[g]) \in Seq(Step)
<1>1. left[g] \in Seq(Step) /\ Path(left[g], Holds(g), {}, Kind(g))
  BY DEF LockIInv, InOrder, TypeOK, Alive
<1>2. Holds(g) \in SUBSET Locks /\ {} \in SUBSET Locks
  BY HoldsWhat
<1>3. Head(left[g]) \in Step /\ Tail(left[g]) \in Seq(Step)
  BY <1>1
<1>4. QED  BY <1>1, <1>2, <1>3, PathHead

\* What is left of the others, and their locks, stay.
LEMMA OneAdvances ==
  ASSUME LockIInv, NEW g \in Workers, left[g] # <<>>, Advance(g),
         \A h \in Workers : h # g => Holds(h)' = Holds(h),
         Path(Tail(left[g]), Holds(g)', {}, Kind(g)),
         holder' \in [Mutexes -> Workers \cup {NoWorker}],
         readers' \in [Mutexes -> SUBSET Workers]
  PROVE  TypeOK' /\ (left \in [Workers -> Seq(Step)])' /\ InOrder' /\ OneAllocation'
<1>1. /\ left \in [Workers -> Seq(Step)] /\ UNCHANGED <<scenario, op>>
      /\ left' = [left EXCEPT ![g] = Tail(left[g])] /\ TypeOK /\ OneAllocation
      /\ InOrder
  BY DEF LockIInv, Advance
<1>2. Tail(left[g]) \in Seq(Step)
  BY NextStep
<1>3. left' \in [Workers -> Seq(Step)]
  BY <1>1
<1>4. TypeOK'
  <2>1. \A h \in Workers : \A i \in DOMAIN left'[h] : left'[h][i] \in Step
    BY <1>3
  <2>2. \A h \in Workers : op'[h] \in {"idle", "dead"} => left'[h] = <<>>
    BY <1>1 DEF TypeOK
  <2>3. QED  BY <1>1, <2>1, <2>2 DEF TypeOK
<1>5. InOrder'
  <2> SUFFICES ASSUME NEW h \in Workers, Alive(h)'
               PROVE  Path(left'[h], Holds(h)', {}, Kind(h)')
    BY DEF InOrder
  <2>1. Kind(h)' = Kind(h)
    BY <1>1 DEF Kind, Ordered
  <2>2. CASE h = g
    BY <1>1, <2>1, <2>2
  <2>3. CASE h # g
    BY <1>1, <2>1, <2>3 DEF InOrder, Alive
  <2>4. QED  BY <2>2, <2>3
<1>6. OneAllocation'
  BY <1>1 DEF OneAllocation
<1>7. QED  BY <1>3, <1>4, <1>5, <1>6

LEMMA StartKeeps ==
  ASSUME LockIInv, NEW g \in Workers, NEW o \in AllOps, NEW dial \in BOOLEAN,
         Start(g, o, dial)
  PROVE  LockIInv'
<1>1. /\ TypeOK /\ left \in [Workers -> Seq(Step)] /\ InOrder /\ OneAllocation
      /\ CursorHolders /\ Exclusive
  BY DEF LockIInv
<1>2. /\ op[g] = "idle" /\ left[g] = <<>> /\ o \in scenario.ops /\ Allowed(g, o)
      /\ op' = [op EXCEPT ![g] = o]
      /\ left' = [left EXCEPT ![g] = Script(dial)[o]]
      /\ UNCHANGED <<scenario, holder, readers>>
  BY <1>1 DEF Start, TypeOK
<1>3. \A h \in Workers : Holds(h)' = Holds(h)
  BY <1>2 DEF Holds
<1>4. Holds(g) = {} /\ \A m \in Mutexes : holder[m] # g /\ g \notin readers[m]
  BY <1>2, NoneLeft DEF Alive
<1>5. /\ Kind(g)' \in Kinds
      /\ o \in Allocators => Kind(g)' # "other"
      /\ o = "checkNode" => Kind(g)' = "unordered"
      /\ \A h \in Workers : h # g => Kind(h)' = Kind(h)
  BY <1>1, <1>2 DEF Kind, Kinds, Ordered, TypeOK
<1>6. Call(Script(dial)[o], {}, Kind(g)')
  <2> DEFINE k == Kind(g)'
  <2>1. /\ k \in Kinds
        /\ o \in Allocators => k # "other"
        /\ o = "checkNode" => k = "unordered"
    BY <1>5
  <2> HIDE DEF k
  <2>2. Call(Script(dial)[o], {}, k)
    BY <2>1, ScriptsInOrder
  <2>3. QED  BY <2>2 DEF k
<1>7. left' \in [Workers -> Seq(Step)]
  BY <1>1, <1>2, <1>6 DEF Call
<1>8. TypeOK'
  <2>1. \A h \in Workers : \A i \in DOMAIN left'[h] : left'[h][i] \in Step
    BY <1>7
  <2>2. /\ op' \in [Workers -> {"idle", "dead"} \cup scenario.ops]
        /\ o \notin {"idle", "dead"}
    BY <1>1, <1>2 DEF TypeOK, AllOps, Allocators
  <2>3. \A h \in Workers : op'[h] \in {"idle", "dead"} => left'[h] = <<>>
    BY <1>1, <1>2, <2>2 DEF TypeOK
  <2>4. QED  BY <1>1, <1>2, <2>1, <2>3 DEF TypeOK
<1>9. InOrder'
  <2> SUFFICES ASSUME NEW h \in Workers, Alive(h)'
               PROVE  Path(left'[h], Holds(h)', {}, Kind(h)')
    BY DEF InOrder
  <2>1. CASE h = g
    BY <1>1, <1>2, <1>3, <1>4, <1>6, <2>1 DEF Call
  <2>2. CASE h # g
    BY <1>1, <1>2, <1>3, <1>5, <2>2 DEF InOrder, Alive
  <2>3. QED  BY <2>1, <2>2
<1>10. OneAllocation'
  BY <1>1, <1>2 DEF OneAllocation, Allowed
<1>11. CursorHolders' /\ Exclusive'
  BY <1>1, <1>2, <1>4 DEF CursorHolders, Exclusive, Ordered, Mutexes
<1>12. QED  BY <1>7, <1>8, <1>9, <1>10, <1>11 DEF LockIInv

LEMMA AcquireKeeps ==
  ASSUME LockIInv, NEW g \in Workers, NEW m \in Mutexes, Lock(g, m) \/ RLock(g, m)
  PROVE  LockIInv'
<1>1. /\ TypeOK /\ left \in [Workers -> Seq(Step)] /\ InOrder /\ OneAllocation
      /\ CursorHolders /\ Exclusive
  BY DEF LockIInv
<1> DEFINE s == Head(left[g])
<1>2. /\ left[g] # <<>> /\ s.on = m /\ Advance(g)
      /\ \/ /\ s = Ex(m) /\ holder[m] = NoWorker /\ readers[m] = {}
            /\ holder' = [holder EXCEPT ![m] = g] /\ UNCHANGED readers
         \/ /\ s = Sh(m) /\ holder[m] = NoWorker
            /\ readers' = [readers EXCEPT ![m] = @ \cup {g}] /\ UNCHANGED holder
  BY DEF Lock, RLock, At, Ex, Sh
<1>3. PICK i \in SUBSET Locks : /\ Legal(s, Holds(g), i, Kind(g))
                                /\ Path(Tail(left[g]), i, {}, Kind(g))
  BY <1>2, NextStep
<1>4. i = Holds(g) \cup {s} /\ MayLock(m, Holds(g), Kind(g))
  BY <1>2, <1>3 DEF Legal, Ex, Sh
<1>5. /\ holder' \in [Mutexes -> Workers \cup {NoWorker}]
      /\ readers' \in [Mutexes -> SUBSET Workers]
  <2>1. /\ holder \in [Mutexes -> Workers \cup {NoWorker}]
        /\ readers \in [Mutexes -> SUBSET Workers]
    BY <1>1 DEF TypeOK
  <2> HIDE DEF s
  <2>2. CASE holder' = [holder EXCEPT ![m] = g] /\ UNCHANGED readers
    BY <2>1, <2>2
  <2>3. CASE /\ readers' = [readers EXCEPT ![m] = readers[m] \cup {g}]
             /\ UNCHANGED holder
    BY <2>1, <2>3
  <2>4. QED  BY <1>2, <2>2, <2>3
<1>6. ASSUME NEW h \in Workers, h # g
      PROVE  Holds(h)' = Holds(h)
  <2>1. \A n \in Mutexes : /\ holder'[n] = h <=> holder[n] = h
                           /\ h \in readers'[n] <=> h \in readers[n]
    <3>1. CASE s = Ex(m) /\ holder' = [holder EXCEPT ![m] = g] /\ UNCHANGED readers
      BY <1>2, <1>6, <3>1, WorkersAssumption
    <3>2. CASE /\ readers' = [readers EXCEPT ![m] = readers[m] \cup {g}]
               /\ UNCHANGED holder
      BY <1>6, <3>2
    <3>3. QED  BY <1>2, <3>1, <3>2
  <2>2. QED  BY <2>1 DEF Holds, Having
<1>7. Holds(g)' = i
  <2>1. /\ \A n \in Mutexes : Ex(n) \in i <=> holder'[n] = g
        /\ \A n \in Mutexes : Sh(n) \in i <=> g \in readers'[n]
    BY <1>1, <1>2, <1>4, HoldsWhat, LockNames DEF TypeOK
  <2>2. QED  BY <2>1, HavingWhich DEF Holds
<1>8. TypeOK' /\ (left \in [Workers -> Seq(Step)])' /\ InOrder' /\ OneAllocation'
  BY <1>2, <1>3, <1>5, <1>6, <1>7, OneAdvances
<1>9. CursorHolders'
  <2>1. Ordered /\ m = "cursorMu" => op[g] \in Allocators
    BY <1>4 DEF MayLock, Kind
  <2>2. UNCHANGED <<scenario, op>>
    BY <1>2 DEF Advance
  <2>3. \A h \in Workers : h # g =>
           /\ (holder["cursorMu"] = h)' => holder["cursorMu"] = h
           /\ (h \in readers["cursorMu"])' => h \in readers["cursorMu"]
    <3>1. CASE s = Ex(m) /\ holder' = [holder EXCEPT ![m] = g] /\ UNCHANGED readers
      BY <1>1, <3>1 DEF TypeOK
    <3>2. CASE /\ readers' = [readers EXCEPT ![m] = readers[m] \cup {g}]
               /\ UNCHANGED holder
      BY <1>1, <3>2 DEF TypeOK
    <3>3. QED  BY <1>2, <3>1, <3>2
  <2>4. m # "cursorMu" =>
           UNCHANGED <<holder["cursorMu"], readers["cursorMu"]>>
    <3>1. CASE s = Ex(m) /\ holder' = [holder EXCEPT ![m] = g] /\ UNCHANGED readers
      BY <1>1, <3>1 DEF TypeOK
    <3>2. CASE /\ readers' = [readers EXCEPT ![m] = readers[m] \cup {g}]
               /\ UNCHANGED holder
      BY <1>1, <3>2 DEF TypeOK
    <3>3. QED  BY <1>2, <3>1, <3>2
  <2> SUFFICES ASSUME Ordered, NEW h \in Workers,
                      (holder["cursorMu"] = h \/ h \in readers["cursorMu"])'
               PROVE  op[h] \in Allocators \cup {"dead"}
    BY <2>2 DEF CursorHolders, Ordered
  <2>5. QED  BY <1>1, <2>1, <2>3, <2>4 DEF CursorHolders
<1>10. Exclusive'
  BY <1>1, <1>2, WorkersAssumption DEF Exclusive, TypeOK
<1>11. QED  BY <1>8, <1>9, <1>10 DEF LockIInv

LEMMA UnlockKeeps ==
  ASSUME LockIInv, NEW g \in Workers, NEW m \in Mutexes, Unlock(g, m)
  PROVE  LockIInv'
<1>1. /\ TypeOK /\ left \in [Workers -> Seq(Step)] /\ InOrder /\ OneAllocation
      /\ CursorHolders /\ Exclusive
  BY DEF LockIInv
<1> DEFINE s == Head(left[g])
<1>2. /\ left[g] # <<>> /\ s.on = m /\ Advance(g)
      /\ \/ /\ s.do = "unlock"
            /\ holder' = [holder EXCEPT ![m] = NoWorker] /\ UNCHANGED readers
         \/ /\ s.do = "runlock"
            /\ readers' = [readers EXCEPT ![m] = @ \ {g}] /\ UNCHANGED holder
  BY DEF Unlock, At
<1>3. PICK i \in SUBSET Locks : /\ Legal(s, Holds(g), i, Kind(g))
                                /\ Path(Tail(left[g]), i, {}, Kind(g))
  BY <1>2, NextStep
<1>4. /\ s.do = "unlock" => Ex(m) \in Holds(g) /\ i = Holds(g) \ {Ex(m)}
      /\ s.do = "runlock" => Sh(m) \in Holds(g) /\ i = Holds(g) \ {Sh(m)}
  BY <1>2, <1>3 DEF Legal
<1>5. /\ holder' \in [Mutexes -> Workers \cup {NoWorker}]
      /\ readers' \in [Mutexes -> SUBSET Workers]
  BY <1>1, <1>2 DEF TypeOK
<1>6. s.do = "unlock" => holder[m] = g
  BY <1>4, HoldsWhat
<1>7. ASSUME NEW h \in Workers, h # g
      PROVE  Holds(h)' = Holds(h)
  <2>1. \A n \in Mutexes : /\ holder'[n] = h <=> holder[n] = h
                           /\ h \in readers'[n] <=> h \in readers[n]
    <3>1. CASE s.do = "unlock"
      BY <1>1, <1>2, <1>6, <1>7, <3>1, WorkersAssumption DEF TypeOK
    <3>2. CASE s.do = "runlock"
      BY <1>1, <1>2, <1>7, <3>2 DEF TypeOK
    <3>3. QED  BY <1>2, <3>1, <3>2
  <2>2. QED  BY <2>1 DEF Holds, Having
<1>8. Holds(g)' = i
  <2>1. /\ \A n \in Mutexes : Ex(n) \in i <=> holder'[n] = g
        /\ \A n \in Mutexes : Sh(n) \in i <=> g \in readers'[n]
    BY <1>1, <1>2, <1>4, HoldsWhat, LockNames, WorkersAssumption DEF TypeOK
  <2>2. QED  BY <2>1, HavingWhich DEF Holds
<1>9. TypeOK' /\ (left \in [Workers -> Seq(Step)])' /\ InOrder' /\ OneAllocation'
  BY <1>2, <1>3, <1>5, <1>7, <1>8, OneAdvances
<1>10. UNCHANGED <<scenario, op>> /\ "cursorMu" \in Mutexes
  BY <1>2 DEF Advance, Mutexes
<1>11. \A n \in Mutexes : /\ holder'[n] # NoWorker => holder'[n] = holder[n]
                          /\ readers'[n] \subseteq readers[n]
  BY <1>1, <1>2 DEF TypeOK
<1>12. CursorHolders'
  <2> SUFFICES ASSUME Ordered', NEW h \in Workers,
                      (holder["cursorMu"] = h \/ h \in readers["cursorMu"])'
               PROVE  op'[h] \in Allocators \cup {"dead"}
    BY DEF CursorHolders
  <2>1. Ordered
    BY <1>10 DEF Ordered
  <2>2. holder["cursorMu"] = h \/ h \in readers["cursorMu"]
    BY <1>10, <1>11, WorkersAssumption
  <2>3. QED  BY <1>1, <1>10, <2>1, <2>2 DEF CursorHolders
<1>13. Exclusive'
  BY <1>1, <1>11 DEF Exclusive
<1>14. QED  BY <1>9, <1>12, <1>13 DEF LockIInv

LEMMA AccessKeeps ==
  ASSUME LockIInv, NEW g \in Workers, NEW v \in Variables, Access(g, v)
  PROVE  LockIInv'
<1>1. /\ TypeOK /\ CursorHolders /\ Exclusive
  BY DEF LockIInv
<1> DEFINE s == Head(left[g])
<1>2. /\ left[g] # <<>> /\ s.do \in {"read", "write"} /\ Advance(g)
      /\ UNCHANGED <<holder, readers>>
  BY DEF Access, At
<1>3. PICK i \in SUBSET Locks : /\ Legal(s, Holds(g), i, Kind(g))
                                /\ Path(Tail(left[g]), i, {}, Kind(g))
  BY <1>2, NextStep
<1>4. i = Holds(g) /\ \A h \in Workers : Holds(h)' = Holds(h)
  BY <1>2, <1>3 DEF Legal, Holds
<1>5. TypeOK' /\ (left \in [Workers -> Seq(Step)])' /\ InOrder' /\ OneAllocation'
  BY <1>1, <1>2, <1>3, <1>4, OneAdvances DEF TypeOK
<1>6. CursorHolders' /\ Exclusive'
  BY <1>1, <1>2 DEF CursorHolders, Exclusive, Ordered, Advance
<1>7. QED  BY <1>5, <1>6 DEF LockIInv

LEMMA DrawKeeps ==
  ASSUME LockIInv, NEW g \in Workers, NEW pool \in Pools, Draw(g, pool)
  PROVE  LockIInv'
<1>1. /\ TypeOK /\ CursorHolders /\ Exclusive
  BY DEF LockIInv
<1> DEFINE s == Head(left[g])
<1>2. /\ left[g] # <<>> /\ s.do = "draw" /\ Advance(g)
      /\ UNCHANGED <<holder, readers>>
  BY DEF Draw, At
<1>3. PICK i \in SUBSET Locks : /\ Legal(s, Holds(g), i, Kind(g))
                                /\ Path(Tail(left[g]), i, {}, Kind(g))
  BY <1>2, NextStep
<1>4. i = Holds(g) /\ \A h \in Workers : Holds(h)' = Holds(h)
  BY <1>2, <1>3 DEF Legal, Holds
<1>5. TypeOK' /\ (left \in [Workers -> Seq(Step)])' /\ InOrder' /\ OneAllocation'
  BY <1>1, <1>2, <1>3, <1>4, OneAdvances DEF TypeOK
<1>6. CursorHolders' /\ Exclusive'
  BY <1>1, <1>2 DEF CursorHolders, Exclusive, Ordered, Advance
<1>7. QED  BY <1>5, <1>6 DEF LockIInv

\* A creation that panics has cursorMu and nothing else, and either unlocks it
\* or is dead.
LEMMA HandlerPanicKeeps ==
  ASSUME LockIInv, NEW g \in Workers, NEW pool \in Pools,
         At(g, "draw", pool), PanicInHandler(g, pool), UNCHANGED scenario
  PROVE  LockIInv'
<1> DEFINE u == [do |-> "unlock", on |-> "cursorMu"]
<1>1. /\ TypeOK /\ left \in [Workers -> Seq(Step)] /\ InOrder /\ OneAllocation
      /\ CursorHolders /\ Exclusive
  BY DEF LockIInv
<1>2. /\ op[g] = "create" /\ UNCHANGED <<scenario, holder, readers>>
      /\ \/ op' = op /\ left' = [left EXCEPT ![g] = <<u>>]
         \/ op' = [op EXCEPT ![g] = "dead"] /\ left' = [left EXCEPT ![g] = <<>>]
  BY DEF PanicInHandler, Do
<1>3. Holds(g) = {Ex("cursorMu")}
  BY NextStep DEF At, Legal
<1>4. \A h \in Workers : Holds(h)' = Holds(h)
  BY <1>2 DEF Holds
<1>5. u \in Step /\ <<u>> \in Seq(Step)
  BY DEF Step, Mutexes
<1>6. \A k : Path(<<u>>, {Ex("cursorMu")}, {}, k)
  <2> TAKE k
  <2>1. Legal(u, {Ex("cursorMu")}, {}, k)
    BY DEF Legal
  <2>2. {Ex("cursorMu")} \in SUBSET Locks /\ {} \in SUBSET Locks
    BY DEF Locks, Ex, Mutexes
  <2>3. QED  BY <1>5, <2>1, <2>2, PathStep
<1> HIDE DEF u
<1>7. left' \in [Workers -> Seq(Step)]
  <2>1. <<>> \in Seq(Step)
    OBVIOUS
  <2>2. QED  BY <1>1, <1>2, <1>5, <2>1
<1>8. TypeOK'
  <2>1. \A h \in Workers : \A i \in DOMAIN left'[h] : left'[h][i] \in Step
    BY <1>7
  <2>2. op' \in [Workers -> {"idle", "dead"} \cup scenario.ops]
    BY <1>1, <1>2 DEF TypeOK
  <2>3. \A h \in Workers : op'[h] \in {"idle", "dead"} => left'[h] = <<>>
    BY <1>1, <1>2 DEF TypeOK
  <2>4. QED  BY <1>1, <1>2, <2>1, <2>2, <2>3 DEF TypeOK
<1>9. InOrder'
  <2> SUFFICES ASSUME NEW h \in Workers, Alive(h)'
               PROVE  Path(left'[h], Holds(h)', {}, Kind(h)')
    BY DEF InOrder
  <2>1. CASE h = g
    <3>1. left'[h] = <<u>>
      BY <1>1, <1>2, <2>1 DEF Alive, TypeOK
    <3>2. QED  BY <1>3, <1>4, <1>6, <2>1, <3>1
  <2>2. CASE h # g
    <3>1. Kind(h)' = Kind(h) /\ left'[h] = left[h] /\ Alive(h)
      BY <1>1, <1>2, <2>2 DEF Kind, Ordered, Alive, TypeOK
    <3>2. QED  BY <1>1, <1>4, <3>1 DEF InOrder
  <2>3. QED  BY <2>1, <2>2
<1>10. \A h \in Workers :
          /\ op'[h] \in Allocators => op[h] \in Allocators
          /\ op[h] \in Allocators \cup {"dead"}
                => op'[h] \in Allocators \cup {"dead"}
  BY <1>1, <1>2 DEF TypeOK, Allocators
<1>11. OneAllocation' /\ CursorHolders' /\ Exclusive'
  BY <1>1, <1>2, <1>10 DEF OneAllocation, CursorHolders, Exclusive, Ordered
<1>12. QED  BY <1>7, <1>8, <1>9, <1>11 DEF LockIInv

\* The process starts again without goroutines.
LEMMA GoroutinePanicKeeps ==
  ASSUME LockIInv, NEW g \in Workers, PanicInGoroutine(g), UNCHANGED scenario
  PROVE  LockIInv'
<1>1. /\ op' = [h \in Workers |-> "idle"] /\ left' = [h \in Workers |-> <<>>]
      /\ holder' = [m \in Mutexes |-> NoWorker]
      /\ readers' = [m \in Mutexes |-> {}] /\ scenario' = scenario
      /\ scenario \in Scenarios
  BY DEF PanicInGoroutine, LockIInv, TypeOK
<1>2. TypeOK' /\ left' \in [Workers -> Seq(Step)]
  BY <1>1 DEF TypeOK
<1>3. \A h \in Workers : Holds(h)' = {}
  BY <1>1, WorkersAssumption DEF Holds, Having
<1>4. InOrder'
  BY <1>1, <1>3, PathEmpty DEF InOrder
<1>5. OneAllocation' /\ CursorHolders' /\ Exclusive'
  BY <1>1, WorkersAssumption DEF OneAllocation, CursorHolders, Exclusive,
     Allocators, Mutexes
<1>6. QED  BY <1>2, <1>4, <1>5 DEF LockIInv

LEMMA ReturnKeeps ==
  ASSUME LockIInv, NEW g \in Workers, Return(g)
  PROVE  LockIInv'
<1>1. /\ TypeOK /\ left \in [Workers -> Seq(Step)] /\ InOrder /\ OneAllocation
      /\ CursorHolders /\ Exclusive
  BY DEF LockIInv
<1>2. /\ left[g] = <<>> /\ Alive(g) /\ op' = [op EXCEPT ![g] = "idle"]
      /\ UNCHANGED <<scenario, left, holder, readers>>
  BY DEF Return, Alive
<1>3. /\ \A h \in Workers : Holds(h)' = Holds(h)
      /\ \A h \in Workers : h # g => Kind(h)' = Kind(h)
  BY <1>2 DEF Holds, Kind, Ordered
<1>4. Holds(g) = {} /\ \A m \in Mutexes : holder[m] # g /\ g \notin readers[m]
  BY <1>2, NoneLeft
<1>5. TypeOK' /\ left' \in [Workers -> Seq(Step)]
  BY <1>1, <1>2 DEF TypeOK
<1>6. InOrder'
  <2> SUFFICES ASSUME NEW h \in Workers, Alive(h)'
               PROVE  Path(left'[h], Holds(h)', {}, Kind(h)')
    BY DEF InOrder
  <2>1. CASE h = g
    BY <1>2, <1>3, <1>4, <2>1, PathEmpty
  <2>2. CASE h # g
    BY <1>1, <1>2, <1>3, <2>2 DEF InOrder, Alive
  <2>3. QED  BY <2>1, <2>2
<1>7. OneAllocation' /\ CursorHolders' /\ Exclusive'
  BY <1>1, <1>2, <1>4 DEF OneAllocation, CursorHolders, Exclusive, Ordered,
     Mutexes, Allocators
<1>8. QED  BY <1>5, <1>6, <1>7 DEF LockIInv

LEMMA InitOK == Init => LockIInv
<1> SUFFICES ASSUME Init PROVE LockIInv
  OBVIOUS
<1>1. TypeOK /\ left \in [Workers -> Seq(Step)]
  BY DEF Init, TypeOK
<1>2. \A g \in Workers : Holds(g) = {}
  BY WorkersAssumption DEF Init, Holds, Having
<1>3. InOrder
  BY <1>2, PathEmpty DEF Init, InOrder
<1>4. OneAllocation /\ CursorHolders /\ Exclusive
  BY WorkersAssumption DEF Init, OneAllocation, CursorHolders, Exclusive,
     Allocators, Mutexes
<1>5. QED  BY <1>1, <1>3, <1>4 DEF LockIInv

\* Every action keeps the invariant.
LEMMA NextKeeps == LockIInv /\ [Next]_vars => LockIInv'
<1> SUFFICES ASSUME LockIInv, [Next]_vars PROVE LockIInv'
  OBVIOUS
<1>1. CASE UNCHANGED vars
  BY <1>1 DEF vars, LockIInv, TypeOK, InOrder, Alive, Holds, Kind, Ordered,
     OneAllocation, CursorHolders, Exclusive
<1>2. ASSUME NEW g \in Workers, NEW o \in AllOps, NEW dial \in BOOLEAN,
             Start(g, o, dial)
      PROVE  LockIInv'
  BY <1>2, StartKeeps
<1>3. ASSUME NEW g \in Workers, Acquire(g)
      PROVE  LockIInv'
  BY <1>3, AcquireKeeps DEF Acquire
<1>4. ASSUME NEW g \in Workers, Proceed(g)
      PROVE  LockIInv'
  BY <1>4, UnlockKeeps, AccessKeeps, DrawKeeps, HandlerPanicKeeps,
     GoroutinePanicKeeps, ReturnKeeps DEF Proceed, Panic
<1>5. QED
  BY <1>1, <1>2, <1>3, <1>4 DEF Next

(***************************************************************************)
(* The theorems                                                            *)
(***************************************************************************)
\* Who touches a guarded variable has its mutex, and who writes it alone.
LEMMA NoRaceThere ==
  ASSUME LockIInv
  PROVE  NoRace
<1> SUFFICES ASSUME NEW g \in Workers, NEW h \in Workers, NEW v \in Guarded,
                    g # h, At(g, "write", v), At(h, "read", v) \/ At(h, "write", v)
             PROVE  FALSE
  BY DEF NoRace
<1>1. Guard[v] \in Mutexes
  BY DEF Guard, Guarded, Mutexes
<1>2. Ex(Guard[v]) \in Holds(g)
  BY NextStep DEF At, Legal, MayWrite
<1>3. Ex(Guard[v]) \in Holds(h) \/ Sh(Guard[v]) \in Holds(h)
  BY NextStep DEF At, Legal, MayRead, MayWrite
<1>4. QED
  BY <1>1, <1>2, <1>3, HoldsWhat, WorkersAssumption DEF LockIInv, Exclusive

\* Where an order is asked, who waits, waits for a mutex that goes inside all that
\* it has, and never for cursorMu.
LEMMA WaitsInside ==
  ASSUME LockIInv, Ordered, NEW g \in Workers, NEW h \in WaitsFor(g), Alive(h)
  PROVE  \E m \in Mutexes \ {"cursorMu"} :
           /\ Ex(m) \in Holds(h) \/ Sh(m) \in Holds(h)
           /\ \A x \in Holds(g) : \/ x.on = "cursorMu"
                                  \/ x.on \in Outer /\ m \in Inner
<1>1. h \in Workers
  BY DEF WaitsFor
<1>2. PICK m \in Mutexes : /\ At(g, "lock", m) \/ At(g, "rlock", m)
                           /\ holder[m] = h \/ h \in readers[m]
  BY DEF WaitsFor
<1>3. Ex(m) \in Holds(h) \/ Sh(m) \in Holds(h)
  BY <1>2, HoldsWhat
<1>4. MayLock(m, Holds(g), Kind(g))
  BY <1>2, NextStep DEF At, Legal
<1>5. m # "cursorMu"
  <2> SUFFICES ASSUME m = "cursorMu" PROVE FALSE
    OBVIOUS
  <2>1. op[g] \in Allocators /\ \A x \in Holds(g) : x.on # "cursorMu"
    BY <1>4 DEF MayLock, Kind
  <2>2. op[h] \in Allocators
    BY <1>1, <1>2, <1>3 DEF LockIInv, CursorHolders, Alive
  <2>3. g = h
    BY <1>1, <2>1, <2>2 DEF LockIInv, OneAllocation, Ordered
  <2>4. QED  BY <1>3, <2>1, <2>3 DEF Ex, Sh
<1>6. QED
  BY <1>3, <1>4, <1>5 DEF MayLock, Kind

\* So a circle would need three mutexes inside each other.
LEMMA NoCircleThere ==
  ASSUME LockIInv
  PROVE  NoCircularWait
<1> SUFFICES ASSUME Ordered, NEW S \in SUBSET Workers, S # {},
                    \A g \in S : WaitsFor(g) \cap S # {}
             PROVE  FALSE
  BY DEF NoCircularWait, NobodyWaitsInACircle
<1>0. \A h \in S : Alive(h)
  <2> SUFFICES ASSUME NEW h \in S, op[h] = "dead" PROVE FALSE
    BY DEF Alive
  <2>1. left[h] = <<>>
    BY DEF LockIInv, TypeOK
  <2>2. QED  BY <2>1 DEF WaitsFor, At
<1>1. PICK g \in S : TRUE
  OBVIOUS
<1>2. PICK h \in S : h \in WaitsFor(g)
  OBVIOUS
<1>3. PICK i \in S : i \in WaitsFor(h)
  OBVIOUS
<1>4. PICK j \in S : j \in WaitsFor(i)
  OBVIOUS
<1>5. PICK m \in Mutexes \ {"cursorMu"} : Ex(m) \in Holds(h) \/ Sh(m) \in Holds(h)
  BY <1>0, <1>2, WaitsInside
<1>6. PICK n \in Mutexes \ {"cursorMu"} :
         (Ex(n) \in Holds(i) \/ Sh(n) \in Holds(i)) /\ n \in Inner
  <2>1. PICK n \in Mutexes \ {"cursorMu"} :
           /\ Ex(n) \in Holds(i) \/ Sh(n) \in Holds(i)
           /\ \A x \in Holds(h) : \/ x.on = "cursorMu"
                                  \/ x.on \in Outer /\ n \in Inner
    BY <1>0, <1>3, WaitsInside
  <2>2. QED  BY <1>5, <2>1, LockNames
<1>7. n \in Outer
  <2>1. PICK q \in Mutexes \ {"cursorMu"} :
           \A x \in Holds(i) : \/ x.on = "cursorMu"
                               \/ x.on \in Outer /\ q \in Inner
    BY <1>0, <1>4, WaitsInside
  <2>2. QED  BY <1>6, <2>1, LockNames
<1>8. QED  BY <1>6, <1>7 DEF Inner, Outer

\* No two of any number of goroutines touch a guarded variable at once when one
\* of them writes it, whatever they are asked for.
THEOREM LocksSafe == Spec => []LockInv
<1>1. LockIInv => LockInv
  BY NoRaceThere DEF LockIInv, LockInv
<1>2. QED
  BY InitOK, NextKeeps, <1>1, PTL DEF Spec

\* No set of goroutines, finite or not, waits for each other, as long as
\* allocations do not overlap and no node recovers.
THEOREM NoDeadlock == Spec => []NoCircularWait
<1>1. LockIInv => NoCircularWait
  BY NoCircleThere
<1>2. QED
  BY InitOK, NextKeeps, <1>1, PTL DEF Spec
=============================================================================
