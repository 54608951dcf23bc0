--------------------------- MODULE ConnPoolProofs ---------------------------
(***************************************************************************)
(* TLAPS: no LXD client outlives its node's address, and of requests that  *)
(* do not overlap every open SSH connection is the pooled one.             *)
(*                                                                         *)
(* What a request has still to do is known from the number of its calls:   *)
(* they are the last ones of its script.                                   *)
(***************************************************************************)
EXTENDS ConnPool, SequenceTheorems, TLAPS

(***************************************************************************)
(* The invariant                                                           *)
(***************************************************************************)
\* The calls q that a request has still to make are the last ones of its script,
\* but for the mutex that it may have taken.
Called(op, q, i) == Script(op)[Len(Script(op)) - Len(q) + i]
Rest(op, q) ==
  /\ Len(q) <= Len(Script(op))
  /\ \A i \in 1 .. Len(q) :
        \/ q[i] = Called(op, q, i)
        \/ i = 1 /\ q[i] = "probe" /\ Called(op, q, i) = "lookup"
        \/ i = 1 /\ q[i] = "connecting" /\ Called(op, q, i) = "connect"
InScript == \A w \in Workers : Rest(job[w].op, todo[w])

\* A migration of n has written its host, and not its URL.
Moves(w, n) == N(w) = n /\ job[w].op = "migrate" /\ Len(todo[w]) = 10
\* Nothing can keep w from dropping the LXD client of n.
WillDropLxd(w, n) ==
  N(w) = n /\ \/ job[w].op = "migrate" /\ Len(todo[w]) >= 9
              \/ job[w].op = "remove" /\ Len(todo[w]) = 1
\* Nor from dropping its SSH connection.
WillDropSsh(w, n) == N(w) = n /\ job[w].op = "migrate" /\ Len(todo[w]) >= 8

OneMigration ==
  \A v, w \in Workers :
     /\ Len(todo[v]) > 0 /\ Len(todo[w]) > 0 /\ N(v) = N(w)
     /\ job[v].op = "migrate" /\ job[w].op = "migrate"
     => v = w
\* The URL names the host, but during a migration.
UrlsNameHosts ==
  \A n \in Nodes : \/ ~Exists(n) \/ nodes[n].url = nodes[n].host
                   \/ \E w \in Workers : Moves(w, n)
MovesToHost ==
  \A w \in Workers : \A n \in Nodes :
     Moves(w, n) /\ Exists(n) => nodes[n].host = job[w].host
\* The URL u of n is that of its record, or its client is dropped again.
Current(n, u) ==
  \/ Exists(n) /\ u = nodes[n].url
  \/ \E w \in Workers : WillDropLxd(w, n)
ClientsCurrent == \A n \in Nodes : pool[n] = None \/ Current(n, pool[n])
ConnectingCurrent ==
  \A w \in Workers : At(w, "connecting") => Current(N(w), job[w].host)

\* What holds of requests that do not overlap.
Alone ==
  \A v, w \in Workers : Len(todo[v]) > 0 /\ Len(todo[w]) > 0 => v = w
NonePooled ==
  \A w \in Workers :
     At(w, "dial") \/ At(w, "store") => sshPool[N(w)] = None
DialsHost ==
  \A w \in Workers :
     At(w, "store") => Exists(N(w)) /\ job[w].host = nodes[N(w)].host
OpenPooled ==
  \A c \in Conns : conn[c].state = "up" =>
     LET n == conn[c].node
     IN  /\ sshPool[n] = c
         /\ \/ ~Exists(n) \/ conn[c].host = nodes[n].host
            \/ \E w \in Workers : WillDropSsh(w, n)
Serially == Alone /\ NonePooled /\ DialsHost /\ OpenPooled

PoolIInv ==
  /\ TypeOK /\ todo \in [Workers -> Seq(Steps)]
  /\ InScript /\ OneMigration /\ UrlsNameHosts /\ MovesToHost
  /\ ClientsCurrent /\ ConnectingCurrent
  /\ scenario.serial => Serially

(***************************************************************************)
(* The scripts                                                             *)
(***************************************************************************)
LEMMA Join ==
  ASSUME NEW s \in Seq(Steps), NEW t \in Seq(Steps)
  PROVE  /\ s \o t \in Seq(Steps) /\ Len(s \o t) = Len(s) + Len(t)
         /\ \A i \in 1 .. Len(s) : (s \o t)[i] = s[i]
         /\ \A i \in 1 .. Len(t) : (s \o t)[Len(s) + i] = t[i]
OBVIOUS

LEMMA ShortScripts ==
  /\ getSSHClient \in Seq(Steps) /\ Len(getSSHClient) = 3
  /\ getSSHClient[1] = "lookup" /\ getSSHClient[2] = "dial"
  /\ getSSHClient[3] = "store"
  /\ getNodeClient \in Seq(Steps) /\ Len(getNodeClient) = 1
  /\ getNodeClient[1] = "connect"
  /\ removeNode \in Seq(Steps) /\ Len(removeNode) = 2
  /\ removeNode[1] = "delete" /\ removeNode[2] = "dropLxd"
BY DEF getSSHClient, getNodeClient, removeNode, Steps

LEMMA RebuildScript ==
  /\ rebuildNode \in Seq(Steps) /\ Len(rebuildNode) = 7
  /\ rebuildNode[1] = "check" /\ rebuildNode[2] = "lookup"
  /\ rebuildNode[3] = "dial" /\ rebuildNode[4] = "store"
  /\ rebuildNode[5] = "dropLxd" /\ rebuildNode[6] = "refresh"
  /\ rebuildNode[7] = "connect"
<1> DEFINE c == <<"check">>
           d == <<"dropLxd", "refresh">>
<1>1. /\ c \in Seq(Steps) /\ Len(c) = 1 /\ c[1] = "check"
      /\ d \in Seq(Steps) /\ Len(d) = 2 /\ d[1] = "dropLxd" /\ d[2] = "refresh"
  BY DEF Steps
<1> HIDE DEF c, d
<1> DEFINE a == c \o getSSHClient
<1>2. /\ a \in Seq(Steps) /\ Len(a) = 1 + 3 /\ a[1] = "check"
      /\ \A i \in 1 .. 3 : a[1 + i] = getSSHClient[i]
  <2>1. /\ a \in Seq(Steps) /\ Len(a) = Len(c) + Len(getSSHClient)
        /\ \A i \in 1 .. Len(c) : a[i] = c[i]
        /\ \A i \in 1 .. Len(getSSHClient) : a[Len(c) + i] = getSSHClient[i]
    BY <1>1, ShortScripts, Join
  <2>2. QED  BY <1>1, <2>1, ShortScripts
<1> HIDE DEF a
<1> DEFINE b == a \o d
<1>3. /\ b \in Seq(Steps) /\ Len(b) = 4 + 2 /\ \A i \in 1 .. 4 : b[i] = a[i]
      /\ \A i \in 1 .. 2 : b[4 + i] = d[i]
  <2>1. /\ b \in Seq(Steps) /\ Len(b) = Len(a) + Len(d)
        /\ \A i \in 1 .. Len(a) : b[i] = a[i]
        /\ \A i \in 1 .. Len(d) : b[Len(a) + i] = d[i]
    BY <1>1, <1>2, Join
  <2>2. QED  BY <1>1, <1>2, <2>1
<1> HIDE DEF b
<1>4. rebuildNode = b \o getNodeClient
  BY DEF rebuildNode, a, b, c, d
<1>5. /\ rebuildNode \in Seq(Steps) /\ Len(rebuildNode) = 7
      /\ \A i \in 1 .. 6 : rebuildNode[i] = b[i]
      /\ rebuildNode[7] = "connect"
  <2>1. /\ rebuildNode \in Seq(Steps)
        /\ Len(rebuildNode) = Len(b) + Len(getNodeClient)
        /\ \A i \in 1 .. Len(b) : rebuildNode[i] = b[i]
        /\ \A i \in 1 .. Len(getNodeClient) :
              rebuildNode[Len(b) + i] = getNodeClient[i]
    BY <1>3, <1>4, ShortScripts, Join
  <2>2. QED  BY <1>3, <2>1, ShortScripts
<1>6. /\ a[2] = "lookup" /\ a[3] = "dial" /\ a[4] = "store"
  BY <1>2, ShortScripts
<1>7. b[5] = "dropLxd" /\ b[6] = "refresh"
  BY <1>1, <1>3
<1>8. QED  BY <1>2, <1>3, <1>5, <1>6, <1>7

LEMMA MigrateScript ==
  /\ handleNodeMigrate \in Seq(Steps) /\ Len(handleNodeMigrate) = 11
  /\ handleNodeMigrate[1] = "setHost" /\ handleNodeMigrate[2] = "setUrl"
  /\ handleNodeMigrate[3] = "dropLxd" /\ handleNodeMigrate[4] = "dropSsh"
  /\ \A i \in 1 .. 7 : handleNodeMigrate[4 + i] = rebuildNode[i]
<1> DEFINE h == <<"setHost", "setUrl", "dropLxd", "dropSsh">>
<1>1. /\ h \in Seq(Steps) /\ Len(h) = 4 /\ h[1] = "setHost" /\ h[2] = "setUrl"
      /\ h[3] = "dropLxd" /\ h[4] = "dropSsh"
  BY DEF Steps
<1>2. handleNodeMigrate = h \o rebuildNode
  BY DEF handleNodeMigrate
<1> HIDE DEF h
<1>3. /\ handleNodeMigrate \in Seq(Steps)
      /\ Len(handleNodeMigrate) = Len(h) + Len(rebuildNode)
      /\ \A i \in 1 .. Len(h) : handleNodeMigrate[i] = h[i]
      /\ \A i \in 1 .. Len(rebuildNode) :
            handleNodeMigrate[Len(h) + i] = rebuildNode[i]
  BY <1>1, <1>2, RebuildScript, Join
<1>4. QED  BY <1>1, <1>3, RebuildScript

LEMMA Scripts ==
  /\ Script("forward") = getSSHClient /\ Script("call") = getNodeClient
  /\ Script("rebuild") = rebuildNode /\ Script("migrate") = handleNodeMigrate
  /\ Script("remove") = removeNode
BY DEF Script

LEMMA ScriptType ==
  ASSUME NEW op \in Requests
  PROVE  Script(op) \in Seq(Steps) /\ Len(Script(op)) \in Nat
<1>1. Script(op) \in Seq(Steps)
  BY Scripts, ShortScripts, RebuildScript, MigrateScript DEF Requests
<1>2. QED  BY <1>1

\* Where a request is when it makes call s, by the number of calls left.
Place(op, n, s) ==
  /\ s = "setHost" => op = "migrate" /\ n = 11
  /\ s = "setUrl"  => op = "migrate" /\ n = 10
  /\ s = "dropSsh" => op = "migrate" /\ n = 8
  /\ s = "dropLxd" => \/ op = "migrate" /\ (n = 9 \/ n = 3)
                      \/ op = "rebuild" /\ n = 3
                      \/ op = "remove" /\ n = 1
  /\ s = "delete"  => op = "remove" /\ n = 2
  /\ s = "check"   => op \in {"rebuild", "migrate"} /\ n = 7
  /\ s = "lookup" \/ s = "probe" => \/ op \in {"rebuild", "migrate"} /\ n = 6
                                    \/ op = "forward" /\ n = 3
  /\ s = "dial"    => \/ op \in {"rebuild", "migrate"} /\ n = 5
                      \/ op = "forward" /\ n = 2
  /\ s = "store"   => \/ op \in {"rebuild", "migrate"} /\ n = 4
                      \/ op = "forward" /\ n = 1
  /\ s = "refresh" => op \in {"rebuild", "migrate"} /\ n = 2
  /\ s = "connect" \/ s = "connecting" =>
        op \in {"rebuild", "migrate", "call"} /\ n = 1
LEMMA ScriptPlaces ==
  ASSUME NEW op \in Requests, NEW i \in 1 .. Len(Script(op))
  PROVE  Place(op, Len(Script(op)) - i + 1, Script(op)[i])
<1>1. CASE op = "forward"
  <2>1. Len(Script(op)) = 3 /\ Script(op) = getSSHClient
    BY <1>1, Scripts, ShortScripts
  <2>2. CASE i = 1
    BY <1>1, <2>1, <2>2, ShortScripts DEF Place
  <2>3. CASE i = 2
    BY <1>1, <2>1, <2>3, ShortScripts DEF Place
  <2>4. CASE i = 3
    BY <1>1, <2>1, <2>4, ShortScripts DEF Place
  <2>5. QED  BY <2>1, <2>2, <2>3, <2>4
<1>2. CASE op = "call"
  <2>1. Len(Script(op)) = 1 /\ Script(op) = getNodeClient
    BY <1>2, Scripts, ShortScripts
  <2>2. i = 1
    BY <2>1
  <2>3. QED  BY <1>2, <2>1, <2>2, ShortScripts DEF Place
<1>3. CASE op = "remove"
  <2>1. Len(Script(op)) = 2 /\ Script(op) = removeNode
    BY <1>3, Scripts, ShortScripts
  <2>2. CASE i = 1
    BY <1>3, <2>1, <2>2, ShortScripts DEF Place
  <2>3. CASE i = 2
    BY <1>3, <2>1, <2>3, ShortScripts DEF Place
  <2>4. QED  BY <2>1, <2>2, <2>3
<1>4. ASSUME NEW j \in 1 .. 7, op \in {"rebuild", "migrate"}
      PROVE  Place(op, 7 - j + 1, rebuildNode[j])
  <2>1. j = 1 \/ j = 2 \/ j = 3 \/ j = 4 \/ j = 5 \/ j = 6 \/ j = 7
    OBVIOUS
  <2>2. QED  BY <1>4, RebuildScript DEF Place
<1>5. CASE op = "rebuild"
  <2>1. Len(Script(op)) = 7 /\ Script(op) = rebuildNode
    BY <1>5, Scripts, RebuildScript
  <2>2. QED  BY <1>4, <1>5, <2>1
<1>6. CASE op = "migrate"
  <2>1. Len(Script(op)) = 11 /\ Script(op) = handleNodeMigrate
    BY <1>6, Scripts, MigrateScript
  <2>2. CASE i <= 4
    <3>1. CASE i = 1
      BY <1>6, <2>1, <3>1, MigrateScript DEF Place
    <3>2. CASE i = 2
      BY <1>6, <2>1, <3>2, MigrateScript DEF Place
    <3>3. CASE i = 3
      BY <1>6, <2>1, <3>3, MigrateScript DEF Place
    <3>4. CASE i = 4
      BY <1>6, <2>1, <3>4, MigrateScript DEF Place
    <3>5. QED  BY <2>2, <3>1, <3>2, <3>3, <3>4
  <2>3. CASE i > 4
    <3> DEFINE j == i - 4
    <3>1. j \in 1 .. 7 /\ i = 4 + j /\ 11 - i + 1 = 7 - j + 1
      BY <2>3, <2>1
    <3> HIDE DEF j
    <3>2. handleNodeMigrate[i] = rebuildNode[j]
      BY <3>1, MigrateScript
    <3>3. QED  BY <1>4, <1>6, <2>1, <3>1, <3>2
  <2>4. QED  BY <2>2, <2>3
<1>7. QED  BY <1>1, <1>2, <1>3, <1>5, <1>6 DEF Requests

LEMMA Where ==
  ASSUME NEW op \in Requests, NEW q \in Seq(Steps), Len(q) > 0, Rest(op, q)
  PROVE  Place(op, Len(q), Head(q)) /\ Len(q) \in Nat \ {0}
<1> DEFINE i == Len(Script(op)) - Len(q) + 1
<1>1. Len(q) \in Nat /\ Len(q) > 0 /\ Head(q) = q[1] /\ Len(Script(op)) \in Nat
  OBVIOUS
<1>2. /\ i \in 1 .. Len(Script(op)) /\ Len(Script(op)) - i + 1 = Len(q)
      /\ \/ Head(q) = Script(op)[i]
         \/ Head(q) = "probe" /\ Script(op)[i] = "lookup"
         \/ Head(q) = "connecting" /\ Script(op)[i] = "connect"
  BY DEF Rest, Called
<1>3. Place(op, Len(q), Script(op)[i])
  BY <1>2, ScriptPlaces
<1> HIDE DEF i
<1>4. QED  BY <1>2, <1>3 DEF Place

LEMMA RestTail ==
  ASSUME NEW op \in Requests, NEW q \in Seq(Steps), Len(q) > 0, Rest(op, q)
  PROVE  Rest(op, Tail(q)) /\ Tail(q) \in Seq(Steps) /\ Len(Tail(q)) = Len(q) - 1
<1>1. /\ Len(q) \in Nat /\ Len(q) > 0 /\ Len(Tail(q)) = Len(q) - 1
      /\ Tail(q) \in Seq(Steps) /\ Len(Script(op)) \in Nat
      /\ \A i \in 1 .. Len(q) - 1 : Tail(q)[i] = q[i + 1]
  OBVIOUS
<1>2. \A i \in 1 .. Len(q) - 1 : Called(op, Tail(q), i) = Called(op, q, i + 1)
  BY <1>1 DEF Called
<1>3. \A i \in 1 .. Len(q) - 1 : q[i + 1] = Called(op, q, i + 1)
  BY DEF Rest
<1>4. QED  BY <1>2 DEF Rest

\* A request that goes on under a mutex.
LEMMA RestHeld ==
  ASSUME NEW op \in Requests, NEW q \in Seq(Steps), Len(q) > 0, Rest(op, q),
         NEW s, \/ Head(q) = "lookup" /\ s = "probe"
                \/ Head(q) = "connect" /\ s = "connecting"
  PROVE  /\ Rest(op, <<s>> \o Tail(q)) /\ <<s>> \o Tail(q) \in Seq(Steps)
         /\ Len(<<s>> \o Tail(q)) = Len(q) /\ Head(<<s>> \o Tail(q)) = s
<1> DEFINE r == <<s>> \o Tail(q)
<1>1. /\ Len(q) \in Nat /\ Len(q) > 0 /\ Len(Tail(q)) = Len(q) - 1
      /\ Tail(q) \in Seq(Steps) /\ Head(q) = q[1]
      /\ \A i \in 1 .. Len(q) - 1 : Tail(q)[i] = q[i + 1]
      /\ s \in Steps /\ <<s>> \in Seq(Steps)
  BY DEF Steps
<1>2. /\ r \in Seq(Steps) /\ Len(r) = Len(q) /\ r[1] = s /\ Head(r) = s
      /\ \A i \in 2 .. Len(q) : r[i] = q[i]
  BY <1>1
<1> HIDE DEF r
<1>3. \A i \in 1 .. Len(q) : Called(op, r, i) = Called(op, q, i)
  BY <1>2 DEF Called
<1>4. Called(op, q, 1) = Head(q)
  BY DEF Rest
<1>5. Rest(op, r)
  BY <1>2, <1>3 DEF Rest
<1>6. QED  BY <1>2, <1>5 DEF r

LEMMA PartOf ==
  ASSUME NEW S, NEW q \in Seq(S), NEW m \in Nat \ {0}, NEW n \in Nat, n <= Len(q)
  PROVE  /\ SubSeq(q, m, n) \in Seq(S)
         /\ Len(SubSeq(q, m, n)) = IF m <= n THEN n - m + 1 ELSE 0
         /\ \A i \in 1 .. n - m + 1 : SubSeq(q, m, n)[i] = q[m + i - 1]
<1>1. ASSUME NEW i \in m .. n
      PROVE  q[i] \in S
  <2>1. i \in 1 .. Len(q)
    OBVIOUS
  <2>2. QED  OBVIOUS
<1>2. m \in Int /\ n \in Int
  OBVIOUS
<1>3. QED  OBVIOUS

\* A request that finds its connection alive makes neither of the next calls.
LEMMA RestProbed ==
  ASSUME NEW op \in Requests, NEW q \in Seq(Steps), Len(q) > 0, Rest(op, q),
         Head(q) = "probe"
  PROVE  /\ Rest(op, SubSeq(q, 4, Len(q))) /\ SubSeq(q, 4, Len(q)) \in Seq(Steps)
         /\ Len(SubSeq(q, 4, Len(q))) = Len(q) - 3 /\ Len(q) \in {3, 6}
<1> DEFINE r == SubSeq(q, 4, Len(q))
<1>1. Len(q) \in {3, 6} /\ Len(Script(op)) \in Nat
  BY Where DEF Place
<1>2. /\ r \in Seq(Steps) /\ Len(r) = Len(q) - 3
      /\ \A i \in 1 .. Len(q) - 3 : r[i] = q[i + 3]
  <2>1. Len(q) \in Nat /\ Len(q) <= Len(q) /\ 4 \in Nat \ {0}
    OBVIOUS
  <2>2. PICK n \in Nat : n = Len(q) /\ n <= Len(q)
    OBVIOUS
  <2>3. /\ SubSeq(q, 4, n) \in Seq(Steps)
        /\ Len(SubSeq(q, 4, n)) = IF 4 <= n THEN n - 4 + 1 ELSE 0
        /\ \A i \in 1 .. n - 4 + 1 : SubSeq(q, 4, n)[i] = q[4 + i - 1]
    BY <2>2
  <2>4. r = SubSeq(q, 4, n)
    BY <2>2
  <2> HIDE DEF r
  <2>5. QED  BY <1>1, <2>2, <2>4
<1> HIDE DEF r
<1>3. \A i \in 1 .. Len(q) - 3 : Called(op, r, i) = Called(op, q, i + 3)
  BY <1>2 DEF Called
<1>4. \A i \in 1 .. Len(q) - 3 : q[i + 3] = Called(op, q, i + 3)
  BY DEF Rest
<1>5. Rest(op, r)
  BY <1>2, <1>3 DEF Rest
<1>6. QED  BY <1>1, <1>2, <1>5 DEF r

(***************************************************************************)
(* One request goes on                                                     *)
(***************************************************************************)
\* Worker w has the calls q left, for job j; the others stay as they are.
Turns(w, q, j) ==
  /\ todo' = [todo EXCEPT ![w] = q] /\ job' = [job EXCEPT ![w] = j]
  /\ UNCHANGED scenario
\* It is the request that it was, or none.
Jobs == [op : Requests, node : Nodes, host : Hosts]
SameRequest(w, q, j) ==
  /\ Len(q) > 0 => j.op = job[w].op /\ j.node = job[w].node
  /\ j \in Jobs /\ q \in Seq(Steps) /\ Rest(j.op, q)

LEMMA IdleType ==
  Free \in Connection /\ Free.state = "closed" /\ Idle \in Jobs
BY SomeAssumption DEF Idle, Free, Connection, Requests, Jobs

LEMMA Empty ==
  ASSUME NEW q \in Seq(Steps)
  PROVE  Len(q) \in Nat /\ (q = <<>> <=> Len(q) = 0)
OBVIOUS

LEMMA RestNone ==
  ASSUME NEW op \in Requests
  PROVE  Rest(op, <<>>) /\ <<>> \in Seq(Steps) /\ Len(<<>>) = 0
<1>1. <<>> \in Seq(Steps) /\ Len(<<>>) = 0
  OBVIOUS
<1>2. QED  BY DEF Rest

\* Worker w is where its call says.
LEMMA Running ==
  ASSUME PoolIInv, NEW w \in Workers
  PROVE  /\ todo[w] \in Seq(Steps) /\ Rest(job[w].op, todo[w]) /\ job[w] \in Jobs
         /\ Len(todo[w]) \in Nat /\ job[w].op \in Requests /\ N(w) \in Nodes
         /\ job[w].host \in Hosts
         /\ \A s : At(w, s) <=> Len(todo[w]) > 0 /\ Head(todo[w]) = s
<1>1. todo[w] \in Seq(Steps) /\ Rest(job[w].op, todo[w]) /\ job[w] \in Jobs
  BY DEF PoolIInv, TypeOK, InScript, Jobs
<1>2. QED  BY <1>1 DEF N, At, Jobs

LEMMA AtPlace ==
  ASSUME PoolIInv, NEW w \in Workers, NEW s, At(w, s)
  PROVE  /\ Place(job[w].op, Len(todo[w]), s) /\ Len(todo[w]) \in Nat \ {0}
         /\ Head(todo[w]) = s /\ s \in Steps
BY Running, Where

LEMMA NoRequest ==
  ASSUME NEW w
  PROVE  SameRequest(w, <<>>, Idle) /\ Len(<<>>) = 0
<1>1. Rest(Idle.op, <<>>) /\ <<>> \in Seq(Steps) /\ Len(<<>>) = 0
  BY IdleType, RestNone DEF Jobs
<1>2. QED  BY <1>1, IdleType DEF SameRequest

\* Continue, and Fail.
LEMMA Continues ==
  ASSUME PoolIInv, NEW w \in Workers, Len(todo[w]) > 0, Continue(w)
  PROVE  \E q, j : /\ Turns(w, q, j) /\ SameRequest(w, q, j)
                   /\ q = Tail(todo[w]) /\ Len(q) = Len(todo[w]) - 1
                   /\ Len(q) > 0 => j = job[w]
<1>1. /\ Tail(todo[w]) \in Seq(Steps) /\ Rest(job[w].op, Tail(todo[w]))
      /\ Len(Tail(todo[w])) = Len(todo[w]) - 1
  BY Running, RestTail
<1>2. PICK q \in Seq(Steps) : q = Tail(todo[w])
  BY <1>1
<1>3. job \in [Workers -> Jobs]
  BY DEF PoolIInv, TypeOK, Jobs
<1>4. CASE Len(q) = 0
  <2>1. q = <<>>
    BY <1>4
  <2>2. Turns(w, <<>>, Idle)
    BY <1>2, <1>3, <2>1 DEF Continue, Then, Turns
  <2>3. <<>> = Tail(todo[w]) /\ Len(<<>>) = Len(todo[w]) - 1
    BY <1>1, <1>2, <2>1
  <2>4. Len(<<>>) > 0 => Idle = job[w]
    OBVIOUS
  <2>5. SameRequest(w, <<>>, Idle)
    BY NoRequest
  <2>6. QED  BY <2>2, <2>3, <2>4, <2>5, Zenon
<1>5. CASE Len(q) # 0
  <2>1. q # <<>> /\ job = [job EXCEPT ![w] = job[w]]
    BY <1>3, <1>5
  <2>2. Turns(w, q, job[w])
    BY <1>2, <2>1 DEF Continue, Then, Turns
  <2>3. SameRequest(w, q, job[w])
    BY <1>1, <1>2, Running DEF SameRequest
  <2>4. QED  BY <1>1, <1>2, <2>2, <2>3
<1>6. QED  BY <1>4, <1>5

LEMMA Fails ==
  ASSUME PoolIInv, NEW w \in Workers, Fail(w)
  PROVE  \E q, j : Turns(w, q, j) /\ SameRequest(w, q, j) /\ Len(q) = 0
<1>1. Turns(w, <<>>, Idle)
  BY DEF Fail, Then, Turns
<1>2. QED  BY <1>1, NoRequest

\* What follows for the requests.
LEMMA TurnsKeep ==
  ASSUME PoolIInv, NEW w \in Workers, Len(todo[w]) > 0, NEW q, NEW j,
         Turns(w, q, j), SameRequest(w, q, j)
  PROVE  /\ scenario' \in Scenarios /\ scenario' = scenario
         /\ todo' \in [Workers -> Seq(Steps)] /\ job' \in [Workers -> Jobs]
         /\ InScript' /\ OneMigration' /\ (Alone => Alone')
         /\ todo'[w] = q /\ job'[w] = j
         /\ \A s : At(w, s)' <=> Len(q) > 0 /\ Head(q) = s
         /\ \A v \in Workers : v # w => todo'[v] = todo[v] /\ job'[v] = job[v]
<1>1. /\ InScript /\ OneMigration /\ todo \in [Workers -> Seq(Steps)]
      /\ scenario \in Scenarios /\ job \in [Workers -> Jobs]
  BY DEF PoolIInv, TypeOK, Jobs
<1>2. /\ todo'[w] = q /\ job'[w] = j /\ scenario' = scenario
      /\ \A v \in Workers : v # w => todo'[v] = todo[v] /\ job'[v] = job[v]
      /\ todo' \in [Workers -> Seq(Steps)] /\ job' \in [Workers -> Jobs]
  BY <1>1 DEF Turns, SameRequest
<1>3. InScript'
  BY <1>1, <1>2 DEF InScript, SameRequest
<1>4. \A v \in Workers : Len(todo'[v]) > 0 =>
         Len(todo[v]) > 0 /\ job'[v].op = job[v].op /\ job'[v].node = job[v].node
  BY <1>2 DEF SameRequest
<1>5. OneMigration'
  BY <1>1, <1>4 DEF OneMigration, N
<1>6. Alone => Alone'
  BY <1>4 DEF Alone
<1>7. \A s : At(w, s)' <=> Len(q) > 0 /\ Head(q) = s
  BY <1>2 DEF At
<1>8. QED  BY <1>1, <1>2, <1>3, <1>5, <1>6, <1>7

\* What a migration or a removal owes does not change, nor does the record.
Steady == UrlsNameHosts /\ MovesToHost /\ ClientsCurrent /\ ConnectingCurrent
LEMMA OthersOwe ==
  ASSUME PoolIInv, UNCHANGED <<nodes, pool>>, NEW w \in Workers,
         \A v \in Workers : v # w => todo'[v] = todo[v] /\ job'[v] = job[v],
         \A n \in Nodes : WillDropLxd(w, n) => WillDropLxd(w, n)',
         \A n \in Nodes : ~Moves(w, n) /\ ~Moves(w, n)',
         At(w, "connecting")' => Current(N(w), job[w].host)'
  PROVE  Steady'
<1>1. UrlsNameHosts /\ MovesToHost /\ ClientsCurrent /\ ConnectingCurrent
  BY DEF PoolIInv
<1>2. \A v \in Workers : v # w =>
         \A n \in Nodes : /\ WillDropLxd(v, n)' <=> WillDropLxd(v, n)
                          /\ Moves(v, n)' <=> Moves(v, n)
  BY DEF WillDropLxd, Moves, N
<1>3. \A n \in Nodes : \A u : Current(n, u) => Current(n, u)'
  BY <1>2 DEF Current, Exists
<1>4. UrlsNameHosts'
  BY <1>1, <1>2 DEF UrlsNameHosts, Exists
<1>5. MovesToHost'
  BY <1>1, <1>2 DEF MovesToHost, Exists
<1>6. ClientsCurrent'
  BY <1>1, <1>3 DEF ClientsCurrent
<1>7. ConnectingCurrent'
  <2> SUFFICES ASSUME NEW v \in Workers, At(v, "connecting")'
               PROVE  Current(N(v), job[v].host)'
    BY DEF ConnectingCurrent
  <2>1. CASE v = w
    BY <2>1
  <2>2. CASE v # w
    <3>1. todo'[v] = todo[v] /\ job'[v] = job[v]
      BY <2>2
    <3>2. At(v, "connecting") /\ N(v)' = N(v) /\ N(v) \in Nodes
      BY <3>1, Running DEF At, N
    <3>3. QED  BY <1>1, <1>3, <3>2 DEF ConnectingCurrent
  <2>3. QED  BY <2>2
<1>8. QED  BY <1>4, <1>5, <1>6, <1>7 DEF Steady

LEMMA NotTen ==
  ASSUME NEW k \in Nat, k <= 8, NEW m \in Nat, m <= k
  PROVE  k # 10 /\ ~(k >= 9) /\ m # 10
OBVIOUS

\* A request that owes nothing and goes on without one of its calls.
LEMMA OwesNothing ==
  ASSUME PoolIInv, UNCHANGED <<nodes, pool>>, NEW w \in Workers, NEW s, At(w, s),
         NEW q, NEW j, Turns(w, q, j), SameRequest(w, q, j),
         Len(q) <= Len(todo[w]),
         Len(q) > 0 /\ Head(q) = "connecting"
           => Exists(N(w)) /\ j.host = nodes[N(w)].url,
         s \notin {"setHost", "setUrl", "dropLxd", "delete"}
  PROVE  Steady'
<1> DEFINE k == Len(todo[w])
           op == job[w].op
<1>1. Place(op, k, s) /\ k \in Nat \ {0} /\ s \in Steps
  BY AtPlace
<1>2. Len(q) <= k /\ Len(q) \in Nat /\ Len(todo[w]) > 0
  BY <1>1
<1>3. /\ todo'[w] = q /\ job'[w] = j
      /\ At(w, "connecting")' <=> Len(q) > 0 /\ Head(q) = "connecting"
      /\ \A v \in Workers : v # w => todo'[v] = todo[v] /\ job'[v] = job[v]
  BY <1>2, TurnsKeep
<1>4. \A n \in Nodes : ~WillDropLxd(w, n) /\ ~Moves(w, n) /\ ~Moves(w, n)'
  <2> HIDE DEF k, op
  <2>1. (op = "migrate" => k <= 8) /\ op # "remove"
    BY <1>1 DEF Place, Steps
  <2>2. ASSUME op = "migrate"
        PROVE  k # 10 /\ ~(k >= 9) /\ Len(q) # 10
    <3>1. k <= 8 /\ k \in Nat
      BY <1>1, <2>1, <2>2
    <3>2. PICK m \in Nat : m = Len(q) /\ m <= k
      BY <1>2
    <3>3. k # 10 /\ ~(k >= 9) /\ m # 10
      BY <3>1, <3>2, NotTen, Zenon
    <3>4. QED  BY <3>2, <3>3
  <2>3. Len(q) = 10 => j.op = op
    BY DEF SameRequest, op
  <2>4. \A n \in Nodes : ~WillDropLxd(w, n) /\ ~Moves(w, n)
    BY <2>1, <2>2 DEF WillDropLxd, Moves, k, op
  <2>5. QED  BY <1>3, <2>2, <2>3, <2>4 DEF Moves
<1>5. ASSUME At(w, "connecting")'
      PROVE  Current(N(w), job[w].host)'
  <2>1. Len(q) > 0 /\ Exists(N(w)) /\ j.host = nodes[N(w)].url
    BY <1>3, <1>5
  <2>2. N(w)' = N(w) /\ job'[w].host = j.host
    BY <1>3, <2>1 DEF N, SameRequest
  <2>3. QED  BY <2>1, <2>2 DEF Current, Exists
<1>6. QED  BY <1>3, <1>4, <1>5, OthersOwe

LEMMA EndsWithConnect ==
  ASSUME NEW op \in {"rebuild", "migrate"}
  PROVE  Len(Script(op)) \in Nat /\ Script(op)[Len(Script(op))] = "connect"
<1>1. CASE op = "rebuild"
  <2>1. Script(op) = rebuildNode /\ Len(rebuildNode) = 7
    BY <1>1, Scripts, RebuildScript
  <2>2. QED  BY <2>1, RebuildScript
<1>2. CASE op = "migrate"
  <2>1. Script(op) = handleNodeMigrate /\ Len(handleNodeMigrate) = 11
    BY <1>2, Scripts, MigrateScript
  <2>2. handleNodeMigrate[4 + 7] = rebuildNode[7]
    BY MigrateScript
  <2>3. QED  BY <2>1, <2>2, RebuildScript
<1>3. QED  BY <1>1, <1>2

\* After the refresh a rebuild makes its last call.
LEMMA LastCall ==
  ASSUME PoolIInv, NEW w \in Workers, job[w].op \in {"rebuild", "migrate"},
         Len(todo[w]) = 2
  PROVE  Head(Tail(todo[w])) = "connect"
<1>1. todo[w] \in Seq(Steps) /\ Rest(job[w].op, todo[w]) /\ job[w].op \in Requests
  BY Running
<1>2. todo[w][2] = Script(job[w].op)[Len(Script(job[w].op)) - 2 + 2]
  BY <1>1 DEF Rest, Called
<1>3. /\ Len(Script(job[w].op)) \in Nat
      /\ Script(job[w].op)[Len(Script(job[w].op))] = "connect"
  BY EndsWithConnect
<1>4. todo[w][2] = "connect"
  BY <1>2, <1>3
<1>5. Head(Tail(todo[w])) = todo[w][2]
  OBVIOUS
<1>6. QED  BY <1>4

(***************************************************************************)
(* The steps                                                               *)
(***************************************************************************)
\* The next call is where the number of calls left says.
LEMMA NextPlace ==
  ASSUME PoolIInv, NEW w \in Workers, NEW q, NEW j, SameRequest(w, q, j), Len(q) > 0
  PROVE  Place(job[w].op, Len(q), Head(q)) /\ j.op = job[w].op /\ j.node = N(w)
<1>1. j.op = job[w].op /\ j.node = job[w].node /\ q \in Seq(Steps) /\ Rest(j.op, q)
  BY DEF SameRequest
<1>2. QED  BY <1>1, Running, Where DEF N

\* What is to be shown of a request's step.
LEMMA TurnDone ==
  ASSUME PoolIInv, NEW w \in Workers, NEW s, At(w, s), NEW q, NEW j,
         Turns(w, q, j), SameRequest(w, q, j),
         nodes' \in [Nodes -> [host : Hosts, url : Hosts] \cup {None}],
         pool' \in [Nodes -> Hosts \cup {None}],
         sshPool' \in [Nodes -> Conns \cup {None}],
         conn' \in [Conns -> Connection],
         Steady',
         scenario.serial /\ Len(q) > 0 /\ Head(q) \in {"dial", "store"}
           => sshPool'[N(w)] = None,
         scenario.serial /\ Len(q) > 0 /\ Head(q) = "store"
           => nodes'[N(w)] # None /\ j.host = nodes'[N(w)].host,
         scenario.serial => OpenPooled'
  PROVE  PoolIInv'
<1>1. Len(todo[w]) > 0
  BY Running
<1>2. /\ scenario' \in Scenarios /\ scenario' = scenario
      /\ todo' \in [Workers -> Seq(Steps)] /\ job' \in [Workers -> Jobs]
      /\ InScript' /\ OneMigration' /\ (Alone => Alone')
      /\ todo'[w] = q /\ job'[w] = j
      /\ \A x : At(w, x)' <=> Len(q) > 0 /\ Head(q) = x
      /\ \A v \in Workers : v # w => todo'[v] = todo[v] /\ job'[v] = job[v]
  BY <1>1, TurnsKeep
<1>3. TypeOK'
  BY <1>2 DEF TypeOK, Jobs
<1>4. ASSUME scenario.serial
      PROVE  Serially'
  <2>1. Alone /\ Alone'
    BY <1>2, <1>4 DEF PoolIInv, Serially
  <2>2. ASSUME NEW v \in Workers, NEW x, At(v, x)'
        PROVE  v = w /\ Len(q) > 0 /\ Head(q) = x
    <3>1. CASE v = w
      BY <1>2, <2>2, <3>1
    <3>2. CASE v # w
      <4>1. At(v, x)
        BY <1>2, <2>2, <3>2 DEF At
      <4>2. QED  BY <2>1, <3>2, <4>1, Running DEF Alone
    <3>3. QED  BY <3>1, <3>2
  <2>3. Len(q) > 0 => N(w)' = N(w)
    BY <1>2 DEF N, SameRequest
  <2>4. NonePooled'
    <3> SUFFICES ASSUME NEW v \in Workers, (At(v, "dial") \/ At(v, "store"))'
                 PROVE  sshPool'[N(v)'] = None
      BY DEF NonePooled
    <3>1. v = w /\ Len(q) > 0 /\ Head(q) \in {"dial", "store"}
      BY <2>2
    <3>2. QED  BY <1>4, <2>3, <3>1
  <2>5. DialsHost'
    <3> SUFFICES ASSUME NEW v \in Workers, At(v, "store")'
                 PROVE  (Exists(N(v)) /\ job[v].host = nodes[N(v)].host)'
      BY DEF DialsHost
    <3>1. v = w /\ Len(q) > 0 /\ Head(q) = "store"
      BY <2>2
    <3>2. nodes'[N(w)] # None /\ j.host = nodes'[N(w)].host
      BY <1>4, <3>1
    <3>3. QED  BY <1>2, <2>3, <3>1, <3>2 DEF Exists
  <2>6. QED  BY <1>4, <2>1, <2>4, <2>5 DEF Serially
<1>5. QED  BY <1>2, <1>3, <1>4 DEF PoolIInv, Steady

\* The open connections stay where they are, unless a promise is not kept.
LEMMA OpenStays ==
  ASSUME PoolIInv, scenario.serial, UNCHANGED <<nodes, sshPool, conn>>,
         NEW w \in Workers,
         \A v \in Workers : v # w => todo'[v] = todo[v] /\ job'[v] = job[v],
         \A n \in Nodes : WillDropSsh(w, n) => WillDropSsh(w, n)'
  PROVE  OpenPooled'
<1>1. OpenPooled /\ \A c \in Conns : conn[c].node \in Nodes
  BY DEF PoolIInv, Serially, TypeOK, Connection
<1>2. \A v \in Workers, n \in Nodes : WillDropSsh(v, n) => WillDropSsh(v, n)'
  BY DEF WillDropSsh, N
<1>3. QED  BY <1>1, <1>2 DEF OpenPooled, Exists

\* Calls after which nothing is owed.
Plain == {"lookup", "probe", "dial", "store", "connect", "connecting", "check"}
LEMMA PlainOwes ==
  ASSUME PoolIInv, NEW w \in Workers, NEW s \in Plain, At(w, s)
  PROVE  \A n \in Nodes : ~WillDropSsh(w, n) /\ ~WillDropLxd(w, n)
<1> DEFINE k == Len(todo[w])
           op == job[w].op
<1>1. Place(op, k, s) /\ k \in Nat
  BY AtPlace
<1> HIDE DEF k, op
<1>2. (op = "migrate" => k <= 7) /\ op # "remove"
  BY <1>1 DEF Place, Plain
<1>3. (op = "migrate" => ~(k >= 8) /\ ~(k >= 9)) /\ op # "remove"
  BY <1>1, <1>2
<1>4. QED  BY <1>3 DEF WillDropSsh, WillDropLxd, k, op

(***************************************************************************)
(* The same by the number of calls left                                    *)
(***************************************************************************)
\* Worker w, with k calls left, has m left now, the next of them t, for job j.
Goes(w, k, m, t, j) ==
  \E q : /\ Turns(w, q, j) /\ SameRequest(w, q, j)
         /\ Len(todo[w]) = k /\ Len(q) = m
         /\ m > 0 => Head(q) = t

LEMMA Continued ==
  ASSUME PoolIInv, NEW w \in Workers, NEW s, At(w, s), Continue(w)
  PROVE  \E m, t, j :
            /\ m \in Nat
            /\ Goes(w, m + 1, m, t, j) /\ Place(job[w].op, m + 1, s)
            /\ m > 0 => Place(job[w].op, m, t) /\ j = job[w]
            /\ m > 0 => t = Head(Tail(todo[w]))
<1>1. Len(todo[w]) > 0 /\ Len(todo[w]) \in Nat
      /\ Place(job[w].op, Len(todo[w]), s)
  BY AtPlace
<1>2. PICK q, j : /\ Turns(w, q, j) /\ SameRequest(w, q, j)
                  /\ Len(q) = Len(todo[w]) - 1
                  /\ Len(q) > 0 => j = job[w]
                  /\ q = Tail(todo[w])
  BY <1>1, Continues
<1>3. Len(q) > 0 => Place(job[w].op, Len(q), Head(q))
  BY <1>2, NextPlace
<1>4. PICK m \in Nat : m = Len(q) /\ Len(todo[w]) = m + 1
  <2>1. PICK k \in Nat : k = Len(todo[w]) /\ k > 0
    BY <1>1
  <2>2. Len(q) = k - 1
    BY <1>2, <2>1
  <2>3. PICK m \in Nat : m = k - 1 /\ k = m + 1
    BY <2>1
  <2>4. QED  BY <2>1, <2>2
<1>5. PICK t : t = Head(q)
  OBVIOUS
<1>6. Goes(w, m + 1, m, t, j)
  BY <1>2, <1>4, <1>5 DEF Goes
<1>7. m > 0 => Place(job[w].op, m, t) /\ j = job[w]
  BY <1>2, <1>3, <1>4, <1>5
<1>8. Place(job[w].op, m + 1, s)
  BY <1>1, <1>4
<1>9. t = Head(Tail(todo[w]))
  BY <1>2, <1>5
<1>10. QED  BY <1>6, <1>7, <1>8, <1>9

LEMMA Failed ==
  ASSUME PoolIInv, NEW w \in Workers, Fail(w)
  PROVE  \E k, t, j : k \in Nat /\ Goes(w, k, 0, t, j)
<1>1. PICK q, j : Turns(w, q, j) /\ SameRequest(w, q, j) /\ Len(q) = 0
  BY Fails
<1>2. PICK k \in Nat : k = Len(todo[w])
  BY Running
<1>3. Goes(w, k, 0, Head(q), j)
  BY <1>1, <1>2 DEF Goes
<1>4. QED  BY <1>3

\* Calls that wait under a mutex.
LEMMA Held ==
  ASSUME PoolIInv, NEW w \in Workers, At(w, "lookup"),
         Then(w, <<"probe">> \o Tail(todo[w]))
  PROVE  \E k \in Nat : Goes(w, k, k, "probe", job[w])
<1> DEFINE q == <<"probe">> \o Tail(todo[w])
<1>1. /\ Rest(job[w].op, q) /\ q \in Seq(Steps) /\ Len(q) = Len(todo[w])
      /\ Head(q) = "probe" /\ Len(todo[w]) \in Nat /\ Len(todo[w]) > 0
  BY Running, RestHeld
<1> HIDE DEF q
<1>2. Then(w, q)
  BY DEF q
<1>3. q # <<>> /\ job = [job EXCEPT ![w] = job[w]]
  BY <1>1 DEF PoolIInv, TypeOK
<1>4. Turns(w, q, job[w])
  BY <1>2, <1>3 DEF Then, Turns
<1>5. SameRequest(w, q, job[w])
  BY <1>1, Running DEF SameRequest
<1>6. PICK k \in Nat : k = Len(todo[w])
  BY <1>1
<1>7. Goes(w, k, k, "probe", job[w])
  BY <1>1, <1>4, <1>5, <1>6 DEF Goes
<1>8. QED  BY <1>7

LEMMA Advances ==
  ASSUME PoolIInv, NEW w \in Workers, At(w, "dial"), NEW j \in Jobs,
         j.op = job[w].op, j.node = job[w].node,
         todo' = [todo EXCEPT ![w] = Tail(todo[w])],
         job' = [job EXCEPT ![w] = j], UNCHANGED scenario
  PROVE  \E m, t :
            /\ m \in Nat
            /\ Goes(w, m + 1, m, t, j)
            /\ Place(job[w].op, m + 1, "dial")
            /\ m > 0 => Place(job[w].op, m, t)
<1>1. /\ Rest(job[w].op, Tail(todo[w])) /\ Tail(todo[w]) \in Seq(Steps)
      /\ Len(Tail(todo[w])) = Len(todo[w]) - 1
      /\ Len(todo[w]) \in Nat \ {0} /\ Place(job[w].op, Len(todo[w]), "dial")
  BY Running, RestTail, AtPlace
<1>2. PICK q \in Seq(Steps) : q = Tail(todo[w])
  BY <1>1
<1>3. Turns(w, q, j) /\ SameRequest(w, q, j)
  BY <1>1, <1>2 DEF Turns, SameRequest
<1>4. PICK m \in Nat : m = Len(q) /\ Len(todo[w]) = m + 1
  <2>1. Len(q) \in Nat /\ Len(q) = Len(todo[w]) - 1
    BY <1>2
  <2>2. PICK m \in Nat : m = Len(q)
    OBVIOUS
  <2>3. Len(todo[w]) = m + 1
    BY <2>1, <2>2
  <2>4. QED  BY <2>2, <2>3
<1>5. Goes(w, m + 1, m, Head(q), j)
  BY <1>3, <1>4 DEF Goes
<1>6. m > 0 => Place(job[w].op, m, Head(q))
  BY <1>3, <1>4, NextPlace
<1>7. Place(job[w].op, m + 1, "dial")
  BY <1>1, <1>4
<1>8. QED  BY <1>5, <1>6, <1>7

LEMMA Connects ==
  ASSUME PoolIInv, NEW w \in Workers, At(w, "connect"), NEW j \in Jobs,
         j.op = job[w].op, j.node = job[w].node,
         todo' = [todo EXCEPT ![w] = <<"connecting">> \o Tail(todo[w])],
         job' = [job EXCEPT ![w] = j], UNCHANGED scenario
  PROVE  \E k \in Nat : Goes(w, k, k, "connecting", j)
<1> DEFINE q == <<"connecting">> \o Tail(todo[w])
<1>1. /\ Rest(job[w].op, q) /\ q \in Seq(Steps) /\ Len(q) = Len(todo[w])
      /\ Head(q) = "connecting" /\ Len(todo[w]) \in Nat
  BY Running, RestHeld
<1>2. Turns(w, q, j)
  BY DEF Turns
<1> HIDE DEF q
<1>3. SameRequest(w, q, j)
  BY <1>1 DEF SameRequest
<1>4. PICK k \in Nat : k = Len(todo[w])
  BY <1>1
<1>5. Goes(w, k, k, "connecting", j)
  BY <1>1, <1>2, <1>3, <1>4 DEF Goes
<1>6. QED  BY <1>5

\* Calls that are not needed.
LEMMA Probed ==
  ASSUME PoolIInv, NEW w \in Workers, At(w, "probe"),
         Then(w, SubSeq(todo[w], 4, Len(todo[w])))
  PROVE  \E m, t, j :
            /\ m \in {0, 3}
            /\ Goes(w, m + 3, m, t, j) /\ Place(job[w].op, m + 3, "probe")
            /\ m > 0 => Place(job[w].op, m, t)
<1> DEFINE q == SubSeq(todo[w], 4, Len(todo[w]))
<1>1. /\ Rest(job[w].op, q) /\ q \in Seq(Steps) /\ Len(q) = Len(todo[w]) - 3
      /\ Len(todo[w]) \in {3, 6} /\ Place(job[w].op, Len(todo[w]), "probe")
  BY Running, RestProbed, AtPlace
<1>2. job \in [Workers -> Jobs]
  BY DEF PoolIInv, TypeOK, Jobs
<1> HIDE DEF q
<1>3. Then(w, q)
  BY DEF q
<1>4. PICK m \in {0, 3} : m = Len(q) /\ Len(todo[w]) = m + 3
  BY <1>1
<1>5. Place(job[w].op, m + 3, "probe")
  BY <1>1, <1>4
<1>6. CASE m = 0
  <2>1. q = <<>>
    BY <1>1, <1>4, <1>6, Empty
  <2>2. Turns(w, q, Idle)
    BY <1>3, <2>1 DEF Then, Turns
  <2>3. SameRequest(w, q, Idle)
    BY <2>1, NoRequest
  <2>4. ~(m > 0)
    BY <1>6
  <2>5. Goes(w, m + 3, m, "store", Idle)
    BY <1>4, <2>2, <2>3, <2>4 DEF Goes
  <2>6. QED  BY <1>5, <2>4, <2>5
<1>7. CASE m = 3
  <2>0. Len(q) = 3
    BY <1>4, <1>7
  <2>1. q # <<>> /\ job = [job EXCEPT ![w] = job[w]] /\ Len(q) > 0
    <3>1. Len(q) > 0 /\ Len(q) # 0
      BY <2>0
    <3>2. q # <<>>
      BY <1>1, <3>1, Empty, Zenon
    <3>3. QED  BY <1>2, <3>2
  <2>2. Turns(w, q, job[w])
    BY <1>3, <2>1 DEF Then, Turns
  <2>3. SameRequest(w, q, job[w])
    BY <1>1, Running DEF SameRequest
  <2>4. Place(job[w].op, Len(q), Head(q))
    BY <2>1, <2>3, NextPlace
  <2>5. Goes(w, m + 3, m, Head(q), job[w])
    BY <1>4, <2>2, <2>3 DEF Goes
  <2>6. Place(job[w].op, m, Head(q))
    BY <1>4, <2>4
  <2>7. PICK t, j : t = Head(q) /\ j = job[w]
    OBVIOUS
  <2>8. Goes(w, m + 3, m, t, j) /\ Place(job[w].op, m, t)
    BY <2>5, <2>6, <2>7
  <2>9. QED  BY <1>5, <2>8
<1>8. QED  BY <1>6, <1>7

\* What changes, and what does not.
LEMMA Goings ==
  ASSUME PoolIInv, NEW w \in Workers, NEW s, At(w, s),
         NEW k \in Nat, NEW m \in Nat, NEW t, NEW j, Goes(w, k, m, t, j)
  PROVE  /\ scenario' = scenario /\ k > 0 /\ Place(job[w].op, k, s)
         /\ \A v \in Workers : v # w => todo'[v] = todo[v] /\ job'[v] = job[v]
         /\ \A x : At(w, x)' <=> m > 0 /\ t = x
         /\ m > 0 => /\ N(w)' = N(w) /\ job'[w] = j
                     /\ j.op = job[w].op /\ j.node = job[w].node
         /\ Len(todo[w]) = k /\ Len(todo'[w]) = m
<1>1. PICK q : /\ Turns(w, q, j) /\ SameRequest(w, q, j)
               /\ Len(todo[w]) = k /\ Len(q) = m
               /\ m > 0 => Head(q) = t
  BY DEF Goes
<1>2. Len(todo[w]) > 0 /\ k > 0 /\ Place(job[w].op, k, s)
  BY <1>1, AtPlace
<1>3. /\ scenario' = scenario
      /\ \A v \in Workers : v # w => todo'[v] = todo[v] /\ job'[v] = job[v]
      /\ todo'[w] = q /\ job'[w] = j
      /\ \A x : At(w, x)' <=> Len(q) > 0 /\ Head(q) = x
  BY <1>1, <1>2, TurnsKeep
<1>4. m > 0 => j.op = job[w].op /\ j.node = job[w].node
  BY <1>1 DEF SameRequest
<1>5. m > 0 => N(w)' = N(w)
  BY <1>3, <1>4 DEF N
<1>6. \A x : At(w, x)' <=> m > 0 /\ t = x
  BY <1>1, <1>3
<1>7. Len(todo'[w]) = m
  BY <1>1, <1>3
<1>8. QED  BY <1>1, <1>2, <1>3, <1>4, <1>5

\* What w owes, before and after.
LEMMA Owed ==
  ASSUME PoolIInv, NEW w \in Workers, NEW s, At(w, s),
         NEW k \in Nat, NEW m \in Nat, NEW t, NEW j, Goes(w, k, m, t, j),
         NEW n
  PROVE  /\ Moves(w, n) <=> N(w) = n /\ job[w].op = "migrate" /\ k = 10
         /\ Moves(w, n)' <=> N(w) = n /\ job[w].op = "migrate" /\ m = 10
         /\ WillDropLxd(w, n) <=>
              N(w) = n /\ \/ job[w].op = "migrate" /\ k >= 9
                          \/ job[w].op = "remove" /\ k = 1
         /\ WillDropLxd(w, n)' <=>
              N(w) = n /\ \/ job[w].op = "migrate" /\ m >= 9
                          \/ job[w].op = "remove" /\ m = 1
         /\ WillDropSsh(w, n) <=> N(w) = n /\ job[w].op = "migrate" /\ k >= 8
         /\ WillDropSsh(w, n)' <=> N(w) = n /\ job[w].op = "migrate" /\ m >= 8
<1>1. /\ Len(todo[w]) = k /\ Len(todo'[w]) = m
      /\ m > 0 => N(w)' = N(w) /\ job'[w].op = job[w].op
  BY Goings
<1>2. Moves(w, n) <=> N(w) = n /\ job[w].op = "migrate" /\ k = 10
  BY <1>1 DEF Moves
<1>3. Moves(w, n)' <=> N(w) = n /\ job[w].op = "migrate" /\ m = 10
  BY <1>1 DEF Moves
<1>4. WillDropLxd(w, n) <=> N(w) = n /\ \/ job[w].op = "migrate" /\ k >= 9
                                        \/ job[w].op = "remove" /\ k = 1
  BY <1>1 DEF WillDropLxd
<1>5. WillDropLxd(w, n)' <=> N(w) = n /\ \/ job[w].op = "migrate" /\ m >= 9
                                         \/ job[w].op = "remove" /\ m = 1
  BY <1>1 DEF WillDropLxd
<1>6. WillDropSsh(w, n) <=> N(w) = n /\ job[w].op = "migrate" /\ k >= 8
  BY <1>1 DEF WillDropSsh
<1>7. WillDropSsh(w, n)' <=> N(w) = n /\ job[w].op = "migrate" /\ m >= 8
  BY <1>1 DEF WillDropSsh
<1>8. QED  BY <1>2, <1>3, <1>4, <1>5, <1>6, <1>7

\* A promise of another worker stays.
LEMMA OthersPromise ==
  ASSUME NEW w \in Workers, NEW v \in Workers, todo'[v] = todo[v], job'[v] = job[v],
         NEW n
  PROVE  /\ Moves(v, n)' <=> Moves(v, n)
         /\ WillDropLxd(v, n)' <=> WillDropLxd(v, n)
         /\ WillDropSsh(v, n)' <=> WillDropSsh(v, n)
         /\ N(v)' = N(v) /\ \A x : At(v, x)' <=> At(v, x)
BY DEF Moves, WillDropLxd, WillDropSsh, N, At

LEMMA GoesDone ==
  ASSUME PoolIInv, NEW w \in Workers, NEW s, At(w, s),
         NEW k \in Nat, NEW m \in Nat, NEW t, NEW j, Goes(w, k, m, t, j),
         nodes' \in [Nodes -> [host : Hosts, url : Hosts] \cup {None}],
         pool' \in [Nodes -> Hosts \cup {None}],
         sshPool' \in [Nodes -> Conns \cup {None}],
         conn' \in [Conns -> Connection],
         Steady',
         scenario.serial /\ m > 0 /\ t \in {"dial", "store"}
           => sshPool'[N(w)] = None,
         scenario.serial /\ m > 0 /\ t = "store"
           => nodes'[N(w)] # None /\ j.host = nodes'[N(w)].host,
         scenario.serial => OpenPooled'
  PROVE  PoolIInv'
<1>1. PICK q : /\ Turns(w, q, j) /\ SameRequest(w, q, j)
               /\ Len(todo[w]) = k /\ Len(q) = m
               /\ m > 0 => Head(q) = t
  BY DEF Goes
<1>2. scenario.serial /\ Len(q) > 0 /\ Head(q) \in {"dial", "store"}
        => sshPool'[N(w)] = None
  BY <1>1
<1>3. scenario.serial /\ Len(q) > 0 /\ Head(q) = "store"
        => nodes'[N(w)] # None /\ j.host = nodes'[N(w)].host
  BY <1>1
<1>4. QED  BY <1>1, TurnDone

LEMMA GoesSteady ==
  ASSUME PoolIInv, UNCHANGED <<nodes, pool>>, NEW w \in Workers, NEW s, At(w, s),
         NEW k \in Nat, NEW m \in Nat, NEW t, NEW j, Goes(w, k, m, t, j),
         m <= k,
         m > 0 /\ t = "connecting" => Exists(N(w)) /\ j.host = nodes[N(w)].url,
         s \notin {"setHost", "setUrl", "dropLxd", "delete"}
  PROVE  Steady'
<1>1. PICK q : /\ Turns(w, q, j) /\ SameRequest(w, q, j)
               /\ Len(todo[w]) = k /\ Len(q) = m
               /\ m > 0 => Head(q) = t
  BY DEF Goes
<1>2. Len(q) > 0 /\ Head(q) = "connecting"
        => Exists(N(w)) /\ j.host = nodes[N(w)].url
  BY <1>1
<1>3. Len(q) <= Len(todo[w])
  BY <1>1
<1>4. QED  BY <1>1, OwesNothing

\* A call that changes no connection and after which nothing is owed.
LEMMA PlainGoes ==
  ASSUME PoolIInv, NEW w \in Workers, NEW s \in Plain, At(w, s),
         NEW k \in Nat, NEW m \in Nat, NEW t, NEW j, Goes(w, k, m, t, j),
         m <= k,
         m > 0 /\ t = "connecting" => Exists(N(w)) /\ j.host = nodes[N(w)].url,
         UNCHANGED <<nodes, pool, sshPool, conn>>,
         scenario.serial /\ m > 0 /\ t \in {"dial", "store"}
           => sshPool[N(w)] = None,
         scenario.serial /\ m > 0 /\ t = "store"
           => Exists(N(w)) /\ j.host = nodes[N(w)].host
  PROVE  PoolIInv'
<1>1. Steady'
  <2>1. s \notin {"setHost", "setUrl", "dropLxd", "delete"}
    BY DEF Plain
  <2>2. QED  BY <2>1, GoesSteady
<1>2. scenario.serial => OpenPooled'
  BY Goings, PlainOwes, OpenStays
<1>3. /\ nodes' \in [Nodes -> [host : Hosts, url : Hosts] \cup {None}]
      /\ pool' \in [Nodes -> Hosts \cup {None}]
      /\ sshPool' \in [Nodes -> Conns \cup {None}]
      /\ conn' \in [Conns -> Connection]
  BY DEF PoolIInv, TypeOK
<1>4. scenario.serial /\ m > 0 /\ t \in {"dial", "store"}
        => sshPool'[N(w)] = None
  OBVIOUS
<1>5. scenario.serial /\ m > 0 /\ t = "store"
        => nodes'[N(w)] # None /\ j.host = nodes'[N(w)].host
  BY DEF Exists
<1>6. QED  BY <1>1, <1>2, <1>3, <1>5, GoesDone

\* An open connection that stays in the pool.
LEMMA FewerOpen ==
  ASSUME PoolIInv, scenario.serial, UNCHANGED nodes, NEW w \in Workers,
         \A d \in Conns : conn'[d].state = "up" =>
            conn'[d] = conn[d] /\ sshPool'[conn[d].node] = sshPool[conn[d].node],
         \A v \in Workers : v # w => todo'[v] = todo[v] /\ job'[v] = job[v],
         \A d \in Conns : conn'[d].state = "up" => ~WillDropSsh(w, conn[d].node)
  PROVE  OpenPooled'
<1>1. OpenPooled /\ \A c \in Conns : conn[c].node \in Nodes
  BY DEF PoolIInv, Serially, TypeOK, Connection
<1>2. \A v \in Workers : \A n : v # w => (WillDropSsh(v, n) => WillDropSsh(v, n)')
  BY OthersPromise
<1> SUFFICES ASSUME NEW d \in Conns, conn'[d].state = "up",
                    NEW n, n = conn'[d].node
             PROVE  /\ sshPool'[n] = d
                    /\ \/ nodes'[n] = None \/ conn'[d].host = nodes'[n].host
                       \/ \E v \in Workers : WillDropSsh(v, n)'
  BY DEF OpenPooled, Exists
<1>3. conn'[d] = conn[d] /\ sshPool'[conn[d].node] = sshPool[conn[d].node]
  OBVIOUS
<1>4. /\ sshPool[conn[d].node] = d
      /\ \/ ~Exists(conn[d].node)
         \/ conn[d].host = nodes[conn[d].node].host
         \/ \E v \in Workers : WillDropSsh(v, conn[d].node)
  BY <1>1 DEF OpenPooled
<1>5. QED  BY <1>2, <1>4 DEF Exists

\* Another client that connects still has what it connects to.
LEMMA StillConnecting ==
  ASSUME PoolIInv, NEW w \in Workers, ~At(w, "connecting")',
         \A v \in Workers : v # w => todo'[v] = todo[v] /\ job'[v] = job[v],
         \A n \in Nodes : \A u : Current(n, u) => Current(n, u)'
  PROVE  ConnectingCurrent'
<1> SUFFICES ASSUME NEW v \in Workers, At(v, "connecting")'
             PROVE  Current(N(v), job[v].host)'
  BY DEF ConnectingCurrent
<1>1. v # w /\ todo'[v] = todo[v] /\ job'[v] = job[v]
  OBVIOUS
<1>2. At(v, "connecting") /\ N(v)' = N(v) /\ N(v) \in Nodes
  BY Running DEF At, N
<1>3. PICK n, u : n \in Nodes /\ n = N(v) /\ u = job[v].host /\ Current(n, u)
  BY <1>2 DEF PoolIInv, ConnectingCurrent
<1>4. Current(n, u)'
  BY <1>3
<1>5. QED  BY <1>2, <1>3

\* No host and no URL is written, and no migration goes on to its URL.
LEMMA StillMoves ==
  ASSUME PoolIInv, UNCHANGED nodes, NEW w \in Workers,
         \A v \in Workers : v # w => todo'[v] = todo[v] /\ job'[v] = job[v],
         \A n \in Nodes : ~Moves(w, n) /\ ~Moves(w, n)'
  PROVE  UrlsNameHosts' /\ MovesToHost'
<1>1. UrlsNameHosts /\ MovesToHost
  BY DEF PoolIInv
<1>2. \A v \in Workers, n \in Nodes : Moves(v, n)' <=> Moves(v, n)
  BY OthersPromise
<1>3. \A v \in Workers, n \in Nodes : Moves(v, n)' => job'[v] = job[v]
  OBVIOUS
<1>4. QED  BY <1>1, <1>2 DEF UrlsNameHosts, MovesToHost, Exists

\* The steps that end a request without anything done.
LEMMA FailKeeps ==
  ASSUME PoolIInv, NEW w \in Workers, NEW s \in Plain, At(w, s), Fail(w),
         UNCHANGED <<nodes, pool, sshPool, conn>>
  PROVE  PoolIInv'
<1>1. PICK k, t, j : k \in Nat /\ Goes(w, k, 0, t, j)
  BY Failed
<1>2. 0 \in Nat /\ 0 <= k /\ ~(0 > 0)
  BY <1>1
<1>3. QED  BY <1>1, PlainGoes

LEMMA LookupKeeps ==
  ASSUME PoolIInv, NEW w \in Workers, Lookup(w)
  PROVE  PoolIInv'
<1>1. /\ At(w, "lookup") /\ UNCHANGED <<nodes, pool, sshPool, conn>>
      /\ "lookup" \in Plain
  BY DEF Lookup, Plain
<1>2. CASE sshPool[N(w)] = None
  <2>1. Continue(w)
    BY <1>2 DEF Lookup, Continue
  <2>2. PICK m, t, j :
           /\ m \in Nat
           /\ Goes(w, m + 1, m, t, j) /\ Place(job[w].op, m + 1, "lookup")
           /\ m > 0 => Place(job[w].op, m, t) /\ j = job[w]
    BY <1>1, <2>1, Continued
  <2>3. m = 2 \/ m = 5
    BY <2>2 DEF Place
  <2>4. t \notin {"connecting", "store"}
    BY <2>2 DEF Place
  <2>5. m <= m + 1 /\ m + 1 \in Nat
    BY <2>2
  <2>6. QED  BY <1>1, <1>2, <2>2, <2>4, PlainGoes
<1>3. CASE sshPool[N(w)] # None
  <2>1. Then(w, <<"probe">> \o Tail(todo[w]))
    BY <1>3 DEF Lookup
  <2>2. PICK k \in Nat : Goes(w, k, k, "probe", job[w])
    BY <1>1, <2>1, Held
  <2>3. k <= k
    OBVIOUS
  <2>4. QED  BY <1>1, <2>2, PlainGoes
<1>4. QED  BY <1>2, <1>3

LEMMA ProbeAliveKeeps ==
  ASSUME PoolIInv, NEW w \in Workers, ProbeAlive(w)
  PROVE  PoolIInv'
<1>1. /\ At(w, "probe") /\ UNCHANGED <<nodes, pool, sshPool, conn>>
      /\ "probe" \in Plain
  BY DEF ProbeAlive, Plain
<1>2. PICK m, t, j :
         /\ m \in {0, 3}
         /\ Goes(w, m + 3, m, t, j) /\ Place(job[w].op, m + 3, "probe")
         /\ m > 0 => Place(job[w].op, m, t)
  BY Probed DEF ProbeAlive
<1>3. m > 0 => t \notin {"connecting", "dial", "store"}
  BY <1>2 DEF Place
<1>4. m <= m + 3 /\ m \in Nat /\ m + 3 \in Nat
  BY <1>2
<1>5. QED  BY <1>1, <1>2, <1>3, PlainGoes

LEMMA CheckKeeps ==
  ASSUME PoolIInv, NEW w \in Workers, Check(w)
  PROVE  PoolIInv'
<1>1. /\ At(w, "check") /\ UNCHANGED <<nodes, pool, sshPool, conn>>
      /\ "check" \in Plain
  BY DEF Check, Plain
<1>2. CASE Continue(w)
  <2>1. PICK m, t, j :
           /\ m \in Nat
           /\ Goes(w, m + 1, m, t, j) /\ Place(job[w].op, m + 1, "check")
           /\ m > 0 => Place(job[w].op, m, t) /\ j = job[w]
    BY <1>1, <1>2, Continued
  <2>2. m = 6
    BY <2>1 DEF Place
  <2>3. t \notin {"connecting", "dial", "store"}
    BY <2>1 DEF Place
  <2>4. m <= m + 1 /\ m + 1 \in Nat
    BY <2>1
  <2>5. QED  BY <1>1, <2>1, <2>3, PlainGoes
<1>3. CASE Fail(w)
  BY <1>1, <1>3, FailKeeps
<1>4. QED  BY <1>2, <1>3 DEF Check

LEMMA ProbeDeadKeeps ==
  ASSUME PoolIInv, NEW w \in Workers, ProbeDead(w)
  PROVE  PoolIInv'
<1>1. /\ At(w, "probe") /\ UNCHANGED <<nodes, pool>> /\ Continue(w)
      /\ conn' = [conn EXCEPT ![sshPool[N(w)]].state = "closed"]
      /\ sshPool' = [sshPool EXCEPT ![N(w)] = None]
      /\ "probe" \in Plain /\ N(w) \in Nodes
  BY Running DEF ProbeDead, Plain
<1>2. TypeOK
  BY DEF PoolIInv
<1>3. PICK m, t, j :
         /\ m \in Nat
         /\ Goes(w, m + 1, m, t, j) /\ Place(job[w].op, m + 1, "probe")
         /\ m > 0 => Place(job[w].op, m, t) /\ j = job[w]
  BY <1>1, Continued
<1>4. t \notin {"connecting", "store"}
  <2>1. m = 2 \/ m = 5
    BY <1>3 DEF Place
  <2>2. QED  BY <1>3 DEF Place
<1>5. m <= m + 1 /\ m + 1 \in Nat
  BY <1>3
<1>6. Steady'
  BY <1>1, <1>3, <1>4, GoesSteady
<1>7. /\ conn' \in [Conns -> Connection] /\ sshPool'[N(w)] = None
      /\ sshPool' \in [Nodes -> Conns \cup {None}]
      /\ \A n \in Nodes : n # N(w) => sshPool'[n] = sshPool[n]
      /\ \A d \in Conns : conn'[d].state = "up" =>
            d # sshPool[N(w)] /\ conn'[d] = conn[d]
  <2>1. /\ sshPool'[N(w)] = None /\ sshPool' \in [Nodes -> Conns \cup {None}]
        /\ \A n \in Nodes : n # N(w) => sshPool'[n] = sshPool[n]
    BY <1>1, <1>2 DEF TypeOK
  <2>2. PICK c : c = sshPool[N(w)]
    OBVIOUS
  <2>3. conn' = [conn EXCEPT ![c].state = "closed"] /\ conn \in [Conns -> Connection]
    BY <1>1, <1>2, <2>2 DEF TypeOK
  <2>4. conn' \in [Conns -> Connection]
    <3>1. CASE c \in Conns
      BY <2>3, <3>1 DEF Connection
    <3>2. CASE c \notin Conns
      BY <2>3, <3>2
    <3>3. QED  BY <3>1, <3>2
  <2>5. \A d \in Conns : d # c => conn'[d] = conn[d]
    BY <2>3
  <2>6. c \in Conns => conn'[c].state = "closed"
    BY <2>3
  <2>7. QED  BY <2>1, <2>2, <2>4, <2>5, <2>6
<1>8. ASSUME scenario.serial
      PROVE  OpenPooled'
  <2>1. \A d \in Conns : conn'[d].state = "up" =>
           conn'[d] = conn[d] /\ sshPool'[conn[d].node] = sshPool[conn[d].node]
    <3> SUFFICES ASSUME NEW d \in Conns, conn'[d].state = "up"
                 PROVE  conn'[d] = conn[d]
                        /\ sshPool'[conn[d].node] = sshPool[conn[d].node]
      OBVIOUS
    <3>1. conn'[d] = conn[d] /\ d # sshPool[N(w)] /\ conn[d].node \in Nodes
      BY <1>7 DEF Connection
    <3>2. sshPool[conn[d].node] = d
      BY <1>8, <3>1 DEF PoolIInv, Serially, OpenPooled
    <3>3. QED  BY <1>7, <3>1, <3>2
  <2>2. \A v \in Workers : v # w => todo'[v] = todo[v] /\ job'[v] = job[v]
    BY <1>1, <1>3, Goings
  <2>3. \A n \in Nodes : ~WillDropSsh(w, n)
    BY <1>1, PlainOwes
  <2>4. \A d \in Conns : ~WillDropSsh(w, conn[d].node)
    BY <1>2, <2>3 DEF TypeOK, Connection
  <2>5. QED  BY <1>1, <1>8, <2>1, <2>2, <2>4, FewerOpen
<1>9. /\ nodes' \in [Nodes -> [host : Hosts, url : Hosts] \cup {None}]
      /\ pool' \in [Nodes -> Hosts \cup {None}]
  BY <1>1, <1>2 DEF TypeOK
<1>10. QED  BY <1>1, <1>3, <1>4, <1>5, <1>6, <1>7, <1>8, <1>9, GoesDone

LEMMA DialKeeps ==
  ASSUME PoolIInv, NEW w \in Workers, Dial(w)
  PROVE  PoolIInv'
<1>1. /\ At(w, "dial") /\ UNCHANGED <<nodes, pool, sshPool, conn>>
      /\ "dial" \in Plain
  BY DEF Dial, Plain
<1>2. CASE ~Exists(N(w))
  BY <1>1, <1>2, FailKeeps DEF Dial
<1>3. CASE Exists(N(w))
  <2> DEFINE j == [job[w] EXCEPT !.host = nodes[N(w)].host]
  <2>1. /\ todo' = [todo EXCEPT ![w] = Tail(todo[w])]
        /\ job' = [job EXCEPT ![w] = j] /\ UNCHANGED scenario
    BY <1>3 DEF Dial
  <2>2. /\ j \in Jobs /\ j.op = job[w].op /\ j.node = job[w].node
        /\ j.host = nodes[N(w)].host
    BY <1>3, Running DEF PoolIInv, TypeOK, Jobs, Exists
  <2> HIDE DEF j
  <2>3. PICK m, t :
           /\ m \in Nat
           /\ Goes(w, m + 1, m, t, j)
           /\ Place(job[w].op, m + 1, "dial")
           /\ m > 0 => Place(job[w].op, m, t)
    BY <1>1, <2>1, <2>2, Advances
  <2>4. t \notin {"connecting", "dial"}
    <3>1. (m = 1 /\ job[w].op = "forward") \/ m = 4
      BY <2>3 DEF Place
    <3>2. QED  BY <2>3 DEF Place
  <2>5. m <= m + 1 /\ m + 1 \in Nat
    BY <2>3
  <2>6. scenario.serial => sshPool[N(w)] = None
    BY <1>1 DEF PoolIInv, Serially, NonePooled
  <2>7. QED  BY <1>1, <1>3, <2>2, <2>3, <2>4, <2>6, PlainGoes
<1>4. QED  BY <1>2, <1>3

LEMMA StoreKeeps ==
  ASSUME PoolIInv, NEW w \in Workers, Store(w)
  PROVE  PoolIInv'
<1>1. /\ At(w, "store") /\ UNCHANGED <<nodes, pool>> /\ Continue(w)
      /\ "store" \in Plain /\ N(w) \in Nodes
  BY Running DEF Store, Plain
<1>2. PICK c \in Conns : /\ conn' = [conn EXCEPT ![c] = Stored(w)]
                         /\ sshPool' = [sshPool EXCEPT ![N(w)] = c]
  BY DEF Store
<1>3. TypeOK
  BY DEF PoolIInv
<1>4. PICK m, t, j :
         /\ m \in Nat
         /\ Goes(w, m + 1, m, t, j) /\ Place(job[w].op, m + 1, "store")
         /\ m > 0 => Place(job[w].op, m, t) /\ j = job[w]
  BY <1>1, Continued
<1>5. m > 0 => t \notin {"connecting", "dial", "store"}
  <2>1. m = 0 \/ m = 3
    BY <1>4 DEF Place
  <2>2. QED  BY <1>4 DEF Place
<1>6. m <= m + 1 /\ m + 1 \in Nat
  BY <1>4
<1>7. Steady'
  <2>1. "store" \notin {"setHost", "setUrl", "dropLxd", "delete"}
    OBVIOUS
  <2>2. QED  BY <1>1, <1>4, <1>5, GoesSteady
<1>8. /\ Stored(w) \in Connection /\ Stored(w).node = N(w)
      /\ Stored(w).host = job[w].host
  BY Running DEF Stored, Connection
<1>9. /\ conn' \in [Conns -> Connection] /\ sshPool'[N(w)] = c
      /\ sshPool' \in [Nodes -> Conns \cup {None}]
      /\ \A n \in Nodes : n # N(w) => sshPool'[n] = sshPool[n]
      /\ \A d \in Conns : d # c => conn'[d] = conn[d]
      /\ conn'[c] = Stored(w)
  BY <1>1, <1>2, <1>3, <1>8 DEF TypeOK
<1>10. ASSUME scenario.serial
       PROVE  OpenPooled'
  <2>1. OpenPooled /\ NonePooled /\ DialsHost
    BY <1>10 DEF PoolIInv, Serially
  <2>2. sshPool[N(w)] = None /\ Exists(N(w)) /\ job[w].host = nodes[N(w)].host
    BY <1>1, <2>1 DEF NonePooled, DialsHost
  <2>3. /\ \A v \in Workers : v # w => todo'[v] = todo[v] /\ job'[v] = job[v]
        /\ \A n \in Nodes : ~WillDropSsh(w, n)
    BY <1>1, <1>4, Goings, PlainOwes
  <2>4. \A v \in Workers, n \in Nodes : WillDropSsh(v, n) => WillDropSsh(v, n)'
    BY <2>3, OthersPromise
  <2> SUFFICES ASSUME NEW d \in Conns, conn'[d].state = "up",
                      NEW n, n = conn'[d].node
               PROVE  /\ sshPool'[n] = d
                      /\ \/ nodes'[n] = None \/ conn'[d].host = nodes'[n].host
                         \/ \E v \in Workers : WillDropSsh(v, n)'
    BY DEF OpenPooled, Exists
  <2>5. CASE d = c
    BY <1>1, <1>8, <1>9, <2>2, <2>5
  <2>6. CASE d # c
    <3>1. conn'[d] = conn[d] /\ conn[d].node \in Nodes /\ d # None
      BY <1>9, <2>6, NoneAssumption DEF Connection
    <3>2. sshPool[conn[d].node] = d
      BY <2>1, <3>1 DEF OpenPooled
    <3>3. sshPool'[conn[d].node] = d
      BY <1>9, <2>2, <3>1, <3>2
    <3>4. \/ ~Exists(conn[d].node)
          \/ conn[d].host = nodes[conn[d].node].host
          \/ \E v \in Workers : WillDropSsh(v, conn[d].node)
      BY <2>1, <3>1 DEF OpenPooled
    <3>5. QED  BY <1>1, <2>4, <3>1, <3>3, <3>4 DEF Exists
  <2>7. QED  BY <2>5, <2>6
<1>11. /\ nodes' \in [Nodes -> [host : Hosts, url : Hosts] \cup {None}]
       /\ pool' \in [Nodes -> Hosts \cup {None}]
  BY <1>1, <1>3 DEF TypeOK
<1>12. QED
  BY <1>1, <1>4, <1>5, <1>7, <1>9, <1>10, <1>11, GoesDone

LEMMA ConnectStartKeeps ==
  ASSUME PoolIInv, NEW w \in Workers, ConnectStart(w)
  PROVE  PoolIInv'
<1>1. /\ At(w, "connect") /\ UNCHANGED <<nodes, pool, sshPool, conn>>
      /\ "connect" \in Plain
  BY DEF ConnectStart, Plain
<1>2. CASE Continue(w)
  <2>1. PICK m, t, j :
           m \in Nat /\ Goes(w, m + 1, m, t, j)
           /\ Place(job[w].op, m + 1, "connect")
    BY <1>1, <1>2, Continued
  <2>2. ~(m > 0)
    BY <2>1 DEF Place
  <2>3. m <= m + 1 /\ m + 1 \in Nat
    BY <2>1
  <2>4. QED  BY <1>1, <2>1, <2>2, PlainGoes
<1>3. CASE Fail(w)
  BY <1>1, <1>3, FailKeeps
<1>4. CASE /\ Exists(N(w))
           /\ todo' = [todo EXCEPT ![w] = <<"connecting">> \o Tail(@)]
           /\ job' = [job EXCEPT ![w].host = nodes[N(w)].url]
           /\ UNCHANGED scenario
  <2> DEFINE j == [job[w] EXCEPT !.host = nodes[N(w)].url]
  <2>1. /\ todo' = [todo EXCEPT ![w] = <<"connecting">> \o Tail(todo[w])]
        /\ job' = [job EXCEPT ![w] = j] /\ UNCHANGED scenario
    BY <1>4
  <2>2. /\ j \in Jobs /\ j.op = job[w].op /\ j.node = job[w].node
        /\ j.host = nodes[N(w)].url
    BY <1>4, Running DEF PoolIInv, TypeOK, Jobs, Exists
  <2> HIDE DEF j
  <2>3. PICK k \in Nat : Goes(w, k, k, "connecting", j)
    BY <1>1, <2>1, <2>2, Connects
  <2>4. k <= k
    OBVIOUS
  <2>5. QED  BY <1>1, <1>4, <2>2, <2>3, PlainGoes
<1>5. QED  BY <1>2, <1>3, <1>4 DEF ConnectStart

LEMMA ConnectedKeeps ==
  ASSUME PoolIInv, NEW w \in Workers, Connected(w)
  PROVE  PoolIInv'
<1>1. /\ At(w, "connecting") /\ UNCHANGED <<nodes, sshPool, conn>>
      /\ pool' = [pool EXCEPT ![N(w)] = job[w].host] /\ Continue(w)
      /\ "connecting" \in Plain /\ N(w) \in Nodes
  BY Running DEF Connected, Plain
<1>2. PICK m, t, j :
         m \in Nat /\ Goes(w, m + 1, m, t, j)
         /\ Place(job[w].op, m + 1, "connecting")
  BY <1>1, Continued
<1>3. m = 0 /\ m + 1 \in Nat
  BY <1>2 DEF Place
<1>4. /\ \A v \in Workers : v # w => todo'[v] = todo[v] /\ job'[v] = job[v]
      /\ \A x : ~At(w, x)'
      /\ \A n \in Nodes : ~WillDropSsh(w, n) /\ ~WillDropLxd(w, n)
  BY <1>1, <1>2, <1>3, Goings, PlainOwes
<1>5. \A n \in Nodes : ~Moves(w, n) /\ ~Moves(w, n)'
  BY <1>1, <1>2, <1>3, Owed
<1>6. /\ UrlsNameHosts /\ MovesToHost /\ ClientsCurrent /\ ConnectingCurrent
      /\ TypeOK
  BY DEF PoolIInv
<1>7. \A n \in Nodes : \A u : Current(n, u) => Current(n, u)'
  <2>1. \A v \in Workers, n \in Nodes : WillDropLxd(v, n) => WillDropLxd(v, n)'
    BY <1>4, OthersPromise
  <2>2. QED  BY <1>1, <2>1 DEF Current, Exists
<1>8. Steady'
  <2>1. UrlsNameHosts' /\ MovesToHost'
    BY <1>1, <1>4, <1>5, StillMoves
  <2>2. ClientsCurrent'
    <3> SUFFICES ASSUME NEW n \in Nodes, pool'[n] # None
                 PROVE  Current(n, pool[n])'
      BY DEF ClientsCurrent
    <3>1. Current(n, pool'[n])
      BY <1>1, <1>6 DEF ClientsCurrent, ConnectingCurrent
    <3>2. PICK u : u = pool'[n]
      OBVIOUS
    <3>3. Current(n, u)'
      BY <1>7, <3>1, <3>2
    <3>4. QED  BY <3>2, <3>3
  <2>3. ConnectingCurrent'
    BY <1>4, <1>7, StillConnecting
  <2>4. QED  BY <2>1, <2>2, <2>3 DEF Steady
<1>9. scenario.serial => OpenPooled'
  BY <1>1, <1>4, OpenStays
<1>10. /\ nodes' \in [Nodes -> [host : Hosts, url : Hosts] \cup {None}]
       /\ pool' \in [Nodes -> Hosts \cup {None}]
       /\ sshPool' \in [Nodes -> Conns \cup {None}]
       /\ conn' \in [Conns -> Connection]
  BY <1>1, <1>6 DEF TypeOK
<1>11. ~(m > 0)
  BY <1>3
<1>12. QED  BY <1>1, <1>2, <1>8, <1>9, <1>10, <1>11, GoesDone

LEMMA removeNodeClientKeeps ==
  ASSUME PoolIInv, NEW w \in Workers, removeNodeClient(w)
  PROVE  PoolIInv'
<1>1. /\ At(w, "dropLxd") /\ UNCHANGED <<nodes, sshPool, conn>> /\ PoolMuFree
      /\ pool' = [pool EXCEPT ![N(w)] = None] /\ Continue(w) /\ N(w) \in Nodes
  BY Running DEF removeNodeClient
<1>2. PICK m, t, j :
         /\ m \in Nat
         /\ Goes(w, m + 1, m, t, j) /\ Place(job[w].op, m + 1, "dropLxd")
         /\ m > 0 => Place(job[w].op, m, t) /\ j = job[w]
  BY <1>1, Continued
<1>3. /\ (job[w].op = "migrate" /\ m = 8) \/ m = 2 \/ m = 0
      /\ m + 1 \in Nat /\ m + 1 # 10 /\ m # 10
  BY <1>2 DEF Place
<1>4. m > 0 => t \notin {"connecting", "dial", "store"}
  BY <1>2 DEF Place
<1>5. /\ \A v \in Workers : v # w => todo'[v] = todo[v] /\ job'[v] = job[v]
      /\ ~At(w, "connecting")'
  BY <1>1, <1>2, <1>4, Goings
<1>6. \A n \in Nodes : /\ ~Moves(w, n) /\ ~Moves(w, n)'
                       /\ n # N(w) => ~WillDropLxd(w, n)
                       /\ WillDropSsh(w, n) => WillDropSsh(w, n)'
  <2> SUFFICES ASSUME NEW n \in Nodes
               PROVE  /\ ~Moves(w, n) /\ ~Moves(w, n)'
                      /\ n # N(w) => ~WillDropLxd(w, n)
                      /\ WillDropSsh(w, n) => WillDropSsh(w, n)'
    OBVIOUS
  <2>1. /\ Moves(w, n) <=> N(w) = n /\ job[w].op = "migrate" /\ m + 1 = 10
        /\ Moves(w, n)' <=> N(w) = n /\ job[w].op = "migrate" /\ m = 10
        /\ WillDropLxd(w, n) => N(w) = n
        /\ WillDropSsh(w, n) <=>
              N(w) = n /\ job[w].op = "migrate" /\ m + 1 >= 8
        /\ WillDropSsh(w, n)' <=> N(w) = n /\ job[w].op = "migrate" /\ m >= 8
    BY <1>1, <1>2, Owed
  <2>2. WillDropSsh(w, n) => m = 8
    BY <1>3, <2>1
  <2>3. QED  BY <2>1, <2>2
<1>7. /\ UrlsNameHosts /\ MovesToHost /\ ClientsCurrent /\ ConnectingCurrent
      /\ TypeOK
  BY DEF PoolIInv
<1>8. \A n \in Nodes : \A u : n # N(w) /\ Current(n, u) => Current(n, u)'
  <2>1. \A v \in Workers, n \in Nodes :
           n # N(w) /\ WillDropLxd(v, n) => WillDropLxd(v, n)'
    BY <1>5, <1>6, OthersPromise
  <2>2. QED  BY <1>1, <2>1 DEF Current, Exists
<1>9. Steady'
  <2>1. UrlsNameHosts' /\ MovesToHost'
    BY <1>1, <1>5, <1>6, StillMoves
  <2>2. ClientsCurrent'
    <3> SUFFICES ASSUME NEW n \in Nodes, pool'[n] # None
                 PROVE  Current(n, pool[n])'
      BY DEF ClientsCurrent
    <3>1. n # N(w) /\ pool'[n] = pool[n]
      BY <1>1, <1>7 DEF TypeOK
    <3>2. PICK u : u = pool[n]
      OBVIOUS
    <3>3. Current(n, u)'
      BY <1>7, <1>8, <3>1, <3>2 DEF ClientsCurrent
    <3>4. QED  BY <3>1, <3>2, <3>3
  <2>3. ConnectingCurrent'
    BY <1>1, <1>5, OthersPromise DEF PoolMuFree, ConnectingCurrent
  <2>4. QED  BY <2>1, <2>2, <2>3 DEF Steady
<1>10. scenario.serial => OpenPooled'
  BY <1>1, <1>5, <1>6, OpenStays
<1>11. /\ nodes' \in [Nodes -> [host : Hosts, url : Hosts] \cup {None}]
       /\ pool' \in [Nodes -> Hosts \cup {None}]
       /\ sshPool' \in [Nodes -> Conns \cup {None}]
       /\ conn' \in [Conns -> Connection]
  BY <1>1, <1>7 DEF TypeOK
<1>12. QED  BY <1>1, <1>2, <1>4, <1>9, <1>10, <1>11, GoesDone

LEMMA removeSSHClientKeeps ==
  ASSUME PoolIInv, NEW w \in Workers, removeSSHClient(w)
  PROVE  PoolIInv'
<1>1. /\ At(w, "dropSsh") /\ UNCHANGED <<nodes, pool>> /\ Continue(w)
      /\ sshPool' = [sshPool EXCEPT ![N(w)] = None] /\ N(w) \in Nodes
      /\ conn' = [c \in Conns |-> IF sshPool[N(w)] = c
                                  THEN [conn[c] EXCEPT !.state = "closed"]
                                  ELSE conn[c]]
  BY Running DEF removeSSHClient
<1>2. TypeOK
  BY DEF PoolIInv
<1>3. PICK m, t, j :
         /\ m \in Nat
         /\ Goes(w, m + 1, m, t, j) /\ Place(job[w].op, m + 1, "dropSsh")
         /\ m > 0 => Place(job[w].op, m, t) /\ j = job[w]
  BY <1>1, Continued
<1>4. m = 7 /\ m <= m + 1 /\ m + 1 \in Nat
  BY <1>3 DEF Place
<1>5. t \notin {"connecting", "dial", "store"}
  BY <1>3 DEF Place
<1>6. Steady'
  <2>1. "dropSsh" \notin {"setHost", "setUrl", "dropLxd", "delete"}
    OBVIOUS
  <2>2. QED  BY <1>1, <1>3, <1>4, <1>5, GoesSteady
<1>7. /\ conn' \in [Conns -> Connection]
      /\ sshPool' \in [Nodes -> Conns \cup {None}]
      /\ \A n \in Nodes : n # N(w) => sshPool'[n] = sshPool[n]
      /\ \A d \in Conns : conn'[d].state = "up" =>
            d # sshPool[N(w)] /\ conn'[d] = conn[d]
  <2>1. conn \in [Conns -> Connection] /\ sshPool \in [Nodes -> Conns \cup {None}]
    BY <1>2 DEF TypeOK
  <2>2. ASSUME NEW d \in Conns
        PROVE  /\ conn'[d] \in Connection
               /\ conn'[d].state = "up" =>
                    d # sshPool[N(w)] /\ conn'[d] = conn[d]
    BY <1>1, <2>1 DEF Connection
  <2>3. QED  BY <1>1, <2>1, <2>2
<1>8. ASSUME scenario.serial
      PROVE  OpenPooled'
  <2>1. \A d \in Conns : conn'[d].state = "up" =>
           /\ conn'[d] = conn[d] /\ sshPool'[conn[d].node] = sshPool[conn[d].node]
           /\ conn[d].node # N(w)
    <3> SUFFICES ASSUME NEW d \in Conns, conn'[d].state = "up"
                 PROVE  /\ conn'[d] = conn[d] /\ conn[d].node # N(w)
                        /\ sshPool'[conn[d].node] = sshPool[conn[d].node]
      OBVIOUS
    <3>1. conn'[d] = conn[d] /\ d # sshPool[N(w)] /\ conn[d].node \in Nodes
      BY <1>7 DEF Connection
    <3>2. sshPool[conn[d].node] = d
      BY <1>8, <3>1 DEF PoolIInv, Serially, OpenPooled
    <3>3. QED  BY <1>7, <3>1, <3>2
  <2>2. \A v \in Workers : v # w => todo'[v] = todo[v] /\ job'[v] = job[v]
    BY <1>1, <1>3, Goings
  <2>3. \A d \in Conns : conn'[d].state = "up" => ~WillDropSsh(w, conn[d].node)
    BY <2>1 DEF WillDropSsh
  <2>4. QED  BY <1>1, <1>8, <2>1, <2>2, <2>3, FewerOpen
<1>9. /\ nodes' \in [Nodes -> [host : Hosts, url : Hosts] \cup {None}]
      /\ pool' \in [Nodes -> Hosts \cup {None}]
  BY <1>1, <1>2 DEF TypeOK
<1>10. QED  BY <1>1, <1>3, <1>4, <1>5, <1>6, <1>7, <1>8, <1>9, GoesDone

\* The writes that keep a promise to drop the LXD client: all but the refresh.
LEMMA PromisedWrite ==
  ASSUME PoolIInv, NEW w \in Workers, NEW s, At(w, s), NEW new,
         Write(w, s, new),
         Exists(N(w)) => new \in [host : Hosts, url : Hosts] \cup {None},
         NEW m \in Nat, NEW t, NEW j, Goes(w, m + 1, m, t, j),
         m > 0 /\ t \notin {"connecting", "dial", "store"},
         NEW h, h = N(w), WillDropLxd(w, h)', UrlsNameHosts', MovesToHost',
         (Exists(h) => new = None) \/ WillDropSsh(w, h)'
  PROVE  PoolIInv'
<1>1. /\ UNCHANGED <<pool, sshPool, conn>> /\ TypeOK /\ N(w) \in Nodes
      /\ nodes' = IF Exists(N(w)) THEN [nodes EXCEPT ![N(w)] = new] ELSE nodes
  BY Running DEF Write, PoolIInv
<1>2. /\ nodes' \in [Nodes -> [host : Hosts, url : Hosts] \cup {None}]
      /\ \A n \in Nodes : n # N(w) => nodes'[n] = nodes[n]
      /\ nodes'[N(w)] = IF Exists(N(w)) THEN new ELSE None
  BY <1>1 DEF TypeOK, Exists
<1>3. m + 1 \in Nat
  OBVIOUS
<1>4. /\ \A v \in Workers : v # w => todo'[v] = todo[v] /\ job'[v] = job[v]
      /\ ~At(w, "connecting")'
  BY Goings
<1>5. \A n \in Nodes : \A u : Current(n, u) => Current(n, u)'
  <2> SUFFICES ASSUME NEW n \in Nodes, NEW u, Current(n, u)
               PROVE  Current(n, u)'
    OBVIOUS
  <2>1. CASE n = N(w)
    <3>1. WillDropLxd(w, n)'
      BY <2>1
    <3>2. QED  BY <3>1 DEF Current
  <2>2. CASE n # N(w)
    <3>1. \A v \in Workers : WillDropLxd(v, n) => WillDropLxd(v, n)'
      <4>1. ~WillDropLxd(w, n)
        BY <2>2 DEF WillDropLxd
      <4>2. QED  BY <1>4, <4>1, OthersPromise
    <3>2. nodes'[n] = nodes[n]
      BY <1>2, <2>2
    <3>3. QED  BY <3>1, <3>2 DEF Current, Exists
  <2>3. QED  BY <2>1, <2>2
<1>6. Steady'
  <2>1. ClientsCurrent'
    <3> SUFFICES ASSUME NEW n \in Nodes, pool'[n] # None
                 PROVE  Current(n, pool[n])'
      BY DEF ClientsCurrent
    <3>1. PICK u : u = pool[n] /\ Current(n, u)
      BY <1>1 DEF PoolIInv, ClientsCurrent
    <3>2. Current(n, u)'
      BY <1>5, <3>1
    <3>3. QED  BY <1>1, <3>1, <3>2
  <2>2. ConnectingCurrent'
    BY <1>4, <1>5, StillConnecting
  <2>3. QED  BY <2>1, <2>2 DEF Steady
<1>7. ASSUME scenario.serial
      PROVE  OpenPooled'
  <2>1. OpenPooled /\ \A c \in Conns : conn[c].node \in Nodes
    BY <1>7 DEF PoolIInv, Serially, TypeOK, Connection
  <2> SUFFICES ASSUME NEW d \in Conns, conn[d].state = "up",
                      NEW n \in Nodes, n = conn[d].node
               PROVE  /\ sshPool[n] = d
                      /\ \/ nodes'[n] = None \/ conn[d].host = nodes'[n].host
                         \/ \E v \in Workers : WillDropSsh(v, n)'
    BY <1>1, <2>1 DEF OpenPooled, Exists
  <2>2. sshPool[n] = d
    BY <2>1 DEF OpenPooled
  <2>3. CASE n = N(w)
    <3>1. nodes'[n] = None \/ WillDropSsh(w, n)'
      BY <1>2, <2>3
    <3>2. QED  BY <2>2, <3>1
  <2>4. CASE n # N(w)
    <3>1. \A v \in Workers : WillDropSsh(v, n) => WillDropSsh(v, n)'
      <4>1. ~WillDropSsh(w, n)
        BY <2>4 DEF WillDropSsh
      <4>2. QED  BY <1>4, <4>1, OthersPromise
    <3>2. nodes'[n] = nodes[n]
      BY <1>2, <2>4
    <3>3. \/ ~Exists(n) \/ conn[d].host = nodes[n].host
          \/ \E v \in Workers : WillDropSsh(v, n)
      BY <2>1 DEF OpenPooled
    <3>4. QED  BY <2>2, <3>1, <3>2, <3>3 DEF Exists
  <2>5. QED  BY <2>3, <2>4
<1>8. /\ pool' \in [Nodes -> Hosts \cup {None}]
      /\ sshPool' \in [Nodes -> Conns \cup {None}]
      /\ conn' \in [Conns -> Connection]
  BY <1>1 DEF TypeOK
<1>9. t \notin {"dial", "store"}
  OBVIOUS
<1>10. QED  BY <1>2, <1>6, <1>7, <1>8, GoesDone

LEMMA SetHostKeeps ==
  ASSUME PoolIInv, NEW w \in Workers, SetHost(w)
  PROVE  PoolIInv'
<1> DEFINE new == [host |-> job[w].host, url |-> nodes[N(w)].url]
<1>1. /\ At(w, "setHost") /\ Write(w, "setHost", new) /\ Continue(w) /\ TypeOK
      /\ N(w) \in Nodes /\ job[w].host \in Hosts
      /\ nodes' = IF Exists(N(w)) THEN [nodes EXCEPT ![N(w)] = new] ELSE nodes
  BY Running DEF SetHost, Write, PoolIInv
<1>2. PICK m, t, j :
         /\ m \in Nat
         /\ Goes(w, m + 1, m, t, j) /\ Place(job[w].op, m + 1, "setHost")
         /\ m > 0 => Place(job[w].op, m, t) /\ j = job[w]
  BY <1>1, Continued
<1>3. m = 10 /\ m + 1 \in Nat /\ m > 0 /\ job[w].op = "migrate" /\ j = job[w]
  BY <1>2 DEF Place
<1>4. t \notin {"connecting", "dial", "store"}
  BY <1>2 DEF Place
<1>5. Exists(N(w)) => /\ new \in [host : Hosts, url : Hosts]
                      /\ new.host = job[w].host /\ new.url = nodes[N(w)].url
  BY <1>1 DEF TypeOK, Exists
<1> HIDE DEF new
<1>6. PICK h \in Nodes : h = N(w)
  BY <1>1
<1>7. WillDropLxd(w, h)' /\ WillDropSsh(w, h)' /\ Moves(w, h)'
  BY <1>1, <1>2, <1>3, <1>6, Owed
<1>8. /\ \A v \in Workers : v # w => todo'[v] = todo[v] /\ job'[v] = job[v]
      /\ job'[w] = job[w]
  BY <1>1, <1>2, <1>3, Goings
<1>9. /\ \A n \in Nodes : n # h => nodes'[n] = nodes[n]
      /\ nodes'[h] = IF Exists(h) THEN new ELSE None
  BY <1>1, <1>6 DEF TypeOK, Exists
<1>10. \A v \in Workers, n \in Nodes : n # h => (Moves(v, n)' <=> Moves(v, n))
  <2>1. \A n \in Nodes : n # h => ~Moves(w, n) /\ ~Moves(w, n)'
    BY <1>6, <1>8 DEF Moves, N
  <2>2. QED  BY <1>8, <2>1, OthersPromise
<1>11. UrlsNameHosts'
  BY <1>7, <1>9, <1>10 DEF UrlsNameHosts, Exists, PoolIInv
<1>12. MovesToHost'
  <2> SUFFICES ASSUME NEW v \in Workers, NEW n \in Nodes, Moves(v, n)',
                      nodes'[n] # None
               PROVE  nodes'[n].host = job'[v].host
    BY DEF MovesToHost, Exists
  <2>1. CASE n = h
    <3>1. v = w
      <4>1. CASE v # w
        <5>1. Moves(v, n)
          BY <1>8, <4>1, OthersPromise
        <5>2. Len(todo[v]) > 0 /\ N(v) = N(w) /\ job[v].op = "migrate"
          BY <1>6, <2>1, <5>1 DEF Moves
        <5>3. Len(todo[w]) > 0
          BY <1>1, Running
        <5>4. QED  BY <1>3, <5>2, <5>3 DEF PoolIInv, OneMigration
      <4>2. QED  BY <4>1
    <3>2. nodes'[n] = new /\ Exists(N(w))
      BY <1>6, <1>9, <2>1
    <3>3. QED  BY <1>5, <1>8, <3>1, <3>2
  <2>2. CASE n # h
    <3>1. Moves(v, n) /\ nodes'[n] = nodes[n]
      BY <1>9, <1>10, <2>2
    <3>2. job'[v] = job[v]
      BY <1>8
    <3>3. QED  BY <3>1, <3>2 DEF PoolIInv, MovesToHost, Exists
  <2>3. QED  BY <2>1, <2>2
<1>13. QED
  BY <1>1, <1>2, <1>3, <1>4, <1>5, <1>6, <1>7, <1>11, <1>12, PromisedWrite

LEMMA SetUrlKeeps ==
  ASSUME PoolIInv, NEW w \in Workers, SetUrl(w)
  PROVE  PoolIInv'
<1> DEFINE new == [host |-> nodes[N(w)].host, url |-> job[w].host]
<1>1. /\ At(w, "setUrl") /\ Write(w, "setUrl", new) /\ Continue(w) /\ TypeOK
      /\ N(w) \in Nodes /\ job[w].host \in Hosts
      /\ nodes' = IF Exists(N(w)) THEN [nodes EXCEPT ![N(w)] = new] ELSE nodes
  BY Running DEF SetUrl, Write, PoolIInv
<1>2. PICK m, t, j :
         /\ m \in Nat
         /\ Goes(w, m + 1, m, t, j) /\ Place(job[w].op, m + 1, "setUrl")
         /\ m > 0 => Place(job[w].op, m, t) /\ j = job[w]
  BY <1>1, Continued
<1>3. m = 9 /\ m + 1 \in Nat /\ m > 0 /\ job[w].op = "migrate" /\ j = job[w]
  BY <1>2 DEF Place
<1>4. t \notin {"connecting", "dial", "store"}
  BY <1>2 DEF Place
<1>5. Exists(N(w)) => /\ new \in [host : Hosts, url : Hosts]
                      /\ new.host = nodes[N(w)].host /\ new.url = job[w].host
  BY <1>1 DEF TypeOK, Exists
<1> HIDE DEF new
<1>6. PICK h \in Nodes : h = N(w)
  BY <1>1
<1>7. WillDropLxd(w, h)' /\ WillDropSsh(w, h)' /\ Moves(w, h)
  BY <1>1, <1>2, <1>3, <1>6, Owed
<1>8. \A v \in Workers : v # w => todo'[v] = todo[v] /\ job'[v] = job[v]
  BY <1>1, <1>2, Goings
<1>9. /\ \A n \in Nodes : n # h => nodes'[n] = nodes[n]
      /\ nodes'[h] = IF Exists(h) THEN new ELSE None
  BY <1>1, <1>6 DEF TypeOK, Exists
<1>10. \A v \in Workers, n \in Nodes :
          /\ Moves(v, n)' => v # w /\ Moves(v, n)
          /\ n # h /\ Moves(v, n) => Moves(v, n)'
  <2>1. \A n \in Nodes : ~Moves(w, n)'
    BY <1>1, <1>2, <1>3, Owed
  <2>2. \A n \in Nodes : n # h => ~Moves(w, n)
    BY <1>6 DEF Moves
  <2>3. QED  BY <1>8, <2>1, <2>2, OthersPromise
<1>11. Exists(h) => new.url = new.host
  BY <1>5, <1>6, <1>7 DEF PoolIInv, MovesToHost
<1>12. UrlsNameHosts'
  BY <1>9, <1>10, <1>11 DEF UrlsNameHosts, Exists, PoolIInv
<1>13. MovesToHost'
  <2> SUFFICES ASSUME NEW v \in Workers, NEW n \in Nodes, Moves(v, n)',
                      nodes'[n] # None
               PROVE  nodes'[n].host = job'[v].host
    BY DEF MovesToHost, Exists
  <2>1. v # w /\ Moves(v, n) /\ job'[v] = job[v]
    BY <1>8, <1>10
  <2>2. nodes'[n].host = nodes[n].host /\ Exists(n)
    BY <1>5, <1>6, <1>9 DEF Exists
  <2>3. QED  BY <2>1, <2>2 DEF PoolIInv, MovesToHost
<1>14. QED
  BY <1>1, <1>2, <1>3, <1>4, <1>5, <1>6, <1>7, <1>12, <1>13, PromisedWrite

LEMMA DeleteKeeps ==
  ASSUME PoolIInv, NEW w \in Workers, Delete(w)
  PROVE  PoolIInv'
<1>1. /\ At(w, "delete") /\ Write(w, "delete", None) /\ Continue(w) /\ TypeOK
      /\ N(w) \in Nodes
      /\ nodes' = IF Exists(N(w)) THEN [nodes EXCEPT ![N(w)] = None] ELSE nodes
  BY Running DEF Delete, Write, PoolIInv
<1>2. PICK m, t, j :
         /\ m \in Nat
         /\ Goes(w, m + 1, m, t, j) /\ Place(job[w].op, m + 1, "delete")
         /\ m > 0 => Place(job[w].op, m, t) /\ j = job[w]
  BY <1>1, Continued
<1>3. m = 1 /\ m + 1 \in Nat /\ m > 0 /\ job[w].op = "remove" /\ j = job[w]
  BY <1>2 DEF Place
<1>4. t \notin {"connecting", "dial", "store"}
  BY <1>2 DEF Place
<1>5. PICK h \in Nodes : h = N(w)
  BY <1>1
<1>6. WillDropLxd(w, h)'
  BY <1>1, <1>2, <1>3, <1>5, Owed
<1>7. \A v \in Workers : v # w => todo'[v] = todo[v] /\ job'[v] = job[v]
  BY <1>1, <1>2, Goings
<1>8. \A n \in Nodes : nodes'[n] = nodes[n] \/ nodes'[n] = None
  BY <1>1
<1>9. \A v \in Workers, n \in Nodes :
         /\ Moves(v, n)' <=> Moves(v, n)
         /\ Moves(v, n)' => job'[v] = job[v]
  <2>1. \A n \in Nodes : ~Moves(w, n) /\ ~Moves(w, n)'
    BY <1>1, <1>2, <1>3, Owed
  <2>2. QED  BY <1>7, <2>1, OthersPromise
<1>10. UrlsNameHosts' /\ MovesToHost'
  BY <1>8, <1>9 DEF UrlsNameHosts, MovesToHost, Exists, PoolIInv
<1>11. QED
  BY <1>1, <1>2, <1>3, <1>4, <1>5, <1>6, <1>10, PromisedWrite

LEMMA RefreshKeeps ==
  ASSUME PoolIInv, NEW w \in Workers, Refresh(w)
  PROVE  PoolIInv'
<1> DEFINE new == [host |-> nodes[N(w)].host, url |-> nodes[N(w)].host]
<1>1. /\ At(w, "refresh") /\ Continue(w) /\ TypeOK /\ N(w) \in Nodes
      /\ UNCHANGED <<pool, sshPool, conn>>
      /\ nodes' = IF Exists(N(w)) THEN [nodes EXCEPT ![N(w)] = new] ELSE nodes
  BY Running DEF Refresh, Write, PoolIInv
<1>2. PICK m, t, j :
         /\ m \in Nat
         /\ Goes(w, m + 1, m, t, j) /\ Place(job[w].op, m + 1, "refresh")
         /\ m > 0 => Place(job[w].op, m, t) /\ j = job[w]
         /\ m > 0 => t = Head(Tail(todo[w]))
  BY <1>1, Continued
<1>3. m = 1 /\ m + 1 \in Nat /\ m > 0 /\ job[w].op # "remove"
  BY <1>2 DEF Place
<1>4. t = "connect"
  <2>1. job[w].op \in {"rebuild", "migrate"} /\ m + 1 = 2
    BY <1>2 DEF Place
  <2>2. Len(todo[w]) = m + 1
    BY <1>1, <1>2, Goings
  <2>3. QED  BY <1>2, <1>3, <2>1, <2>2, LastCall
<1>5. /\ \A v \in Workers : v # w => todo'[v] = todo[v] /\ job'[v] = job[v]
      /\ ~At(w, "connecting")'
  BY <1>1, <1>2, <1>4, Goings
<1>6. \A n \in Nodes : /\ ~Moves(w, n) /\ ~Moves(w, n)'
                       /\ ~WillDropLxd(w, n) /\ ~WillDropSsh(w, n)
  <2>1. /\ m + 1 # 10 /\ m # 10 /\ ~(m + 1 >= 9) /\ ~(m + 1 >= 8)
        /\ m + 1 \in Nat
    BY <1>3
  <2>2. QED  BY <1>1, <1>2, <1>3, <2>1, Owed
<1>7. Exists(N(w)) => /\ new \in [host : Hosts, url : Hosts]
                      /\ new.host = nodes[N(w)].host /\ new.url = new.host
  BY <1>1 DEF TypeOK, Exists
<1> HIDE DEF new
<1>8. \A n \in Nodes : \/ nodes'[n] = nodes[n]
                       \/ /\ n = N(w) /\ nodes'[n] = new /\ Exists(n)
                          /\ nodes'[n] # None
  <2>1. new \in [host : Hosts, url : Hosts] => new # None
    BY NoneAssumption
  <2>2. \A n \in Nodes : n # N(w) => nodes'[n] = nodes[n]
    BY <1>1
  <2>3. CASE Exists(N(w))
    <3>1. nodes'[N(w)] = new
      BY <1>1, <2>3 DEF TypeOK
    <3>2. QED  BY <1>7, <2>1, <2>2, <2>3, <3>1
  <2>4. CASE ~Exists(N(w))
    BY <1>1, <2>4
  <2>5. QED  BY <2>3, <2>4
<1>9. \A n \in Nodes : /\ Exists(n)' <=> Exists(n)
                       /\ Exists(n) => nodes'[n].host = nodes[n].host
  BY <1>7, <1>8 DEF Exists
<1>10. \A v \in Workers, n \in Nodes :
          /\ Moves(v, n)' <=> Moves(v, n)
          /\ Moves(v, n)' => job'[v] = job[v]
          /\ WillDropLxd(v, n) => WillDropLxd(v, n)'
          /\ WillDropSsh(v, n) => WillDropSsh(v, n)'
  BY <1>5, <1>6, OthersPromise
\* A URL that is not the host is that of a node whose migration is not done.
<1>11. \A n \in Nodes : \A u : Current(n, u) => Current(n, u)'
  <2> SUFFICES ASSUME NEW n \in Nodes, NEW u, Current(n, u)
               PROVE  Current(n, u)'
    OBVIOUS
  <2>1. CASE \E v \in Workers : WillDropLxd(v, n)
    BY <1>10, <2>1 DEF Current
  <2>2. CASE ~\E v \in Workers : WillDropLxd(v, n)
    <3>1. Exists(n) /\ u = nodes[n].url
      BY <2>2 DEF Current
    <3>2. ~\E v \in Workers : Moves(v, n)
      <4>1. ASSUME NEW v \in Workers, Moves(v, n)
            PROVE  WillDropLxd(v, n)
        <5>1. Len(todo[v]) >= 9
          BY <4>1 DEF Moves
        <5>2. QED  BY <4>1 DEF Moves, WillDropLxd
      <4>2. QED  BY <2>2, <4>1
    <3>3. nodes[n].url = nodes[n].host
      BY <3>1, <3>2 DEF PoolIInv, UrlsNameHosts
    <3>4. nodes'[n].url = nodes[n].url
      BY <1>7, <1>8, <3>3
    <3>5. QED  BY <1>9, <3>1, <3>4 DEF Current
  <2>3. QED  BY <2>1, <2>2
<1>12. Steady'
  <2>1. UrlsNameHosts'
    BY <1>7, <1>8, <1>10 DEF UrlsNameHosts, Exists, PoolIInv
  <2>2. MovesToHost'
    BY <1>9, <1>10 DEF MovesToHost, PoolIInv
  <2>3. ClientsCurrent'
    <3> SUFFICES ASSUME NEW n \in Nodes, pool'[n] # None
                 PROVE  Current(n, pool[n])'
      BY DEF ClientsCurrent
    <3>1. PICK u : u = pool[n] /\ Current(n, u)
      BY <1>1 DEF PoolIInv, ClientsCurrent
    <3>2. Current(n, u)'
      BY <1>11, <3>1
    <3>3. QED  BY <1>1, <3>1, <3>2
  <2>4. ConnectingCurrent'
    BY <1>5, <1>11, StillConnecting
  <2>5. QED  BY <2>1, <2>2, <2>3, <2>4 DEF Steady
<1>13. ASSUME scenario.serial
       PROVE  OpenPooled'
  <2>1. OpenPooled /\ \A c \in Conns : conn[c].node \in Nodes
    BY <1>13 DEF PoolIInv, Serially, TypeOK, Connection
  <2> SUFFICES ASSUME NEW d \in Conns, conn[d].state = "up",
                      NEW n \in Nodes, n = conn[d].node
               PROVE  /\ sshPool[n] = d
                      /\ \/ nodes'[n] = None \/ conn[d].host = nodes'[n].host
                         \/ \E v \in Workers : WillDropSsh(v, n)'
    BY <1>1, <2>1 DEF OpenPooled, Exists
  <2>2. /\ sshPool[n] = d
        /\ \/ ~Exists(n) \/ conn[d].host = nodes[n].host
           \/ \E v \in Workers : WillDropSsh(v, n)
    BY <2>1 DEF OpenPooled
  <2>3. QED  BY <1>9, <1>10, <2>2 DEF Exists
<1>14. /\ nodes' \in [Nodes -> [host : Hosts, url : Hosts] \cup {None}]
       /\ pool' \in [Nodes -> Hosts \cup {None}]
       /\ sshPool' \in [Nodes -> Conns \cup {None}]
       /\ conn' \in [Conns -> Connection]
  BY <1>1, <1>7 DEF TypeOK
<1>15. QED
  BY <1>1, <1>2, <1>4, <1>12, <1>13, <1>14, GoesDone

(***************************************************************************)
(* A new request, and the network                                          *)
(***************************************************************************)
LEMMA FirstCall ==
  ASSUME NEW op \in Requests
  PROVE  /\ Rest(op, Script(op)) /\ Script(op) \in Seq(Steps)
         /\ Len(Script(op)) > 0 /\ (op = "migrate" => Len(Script(op)) = 11)
         /\ Head(Script(op)) \notin {"connecting", "dial", "store"}
<1>1. Script(op) \in Seq(Steps) /\ Len(Script(op)) \in Nat
  BY ScriptType
<1>2. Rest(op, Script(op))
  <2>1. \A i \in 1 .. Len(Script(op)) : Called(op, Script(op), i) = Script(op)[i]
    BY DEF Called
  <2>2. QED  BY <2>1 DEF Rest
<1>3. /\ Len(Script(op)) > 0 /\ (op = "migrate" => Len(Script(op)) = 11)
      /\ Script(op)[1] \in {"lookup", "connect", "check", "setHost", "delete"}
  <2>1. CASE op = "forward"
    BY <2>1, Scripts, ShortScripts
  <2>2. CASE op = "call"
    BY <2>2, Scripts, ShortScripts
  <2>3. CASE op = "rebuild"
    BY <2>3, Scripts, RebuildScript
  <2>4. CASE op = "migrate"
    BY <2>4, Scripts, MigrateScript
  <2>5. CASE op = "remove"
    BY <2>5, Scripts, ShortScripts
  <2>6. QED  BY <2>1, <2>2, <2>3, <2>4, <2>5 DEF Requests
<1>4. Head(Script(op)) = Script(op)[1]
  OBVIOUS
<1>5. QED  BY <1>1, <1>2, <1>3

LEMMA BeginKeeps ==
  ASSUME PoolIInv, NEW w \in Workers, NEW op \in Requests, NEW n \in Nodes,
         NEW h \in Hosts, Begin(w, op, n, h)
  PROVE  PoolIInv'
<1>1. /\ todo[w] = <<>> /\ UNCHANGED <<scenario, nodes, pool, sshPool, conn>>
      /\ scenario.serial => \A v \in Workers : todo[v] = <<>>
      /\ op = "migrate" =>
           \A v \in Workers : todo[v] # <<>> => job[v].op # op \/ N(v) # n
  BY DEF Begin
<1>2. PICK q, j : /\ q = Script(op) /\ j = [op |-> op, node |-> n, host |-> h]
                  /\ todo' = [todo EXCEPT ![w] = q]
                  /\ job' = [job EXCEPT ![w] = j]
  BY DEF Begin
<1>3. /\ Rest(op, q) /\ q \in Seq(Steps) /\ Len(q) > 0
      /\ (op = "migrate" => Len(q) = 11)
      /\ Head(q) \notin {"connecting", "dial", "store"}
  BY <1>2, FirstCall
<1>4. j \in Jobs /\ j.op = op /\ j.node = n
  BY <1>2 DEF Jobs
<1>5. /\ TypeOK /\ todo \in [Workers -> Seq(Steps)] /\ job \in [Workers -> Jobs]
      /\ InScript /\ OneMigration /\ UrlsNameHosts /\ MovesToHost
      /\ ClientsCurrent /\ ConnectingCurrent
  BY DEF PoolIInv, TypeOK, Jobs
<1>6. /\ todo'[w] = q /\ job'[w] = j
      /\ \A v \in Workers : v # w => todo'[v] = todo[v] /\ job'[v] = job[v]
      /\ todo' \in [Workers -> Seq(Steps)] /\ job' \in [Workers -> Jobs]
  BY <1>2, <1>3, <1>4, <1>5
<1>7. TypeOK'
  BY <1>1, <1>5, <1>6 DEF TypeOK, Jobs
<1>8. InScript'
  BY <1>3, <1>4, <1>5, <1>6 DEF InScript
<1>9. \A v \in Workers : Len(todo[v]) > 0 => v # w /\ todo[v] # <<>>
  BY <1>1
<1>10. OneMigration'
  <2> SUFFICES ASSUME NEW u \in Workers, NEW v \in Workers,
                      Len(todo'[u]) > 0, Len(todo'[v]) > 0, N(u)' = N(v)',
                      job'[u].op = "migrate", job'[v].op = "migrate"
               PROVE  u = v
    BY DEF OneMigration
  <2>1. CASE u # w /\ v # w
    BY <1>5, <1>6, <2>1 DEF OneMigration, N
  <2>2. ASSUME NEW x \in Workers, NEW y \in Workers, x = w, y # w,
               Len(todo'[x]) > 0, Len(todo'[y]) > 0, N(x)' = N(y)',
               job'[x].op = "migrate", job'[y].op = "migrate"
        PROVE  FALSE
    <3>1. op = "migrate" /\ N(y) = n /\ job[y].op = op
      BY <1>4, <1>6, <2>2 DEF N
    <3>2. todo[y] # <<>>
      BY <1>6, <2>2
    <3>3. QED  BY <1>1, <3>1, <3>2
  <2>3. QED  BY <2>1, <2>2
<1>11. \A m \in Nodes : /\ ~Moves(w, m) /\ ~WillDropLxd(w, m)
                        /\ ~WillDropSsh(w, m) /\ ~Moves(w, m)'
  <2>1. ~(Len(todo[w]) > 0) /\ Len(todo[w]) = 0
    BY <1>1
  <2>2. \A m \in Nodes : ~Moves(w, m) /\ ~WillDropLxd(w, m) /\ ~WillDropSsh(w, m)
    BY <2>1 DEF Moves, WillDropLxd, WillDropSsh
  <2>3. \A m \in Nodes : ~Moves(w, m)'
    <3>1. op = "migrate" => Len(q) # 10
      <4>1. PICK k : k = Len(q) /\ (op = "migrate" => k = 11)
        BY <1>3
      <4>2. op = "migrate" => k # 10
        BY <4>1
      <4>3. QED  BY <4>1
    <3>2. job'[w].op = op /\ todo'[w] = q
      BY <1>4, <1>6
    <3>3. QED  BY <3>1, <3>2, Zenon DEF Moves
  <2>4. QED  BY <2>2, <2>3
<1>12. \A v \in Workers, m \in Nodes :
          /\ WillDropLxd(v, m) => WillDropLxd(v, m)'
          /\ WillDropSsh(v, m) => WillDropSsh(v, m)'
  BY <1>6, <1>11, OthersPromise
<1>13. UrlsNameHosts' /\ MovesToHost'
  BY <1>1, <1>6, <1>11, StillMoves
<1>14. \A m \in Nodes : \A u : Current(m, u) => Current(m, u)'
  BY <1>1, <1>12 DEF Current, Exists
<1>15. ClientsCurrent'
  BY <1>1, <1>5, <1>14 DEF ClientsCurrent
<1>16. \A x \in {"connecting", "dial", "store"} : ~At(w, x)'
  BY <1>3, <1>6 DEF At
<1>17. ConnectingCurrent'
  BY <1>6, <1>14, <1>16, StillConnecting
<1>18. ASSUME scenario.serial
       PROVE  Serially'
  <2>1. \A v \in Workers : v # w => ~(Len(todo'[v]) > 0) /\ todo'[v] = <<>>
    BY <1>1, <1>6, <1>18
  <2>2. Alone'
    BY <2>1 DEF Alone
  <2>3. \A v \in Workers : ~At(v, "dial")' /\ ~At(v, "store")'
    BY <1>16, <2>1 DEF At
  <2>4. OpenPooled'
    <3>1. OpenPooled /\ \A c \in Conns : conn[c].node \in Nodes
      BY <1>18 DEF PoolIInv, Serially, TypeOK, Connection
    <3>2. QED  BY <1>1, <1>12, <3>1 DEF OpenPooled, Exists
  <2>5. QED  BY <2>2, <2>3, <2>4 DEF Serially, NonePooled, DialsHost
<1>19. scenario' = scenario
  BY <1>1
<1>20. QED
  BY <1>6, <1>7, <1>8, <1>10, <1>13, <1>15, <1>17, <1>18, <1>19 DEF PoolIInv

\* The network, and a keepalive: connections close, and leave the pool.
LEMMA NetworkKeeps ==
  ASSUME PoolIInv, UNCHANGED <<scenario, nodes, pool, todo, job>>,
         conn' \in [Conns -> Connection],
         sshPool' \in [Nodes -> Conns \cup {None}],
         \A n \in Nodes : sshPool[n] = None => sshPool'[n] = None,
         \A d \in Conns : conn'[d].state = "up" =>
            /\ conn'[d] = conn[d]
            /\ \A n \in Nodes : sshPool[n] = d => sshPool'[n] = d
  PROVE  PoolIInv'
<1>1. /\ TypeOK' /\ (todo \in [Workers -> Seq(Steps)])' /\ InScript'
      /\ OneMigration' /\ UrlsNameHosts' /\ MovesToHost' /\ ClientsCurrent'
      /\ ConnectingCurrent'
  <2>1. TypeOK' /\ (todo \in [Workers -> Seq(Steps)])' /\ InScript'
    BY DEF PoolIInv, TypeOK, InScript
  <2>2. OneMigration' /\ UrlsNameHosts' /\ MovesToHost'
    BY DEF PoolIInv, OneMigration, UrlsNameHosts, MovesToHost, Moves, N, Exists
  <2>3. ClientsCurrent' /\ ConnectingCurrent'
    BY DEF PoolIInv, ClientsCurrent, ConnectingCurrent, Current, WillDropLxd, N,
       At, Exists
  <2>4. QED  BY <2>1, <2>2, <2>3
<1>2. ASSUME scenario.serial
      PROVE  Serially'
  <2>1. Alone /\ NonePooled /\ DialsHost /\ OpenPooled
    BY <1>2 DEF PoolIInv, Serially
  <2>2. Alone' /\ DialsHost'
    BY <2>1 DEF Alone, DialsHost, At, N, Exists
  <2>3. NonePooled'
    BY <2>1, Running DEF NonePooled, At, N
  <2>4. OpenPooled'
    <3>1. \A c \in Conns : conn[c].node \in Nodes
      BY DEF PoolIInv, TypeOK, Connection
    <3>2. QED  BY <2>1, <3>1 DEF OpenPooled, Exists, WillDropSsh, N
  <2>5. QED  BY <2>2, <2>3, <2>4 DEF Serially
<1>3. QED  BY <1>1, <1>2 DEF PoolIInv

LEMMA KeepaliveKeeps ==
  ASSUME PoolIInv, NEW c \in Conns, Keepalive(c)
  PROVE  PoolIInv'
<1>1. /\ UNCHANGED <<scenario, nodes, pool, todo, job>> /\ TypeOK
      /\ conn' = [conn EXCEPT ![c] = Free]
      /\ sshPool' = [n \in Nodes |-> IF sshPool[n] = c THEN None ELSE sshPool[n]]
  BY DEF Keepalive, PoolIInv
<1>2. /\ conn' \in [Conns -> Connection]
      /\ \A d \in Conns : conn'[d].state = "up" => d # c /\ conn'[d] = conn[d]
  BY <1>1, IdleType DEF TypeOK
<1>3. /\ sshPool' \in [Nodes -> Conns \cup {None}]
      /\ \A n \in Nodes : sshPool[n] = None => sshPool'[n] = None
      /\ \A n \in Nodes, d \in Conns : sshPool[n] = d /\ d # c => sshPool'[n] = d
  BY <1>1 DEF TypeOK
<1>4. QED  BY <1>1, <1>2, <1>3, NetworkKeeps

LEMMA BreakKeeps ==
  ASSUME PoolIInv, NEW c \in Conns, Break(c)
  PROVE  PoolIInv'
<1>1. /\ UNCHANGED <<scenario, nodes, pool, sshPool, todo, job>> /\ TypeOK
      /\ conn' = [conn EXCEPT ![c].state = "broken"]
  BY DEF Break, PoolIInv
<1>2. /\ conn' \in [Conns -> Connection]
      /\ \A d \in Conns : conn'[d].state = "up" => conn'[d] = conn[d]
  BY <1>1 DEF TypeOK, Connection
<1>3. sshPool' \in [Nodes -> Conns \cup {None}]
  BY <1>1 DEF TypeOK
<1>4. QED  BY <1>1, <1>2, <1>3, NetworkKeeps

(***************************************************************************)
(* The theorems                                                            *)
(***************************************************************************)
LEMMA PoolInit ==
  ASSUME Init
  PROVE  PoolIInv
<1>1. /\ todo = [w \in Workers |-> <<>>] /\ job = [w \in Workers |-> Idle]
      /\ conn = [c \in Conns |-> Free] /\ pool = [n \in Nodes |-> None]
      /\ sshPool = [n \in Nodes |-> None] /\ scenario \in Scenarios
      /\ nodes \in [Nodes -> {[host |-> h, url |-> h] : h \in Hosts}]
  BY DEF Init
<1>2. Idle \in Jobs /\ Free \in Connection /\ Free.state = "closed"
      /\ <<>> \in Seq(Steps) /\ Len(<<>>) = 0
  BY IdleType
<1>3. \A n \in Nodes : \E h \in Hosts : nodes[n] = [host |-> h, url |-> h]
  BY <1>1
<1>4. nodes \in [Nodes -> [host : Hosts, url : Hosts] \cup {None}]
  <2>1. {[host |-> h, url |-> h] : h \in Hosts} \subseteq
           [host : Hosts, url : Hosts] \cup {None}
    OBVIOUS
  <2>2. QED  BY <1>1
<1>5. TypeOK /\ todo \in [Workers -> Seq(Steps)]
  <2>1. todo \in [Workers -> Seq(Steps)] /\ \A w \in Workers : todo[w] \in Seq(Steps)
    BY <1>1
  <2>2. /\ pool \in [Nodes -> Hosts \cup {None}]
        /\ sshPool \in [Nodes -> Conns \cup {None}]
        /\ conn \in [Conns -> Connection] /\ job \in [Workers -> Jobs]
    BY <1>1, <1>2
  <2>3. QED  BY <1>1, <2>2 DEF TypeOK, Jobs
<1>6. \A w \in Workers : todo[w] = <<>> /\ Len(todo[w]) = 0 /\ job[w] = Idle
  BY <1>1
<1>7. InScript
  <2>1. Rest(Idle.op, <<>>)
    BY <1>2, RestNone DEF Jobs
  <2>2. QED  BY <1>6, <2>1 DEF InScript
<1>8. OneMigration /\ MovesToHost /\ ConnectingCurrent /\ Alone
      /\ NonePooled /\ DialsHost
  <2>1. 0 # 10 /\ ~(0 > 0)
    OBVIOUS
  <2>2. \A w \in Workers : ~(Len(todo[w]) > 0) /\ Len(todo[w]) # 10
    BY <1>6
  <2>3. OneMigration /\ Alone
    BY <2>2 DEF OneMigration, Alone
  <2>4. MovesToHost
    BY <2>2 DEF MovesToHost, Moves
  <2>5. ConnectingCurrent /\ NonePooled /\ DialsHost
    BY <1>6 DEF ConnectingCurrent, NonePooled, DialsHost, At
  <2>6. QED  BY <2>3, <2>4, <2>5
<1>9. UrlsNameHosts
  <2> SUFFICES ASSUME NEW n \in Nodes
               PROVE  nodes[n].url = nodes[n].host
    BY DEF UrlsNameHosts
  <2>1. PICK h \in Hosts : nodes[n] = [host |-> h, url |-> h]
    BY <1>3
  <2>2. QED  BY <2>1
<1>10. ClientsCurrent /\ OpenPooled
  BY <1>1, <1>2 DEF ClientsCurrent, OpenPooled
<1>11. QED  BY <1>5, <1>7, <1>8, <1>9, <1>10 DEF PoolIInv, Serially

LEMMA StepKeeps ==
  ASSUME PoolIInv, NEW w \in Workers, Step(w)
  PROVE  PoolIInv'
<1>1. CASE DialFails(w)
  BY <1>1, FailKeeps DEF DialFails, Plain
<1>2. CASE ConnectFails(w)
  BY <1>2, FailKeeps DEF ConnectFails, Plain
<1>3. QED
  BY <1>1, <1>2, LookupKeeps, ProbeAliveKeeps, ProbeDeadKeeps, DialKeeps,
     StoreKeeps, ConnectStartKeeps, ConnectedKeeps, removeNodeClientKeeps,
     removeSSHClientKeeps, CheckKeeps, SetHostKeeps, SetUrlKeeps, RefreshKeeps,
     DeleteKeeps DEF Step

LEMMA PoolNext ==
  ASSUME PoolIInv, [Next]_vars
  PROVE  PoolIInv'
<1>1. CASE UNCHANGED vars
  <2>1. UNCHANGED <<scenario, nodes, pool, sshPool, conn, todo, job>>
    BY <1>1 DEF vars
  <2>2. /\ conn \in [Conns -> Connection]
        /\ sshPool \in [Nodes -> Conns \cup {None}]
    BY DEF PoolIInv, TypeOK
  <2>3. QED  BY <2>1, <2>2, NetworkKeeps
<1>2. CASE \E w \in Workers : Step(w)
  BY <1>2, StepKeeps
<1>3. ASSUME NEW w \in Workers, NEW op \in Requests, NEW n \in Nodes,
             NEW h \in IF op = "migrate" THEN Hosts ELSE {Free.host},
             Begin(w, op, n, h)
      PROVE  PoolIInv'
  <2>1. h \in Hosts
    BY IdleType DEF Connection
  <2>2. QED  BY <1>3, <2>1, BeginKeeps
<1>4. CASE \E c \in Conns : Keepalive(c) \/ Break(c)
  BY <1>4, KeepaliveKeeps, BreakKeeps
<1>5. QED  BY <1>1, <1>2, <1>3, <1>4 DEF Next

LEMMA InductivePool ==
  Spec => []PoolIInv
<1>1. Init => PoolIInv
  BY PoolInit
<1>2. PoolIInv /\ [Next]_vars => PoolIInv'
  BY PoolNext
<1>3. QED  BY <1>1, <1>2, PTL DEF Spec

\* A promise is a call in the script.
LEMMA PromisesAreCalls ==
  ASSUME PoolIInv, NEW w \in Workers, NEW n \in Nodes
  PROVE  /\ WillDropLxd(w, n) => N(w) = n /\ Contains(todo[w], "dropLxd")
         /\ WillDropSsh(w, n) => N(w) = n /\ Contains(todo[w], "dropSsh")
<1>1. /\ todo[w] \in Seq(Steps) /\ Rest(job[w].op, todo[w])
      /\ Len(todo[w]) \in Nat /\ job[w].op \in Requests
  BY Running
<1>2. ASSUME NEW i \in 1 .. Len(todo[w]), NEW s,
             Called(job[w].op, todo[w], i) = s, s \in {"dropLxd", "dropSsh"}
      PROVE  Contains(todo[w], s)
  <2>1. todo[w][i] = s
    BY <1>1, <1>2 DEF Rest
  <2>2. QED  BY <2>1 DEF Contains
<1>3. ASSUME job[w].op = "migrate", NEW k \in {3, 4}, Len(todo[w]) >= 12 - k
      PROVE  Contains(todo[w], Script("migrate")[k])
  <2>1. PICK m \in Nat : m = Len(todo[w])
    BY <1>1
  <2>2. Len(Script("migrate")) = 11 /\ m <= 11 /\ m >= 12 - k
    BY <1>1, <1>3, <2>1, Scripts, MigrateScript DEF Rest
  <2>3. PICK i \in 1 .. m : 11 - m + i = k
    <3>1. k - 11 + m \in 1 .. m /\ 11 - m + (k - 11 + m) = k
      BY <2>2
    <3>2. QED  BY <3>1
  <2>4. Called(job[w].op, todo[w], i) = Script("migrate")[k]
    BY <1>3, <2>1, <2>2, <2>3 DEF Called
  <2>5. Script("migrate")[k] \in {"dropLxd", "dropSsh"}
    BY Scripts, MigrateScript
  <2>6. QED  BY <1>2, <2>1, <2>4, <2>5
<1>4. WillDropLxd(w, n) => Contains(todo[w], "dropLxd")
  <2>1. CASE job[w].op = "migrate" /\ Len(todo[w]) >= 9
    <3>1. Contains(todo[w], Script("migrate")[3])
      BY <1>3, <2>1
    <3>2. QED  BY <3>1, Scripts, MigrateScript
  <2>2. CASE job[w].op = "remove" /\ Len(todo[w]) = 1
    <3>1. Called(job[w].op, todo[w], 1) = "dropLxd"
      <4>1. /\ Script("remove") = removeNode /\ Len(removeNode) = 2
            /\ 2 - 1 + 1 = 2 /\ removeNode[2] = "dropLxd"
        BY Scripts, ShortScripts
      <4>2. QED  BY <2>2, <4>1 DEF Called
    <3>2. QED  BY <1>2, <2>2, <3>1
  <2>3. QED  BY <2>1, <2>2 DEF WillDropLxd
<1>5. WillDropSsh(w, n) => Contains(todo[w], "dropSsh")
  <2> SUFFICES ASSUME job[w].op = "migrate", Len(todo[w]) >= 8
               PROVE  Contains(todo[w], "dropSsh")
    BY DEF WillDropSsh
  <2>1. Contains(todo[w], Script("migrate")[4])
    BY <1>3
  <2>2. QED  BY <2>1, Scripts, MigrateScript
<1>6. QED  BY <1>4, <1>5 DEF WillDropLxd, WillDropSsh

\* Whatever overlaps, the LXD client of a node leads to the address that the
\* node has, or a goroutine is about to drop it: a client that connected before
\* a migration or a removal does not outlive it (nodes.go:514-545, 987).
THEOREM PoolSafe == Spec => []PoolInv
<1>1. PoolIInv => PoolInv
  <2> SUFFICES ASSUME PoolIInv
               PROVE  LxdCurrent
    BY DEF PoolInv, PoolIInv
  <2>1. QED  BY PromisesAreCalls DEF PoolIInv, ClientsCurrent, Current,
         LxdCurrent
<1>2. QED  BY <1>1, InductivePool, PTL

\* Of requests that do not overlap, every open SSH connection is the pooled one
\* of its node and leads to the node's host, whatever connection breaks and
\* whenever its keepalive notices (nodes.go:549-627).
THEOREM OneConnectionEach == Spec => []OneConnection
<1>1. PoolIInv => OneConnection
  <2> SUFFICES ASSUME PoolIInv, scenario.serial, NEW c \in Conns,
                      conn[c].state = "up", NEW n \in Nodes, n = conn[c].node
               PROVE  /\ sshPool[n] = c
                      /\ \/ ~Exists(n) \/ conn[c].host = nodes[n].host
                         \/ \E w \in Workers :
                               N(w) = n /\ Contains(todo[w], "dropSsh")
    BY DEF OneConnection, PoolIInv, TypeOK, Connection
  <2>1. OpenPooled
    BY DEF PoolIInv, Serially
  <2>2. QED  BY <2>1, PromisesAreCalls DEF OpenPooled
<1>2. QED  BY <1>1, InductivePool, PTL

=============================================================================
