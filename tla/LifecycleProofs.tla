-------------------------- MODULE LifecycleProofs --------------------------
(***************************************************************************)
(* What TLAPS proves of Lifecycle for any names, goroutines and scenarios: *)
(* the records are true when requests and checks do not overlap, whatever  *)
(* fails; and nothing is orphaned or out of reach when nothing fails,      *)
(* whatever checks run beside one request.                                 *)
(*                                                                         *)
(* Both rest on a table of the places in the scripts of the handlers: what *)
(* is left to do says where the container, its rules and its record are.   *)
(***************************************************************************)
EXTENDS Lifecycle, TLAPS

(***************************************************************************)
(* The places, named after the calls that are left                         *)
(***************************************************************************)
One(s) == <<s>>
start_forward_created == <<"start", "forward", "created">>
forward_created == <<"forward", "created">>
stop_recreate == <<"stop">> \o recreate
unforward_find == <<"unforward", "find">>
delete_unregister_nodeUnhealthy == <<"delete", "unregister", "nodeUnhealthy">>
unregister_nodeUnhealthy == <<"unregister", "nodeUnhealthy">>
delete_setRunning == <<"delete">> \o RebuildFailed
unforward_unregister_delete == <<"unforward", "unregister", "delete">>
unregister_delete == <<"unregister", "delete">>
unforward_unregister_stop_delete ==
  <<"unforward", "unregister", "stop", "delete">>
unregister_stop_delete == <<"unregister", "stop", "delete">>
stop_delete == <<"stop", "delete">>
unforward_delete_unregister == <<"unforward", "delete", "unregister">>
delete_unregister == <<"delete", "unregister">>
unforward_stop_delete_unregister ==
  <<"unforward", "stop", "delete", "unregister">>
stop_delete_unregister == <<"stop", "delete", "unregister">>
nodeClear_syncDNAT == <<"nodeClear", "syncDNAT">>

Creating == {createContainerOnNode, start_forward_created, forward_created,
             One("created")}
CreateGivesUp == {delete_unregister_nodeUnhealthy, unregister_nodeUnhealthy,
                  One("nodeUnhealthy")}
Rebuilding == {unforward_find, One("find"), recreate, stop_recreate,
               delete_setRunning, One("setRunning")} \cup Creating

Places(op) ==
  CASE op = "create"  -> {createContainerCore} \cup Creating \cup CreateGivesUp
    [] op = "start"   -> {handleStart, One("setRunning")}
    [] op = "stop"    -> {handleStop, One("setStopped")}
    [] op = "restart" -> {handleRestart, handleStart, One("setRunning")}
    [] op = "delete"  -> {One("find"), One("unregister"), One("delete"),
                          unforward_unregister_delete, unregister_delete,
                          unforward_unregister_stop_delete,
                          unregister_stop_delete, stop_delete}
    [] op = "destroy" -> {One("find"), One("unregister"),
                          unforward_delete_unregister, delete_unregister,
                          unforward_stop_delete_unregister,
                          stop_delete_unregister}
    [] op = "rebuild" -> {handleRebuild} \cup Rebuilding
    [] op = "get"     -> {One("look"), One("markUnhealthy"), One("exec"),
                          One("clearHealth")}
    [] op = "checkNode" -> {One("ping"), nodeClear_syncDNAT, One("syncDNAT"),
                            One("nodeClear"), One("nodeLost")}
    [] op = "checkContainer" -> {One("askNode"), One("markLost"),
                                 One("markUnhealthy"), One("inspect"),
                                 One("setStopped"), One("exec"),
                                 One("clearHealth")}
    [] OTHER -> {}

Jobs == Requests \cup Checks \cup {"none"}

\* The sequence q begins with s and goes on with rest.
Is(q, s, rest) ==
  /\ q \in Seq(Steps) /\ q # <<>> /\ Head(q) = s /\ Tail(q) = rest

\* One call before a sequence.
LEMMA ConsIs ==
  ASSUME NEW x \in Steps, NEW s \in Seq(Steps)
  PROVE  Is(<<x>> \o s, x, s)
<1> DEFINE c == <<x>> \o s
<1>1. c \in Seq(Steps) /\ Len(c) = Len(s) + 1 /\ c[1] = x
  OBVIOUS
<1>2. \A i \in 1 .. Len(s) : c[i + 1] = s[i]
  OBVIOUS
<1> HIDE DEF c
<1>3. c # <<>> /\ Head(c) = x /\ Tail(c) \in Seq(Steps) /\ Len(Tail(c)) = Len(s)
  BY <1>1
<1>4. ASSUME NEW i \in 1 .. Len(s) PROVE Tail(c)[i] = s[i]
  <2>1. i \in 1 .. Len(c) - 1 /\ Tail(c)[i] = c[i + 1]
    BY <1>1
  <2>2. QED  BY <1>2, <2>1
<1>5. Tail(c) = s
  BY <1>3, <1>4
<1>6. QED  BY DEF Is

\* What each place begins with, and what it goes on with.
LEMMA Singles == \A s \in Steps : Is(One(s), s, <<>>)
BY DEF Is, One

LEMMA CreateIs ==
  /\ Is(createContainerOnNode, "create", start_forward_created)
  /\ Is(start_forward_created, "start", forward_created)
  /\ Is(forward_created, "forward", One("created"))
  /\ Is(createContainerCore, "register", createContainerOnNode)
  /\ Is(delete_unregister_nodeUnhealthy, "delete", unregister_nodeUnhealthy)
  /\ Is(unregister_nodeUnhealthy, "unregister", One("nodeUnhealthy"))
<1>1. Is(createContainerOnNode, "create", start_forward_created)
  BY DEF Is, createContainerOnNode, start_forward_created, Steps
<1>2. Is(start_forward_created, "start", forward_created)
  BY DEF Is, start_forward_created, forward_created, Steps
<1>3. Is(forward_created, "forward", One("created"))
  BY DEF Is, forward_created, One, Steps
<1>4. Is(createContainerCore, "register", createContainerOnNode)
  <2>1. createContainerOnNode \in Seq(Steps) /\ "register" \in Steps
    BY <1>1 DEF Is, Steps
  <2>2. QED  BY <2>1, ConsIs DEF createContainerCore
<1>5. Is(delete_unregister_nodeUnhealthy, "delete", unregister_nodeUnhealthy)
  BY DEF Is, delete_unregister_nodeUnhealthy, unregister_nodeUnhealthy, Steps
<1>6. Is(unregister_nodeUnhealthy, "unregister", One("nodeUnhealthy"))
  BY DEF Is, unregister_nodeUnhealthy, One, Steps
<1>7. QED  BY <1>1, <1>2, <1>3, <1>4, <1>5, <1>6

LEMMA StartStopIs ==
  /\ Is(handleStart, "start", One("setRunning"))
  /\ Is(handleStop, "stop", One("setStopped"))
  /\ Is(handleRestart, "stop", handleStart)
  /\ Is(nodeClear_syncDNAT, "nodeClear", One("syncDNAT"))
<1>1. Is(handleStart, "start", One("setRunning"))
  BY DEF Is, handleStart, One, Steps
<1>2. Is(handleStop, "stop", One("setStopped"))
  BY DEF Is, handleStop, One, Steps
<1>3. Is(handleRestart, "stop", handleStart)
  BY DEF Is, handleRestart, handleStart, Steps
<1>4. Is(nodeClear_syncDNAT, "nodeClear", One("syncDNAT"))
  BY DEF Is, nodeClear_syncDNAT, One, Steps
<1>5. QED  BY <1>1, <1>2, <1>3, <1>4

LEMMA DeleteIs ==
  /\ Is(unforward_unregister_delete, "unforward", unregister_delete)
  /\ Is(unregister_delete, "unregister", One("delete"))
  /\ Is(unforward_unregister_stop_delete, "unforward", unregister_stop_delete)
  /\ Is(unregister_stop_delete, "unregister", stop_delete)
  /\ Is(stop_delete, "stop", One("delete"))
<1>1. Is(unforward_unregister_delete, "unforward", unregister_delete)
  BY DEF Is, unforward_unregister_delete, unregister_delete, Steps
<1>2. Is(unregister_delete, "unregister", One("delete"))
  BY DEF Is, unregister_delete, One, Steps
<1>3. Is(unforward_unregister_stop_delete, "unforward", unregister_stop_delete)
  BY DEF Is, unforward_unregister_stop_delete, unregister_stop_delete, Steps
<1>4. Is(unregister_stop_delete, "unregister", stop_delete)
  BY DEF Is, unregister_stop_delete, stop_delete, Steps
<1>5. Is(stop_delete, "stop", One("delete"))
  BY DEF Is, stop_delete, One, Steps
<1>6. QED  BY <1>1, <1>2, <1>3, <1>4, <1>5

LEMMA DestroyIs ==
  /\ Is(unforward_delete_unregister, "unforward", delete_unregister)
  /\ Is(delete_unregister, "delete", One("unregister"))
  /\ Is(unforward_stop_delete_unregister, "unforward", stop_delete_unregister)
  /\ Is(stop_delete_unregister, "stop", delete_unregister)
<1>1. Is(unforward_delete_unregister, "unforward", delete_unregister)
  BY DEF Is, unforward_delete_unregister, delete_unregister, Steps
<1>2. Is(delete_unregister, "delete", One("unregister"))
  BY DEF Is, delete_unregister, One, Steps
<1>3. Is(unforward_stop_delete_unregister, "unforward", stop_delete_unregister)
  BY DEF Is, unforward_stop_delete_unregister, stop_delete_unregister, Steps
<1>4. Is(stop_delete_unregister, "stop", delete_unregister)
  BY DEF Is, stop_delete_unregister, delete_unregister, Steps
<1>5. QED  BY <1>1, <1>2, <1>3, <1>4

LEMMA RebuildIs ==
  /\ Is(handleRebuild, "setCreating", unforward_find)
  /\ Is(unforward_find, "unforward", One("find"))
  /\ Is(recreate, "delete", createContainerOnNode)
  /\ Is(stop_recreate, "stop", recreate)
  /\ Is(delete_setRunning, "delete", One("setRunning"))
<1>1. Is(handleRebuild, "setCreating", unforward_find)
  BY DEF Is, handleRebuild, unforward_find, Steps
<1>2. Is(unforward_find, "unforward", One("find"))
  BY DEF Is, unforward_find, One, Steps
<1>3. Is(recreate, "delete", createContainerOnNode)
  <2>1. createContainerOnNode \in Seq(Steps) /\ "delete" \in Steps
    BY CreateIs DEF Is
  <2>2. QED  BY <2>1, ConsIs DEF recreate
<1>4. Is(stop_recreate, "stop", recreate)
  <2>1. recreate \in Seq(Steps) /\ "stop" \in Steps
    BY <1>3 DEF Is, Steps
  <2>2. QED  BY <2>1, ConsIs DEF stop_recreate
<1>5. Is(delete_setRunning, "delete", One("setRunning"))
  <2>1. RebuildFailed \in Seq(Steps) /\ "delete" \in Steps
    BY DEF RebuildFailed, Steps
  <2>2. Is(delete_setRunning, "delete", RebuildFailed)
    BY <2>1, ConsIs DEF delete_setRunning
  <2>3. QED  BY <2>2 DEF RebuildFailed, One
<1>6. QED  BY <1>1, <1>2, <1>3, <1>4, <1>5

LEMMA Elems ==
  /\ \A op : op \in Requests <=>
        op \in {"create", "start", "stop", "restart", "delete", "destroy",
               "rebuild", "get"}
  /\ \A op : op \in Checks <=> op \in {"checkNode", "checkContainer"}
BY DEF Requests, Checks

\* Every place has an operation that is somewhere.
LEMMA PlaceOps ==
  ASSUME NEW op \in Jobs, NEW q \in Places(op)
  PROVE  op \in Requests \cup Checks
<1>1. CASE op = "none"
  BY <1>1 DEF Places
<1>2. QED  BY <1>1 DEF Jobs

\* A goroutine stays in the places of its operation, or ends.
LeftOf(op) == Places(op) \cup {<<>>}
LEMMA Onward ==
  ASSUME NEW op \in Jobs, NEW q \in Places(op)
  PROVE  /\ q \in Seq(Steps) /\ q # <<>> /\ Head(q) \in Steps
         /\ Tail(q) \in LeftOf(op)
         /\ OnError(op, Head(q), Tail(q)) \in LeftOf(op)
<1> DEFINE Goal == /\ q \in Seq(Steps) /\ q # <<>> /\ Head(q) \in Steps
                   /\ Tail(q) \in LeftOf(op)
                   /\ OnError(op, Head(q), Tail(q)) \in LeftOf(op)
<1>0. \A s \in Seq(Steps) : s # <<>> => Head(s) \in Steps
  OBVIOUS
<1>1. CASE op = "create"
  <2>1. /\ \A r : OnError("create", "create", r) = unregister_nodeUnhealthy
        /\ \A r : OnError("create", "start", r)
                   = delete_unregister_nodeUnhealthy
        /\ \A s, r : s \notin {"create", "start"} => OnError("create", s, r) = r
    BY DEF OnError, unregister_nodeUnhealthy, delete_unregister_nodeUnhealthy
  <2>2. /\ Is(One("created"), "created", <<>>)
        /\ Is(One("nodeUnhealthy"), "nodeUnhealthy", <<>>)
    BY Singles DEF Steps
  <2>3. \E s, r : Is(q, s, r)
    BY <1>1, <2>2, CreateIs DEF Places, Creating, CreateGivesUp
  <2>4. Tail(q) \in LeftOf(op)
    BY <1>1, <2>2, CreateIs DEF Is, Places, LeftOf, Creating, CreateGivesUp
  <2>5. OnError(op, Head(q), Tail(q)) \in LeftOf(op)
    <3>1. CASE Head(q) = "create"
      BY <1>1, <2>1, <3>1 DEF Places, LeftOf, CreateGivesUp
    <3>2. CASE Head(q) = "start"
      BY <1>1, <2>1, <3>2 DEF Places, LeftOf, CreateGivesUp
    <3>3. CASE Head(q) \notin {"create", "start"}
      <4>1. OnError("create", Head(q), Tail(q)) = Tail(q)
        BY <2>1, <3>3
      <4>2. QED  BY <1>1, <2>4, <4>1
    <3>4. QED  BY <3>1, <3>2, <3>3
  <2>6. QED  BY <2>3, <2>4, <2>5 DEF Is
<1>2. CASE op \in {"start", "stop", "restart"}
  <2>1. \A s, r : OnError(op, s, r) = <<>>
    BY <1>2 DEF OnError
  <2>2. /\ Is(One("setRunning"), "setRunning", <<>>)
        /\ Is(One("setStopped"), "setStopped", <<>>)
    BY Singles DEF Steps
  <2>3. QED  BY <1>0, <1>2, <2>1, <2>2, StartStopIs DEF Is, Places, LeftOf
<1>3. CASE op = "delete"
  <2>1. /\ \A r : OnError("delete", "find", r) = One("unregister")
        /\ \A r : OnError("delete", "stop", r) = <<>>
        /\ \A r : OnError("delete", "delete", r) = <<>>
        /\ \A s, r : s \notin {"find", "stop", "delete"} =>
              OnError("delete", s, r) = r
    BY DEF OnError, One
  <2>2. /\ Is(One("find"), "find", <<>>) /\ Is(One("delete"), "delete", <<>>)
        /\ Is(One("unregister"), "unregister", <<>>)
    BY Singles DEF Steps
  <2>3. \E s, r : Is(q, s, r)
    BY <1>3, <2>2, DeleteIs DEF Places
  <2>4. Tail(q) \in LeftOf(op)
    BY <1>3, <2>2, DeleteIs DEF Is, Places, LeftOf
  <2>5. OnError(op, Head(q), Tail(q)) \in LeftOf(op)
    <3>1. CASE Head(q) = "find"
      BY <1>3, <2>1, <3>1 DEF Places, LeftOf
    <3>2. CASE Head(q) = "stop"
      BY <1>3, <2>1, <3>2 DEF LeftOf
    <3>3. CASE Head(q) = "delete"
      BY <1>3, <2>1, <3>3 DEF LeftOf
    <3>4. CASE Head(q) \notin {"find", "stop", "delete"}
      <4>1. OnError("delete", Head(q), Tail(q)) = Tail(q)
        BY <2>1, <3>4
      <4>2. QED  BY <1>3, <2>4, <4>1
    <3>5. QED  BY <3>1, <3>2, <3>3, <3>4
  <2>6. QED  BY <2>3, <2>4, <2>5 DEF Is
<1>4. CASE op = "destroy"
  <2>1. /\ \A r : OnError("destroy", "find", r) = One("unregister")
        /\ \A s, r : s # "find" => OnError("destroy", s, r) = r
    BY DEF OnError, One
  <2>2. /\ Is(One("find"), "find", <<>>)
        /\ Is(One("unregister"), "unregister", <<>>)
    BY Singles DEF Steps
  <2>3. \E s, r : Is(q, s, r)
    BY <1>4, <2>2, DestroyIs DEF Places
  <2>4. Tail(q) \in LeftOf(op)
    BY <1>4, <2>2, DestroyIs DEF Is, Places, LeftOf
  <2>5. OnError(op, Head(q), Tail(q)) \in LeftOf(op)
    <3>1. CASE Head(q) = "find"
      BY <1>4, <2>1, <3>1 DEF Places, LeftOf
    <3>2. CASE Head(q) \notin {"find"}
      <4>1. OnError("destroy", Head(q), Tail(q)) = Tail(q)
        BY <2>1, <3>2
      <4>2. QED  BY <1>4, <2>4, <4>1
    <3>3. QED  BY <3>1, <3>2
  <2>6. QED  BY <2>3, <2>4, <2>5 DEF Is
<1>5. CASE op = "rebuild"
  <2>1. /\ \A r : OnError("rebuild", "find", r) = createContainerOnNode
        /\ \A r : OnError("rebuild", "create", r) = One("setRunning")
        /\ \A r : OnError("rebuild", "start", r) = delete_setRunning
        /\ \A s, r : s \notin {"find", "create", "start"} =>
              OnError("rebuild", s, r) = r
    BY DEF OnError, One, RebuildFailed, delete_setRunning
  <2>2. /\ Is(One("created"), "created", <<>>) /\ Is(One("find"), "find", <<>>)
        /\ Is(One("setRunning"), "setRunning", <<>>)
    BY Singles DEF Steps
  <2>3. \E s, r : Is(q, s, r)
    BY <1>5, <2>2, CreateIs, RebuildIs DEF Places, Creating, Rebuilding
  <2>4. Tail(q) \in LeftOf(op)
    BY <1>5, <2>2, CreateIs, RebuildIs DEF Is, Places, LeftOf, Creating,
       Rebuilding
  <2>5. OnError(op, Head(q), Tail(q)) \in LeftOf(op)
    <3>1. CASE Head(q) = "find"
      BY <1>5, <2>1, <3>1 DEF Places, LeftOf, Creating, Rebuilding
    <3>2. CASE Head(q) = "create"
      BY <1>5, <2>1, <3>2 DEF Places, LeftOf, Rebuilding
    <3>3. CASE Head(q) = "start"
      BY <1>5, <2>1, <3>3 DEF Places, LeftOf, Rebuilding
    <3>4. CASE Head(q) \notin {"find", "create", "start"}
      <4>1. OnError("rebuild", Head(q), Tail(q)) = Tail(q)
        BY <2>1, <3>4
      <4>2. QED  BY <1>5, <2>4, <4>1
    <3>5. QED  BY <3>1, <3>2, <3>3, <3>4
  <2>6. QED  BY <2>3, <2>4, <2>5 DEF Is
<1>6. CASE op \in {"get", "checkNode", "checkContainer"}
  <2>1. \A s, r : OnError(op, s, r) = r
    BY <1>6 DEF OnError
  <2>2. \A s \in {"look", "markUnhealthy", "exec", "clearHealth", "ping",
                   "syncDNAT", "nodeClear", "nodeLost", "askNode", "markLost",
                   "inspect", "setStopped"} : Is(One(s), s, <<>>)
    BY Singles DEF Steps
  <2>3. \E s, r : Is(q, s, r)
    BY <1>6, <2>2, StartStopIs DEF Places
  <2>4. Tail(q) \in LeftOf(op)
    BY <1>6, <2>2, StartStopIs DEF Is, Places, LeftOf
  <2>5. OnError(op, Head(q), Tail(q)) = Tail(q)
    BY <2>1
  <2>6. QED  BY <1>0, <2>3, <2>4, <2>5 DEF Is
<1>7. QED  BY <1>1, <1>2, <1>3, <1>4, <1>5, <1>6, PlaceOps, Elems

LEMMA ScriptPlaces ==
  ASSUME NEW op \in Requests \cup Checks
  PROVE  Script(op) \in Places(op)
BY Elems DEF Script, Places, One

\* A removal goes on in a place of its own.
LEMMA FoundPlaces ==
  ASSUME NEW op \in {"delete", "destroy", "rebuild"}, NEW status
  PROVE  Found(op, status) \in Places(op)
BY DEF Found, Places, handleDelete, destroyContainer, cleanupContainerLXD,
   unforward_unregister_delete, unforward_unregister_stop_delete,
   unforward_delete_unregister, unforward_stop_delete_unregister, Rebuilding,
   stop_recreate

\* A place of an operation, with the call that is next and what follows it.
Here(q, place, s, rest) == q = place /\ Head(q) = s /\ Tail(q) = rest
LEMMA CreatePlaces ==
  ASSUME NEW q \in Places("create")
  PROVE  \/ Here(q, createContainerCore, "register", createContainerOnNode)
         \/ Here(q, createContainerOnNode, "create", start_forward_created)
         \/ Here(q, start_forward_created, "start", forward_created)
         \/ Here(q, forward_created, "forward", One("created"))
         \/ Here(q, One("created"), "created", <<>>)
         \/ Here(q, delete_unregister_nodeUnhealthy, "delete",
                  unregister_nodeUnhealthy)
         \/ Here(q, unregister_nodeUnhealthy, "unregister",
                  One("nodeUnhealthy"))
         \/ Here(q, One("nodeUnhealthy"), "nodeUnhealthy", <<>>)
<1>1. Is(One("created"), "created", <<>>)
  BY Singles DEF Steps
<1>2. Is(One("nodeUnhealthy"), "nodeUnhealthy", <<>>)
  BY Singles DEF Steps
<1>3. q \in {createContainerCore, createContainerOnNode, start_forward_created,
             forward_created, One("created"), delete_unregister_nodeUnhealthy,
             unregister_nodeUnhealthy, One("nodeUnhealthy")}
  BY DEF Places, Creating, CreateGivesUp
<1>4. QED  BY <1>1, <1>2, <1>3, CreateIs DEF Is, Here

LEMMA StartPlaces ==
  ASSUME NEW q \in Places("start")
  PROVE  \/ Here(q, handleStart, "start", One("setRunning"))
         \/ Here(q, One("setRunning"), "setRunning", <<>>)
<1>1. \A s \in Steps : Is(One(s), s, <<>>)
  BY Singles
<1>2. QED  BY <1>1, StartStopIs DEF Is, Here, Places, Steps

LEMMA StopPlaces ==
  ASSUME NEW q \in Places("stop")
  PROVE  \/ Here(q, handleStop, "stop", One("setStopped"))
         \/ Here(q, One("setStopped"), "setStopped", <<>>)
<1>1. \A s \in Steps : Is(One(s), s, <<>>)
  BY Singles
<1>2. QED  BY <1>1, StartStopIs DEF Is, Here, Places, Steps

LEMMA RestartPlaces ==
  ASSUME NEW q \in Places("restart")
  PROVE  \/ Here(q, handleRestart, "stop", handleStart)
         \/ Here(q, handleStart, "start", One("setRunning"))
         \/ Here(q, One("setRunning"), "setRunning", <<>>)
<1>1. Is(One("setRunning"), "setRunning", <<>>)
  BY Singles DEF Steps
<1>2. q \in {handleRestart, handleStart, One("setRunning")}
  BY DEF Places
<1>3. QED  BY <1>1, <1>2, StartStopIs DEF Is, Here

LEMMA DeletePlaces ==
  ASSUME NEW q \in Places("delete")
  PROVE  \/ Here(q, One("find"), "find", <<>>)
         \/ Here(q, One("unregister"), "unregister", <<>>)
         \/ Here(q, One("delete"), "delete", <<>>)
         \/ Here(q, unforward_unregister_delete, "unforward", unregister_delete)
         \/ Here(q, unregister_delete, "unregister", One("delete"))
         \/ Here(q, unforward_unregister_stop_delete, "unforward",
                  unregister_stop_delete)
         \/ Here(q, unregister_stop_delete, "unregister", stop_delete)
         \/ Here(q, stop_delete, "stop", One("delete"))
<1>1. Is(One("find"), "find", <<>>)
  BY Singles DEF Steps
<1>2. Is(One("unregister"), "unregister", <<>>)
  BY Singles DEF Steps
<1>3. Is(One("delete"), "delete", <<>>)
  BY Singles DEF Steps
<1>4. q \in {One("find"), One("unregister"), One("delete"),
             unforward_unregister_delete, unregister_delete,
             unforward_unregister_stop_delete, unregister_stop_delete,
             stop_delete}
  BY DEF Places
<1>5. QED  BY <1>1, <1>2, <1>3, <1>4, DeleteIs DEF Is, Here

LEMMA DestroyPlaces ==
  ASSUME NEW q \in Places("destroy")
  PROVE  \/ Here(q, One("find"), "find", <<>>)
         \/ Here(q, One("unregister"), "unregister", <<>>)
         \/ Here(q, unforward_delete_unregister, "unforward", delete_unregister)
         \/ Here(q, delete_unregister, "delete", One("unregister"))
         \/ Here(q, unforward_stop_delete_unregister, "unforward",
                  stop_delete_unregister)
         \/ Here(q, stop_delete_unregister, "stop", delete_unregister)
<1>1. Is(One("find"), "find", <<>>)
  BY Singles DEF Steps
<1>2. Is(One("unregister"), "unregister", <<>>)
  BY Singles DEF Steps
<1>3. q \in {One("find"), One("unregister"), unforward_delete_unregister,
             delete_unregister, unforward_stop_delete_unregister,
             stop_delete_unregister}
  BY DEF Places
<1>4. QED  BY <1>1, <1>2, <1>3, DestroyIs DEF Is, Here

LEMMA RebuildPlaces ==
  ASSUME NEW q \in Places("rebuild")
  PROVE  \/ Here(q, handleRebuild, "setCreating", unforward_find)
         \/ Here(q, unforward_find, "unforward", One("find"))
         \/ Here(q, One("find"), "find", <<>>)
         \/ Here(q, recreate, "delete", createContainerOnNode)
         \/ Here(q, stop_recreate, "stop", recreate)
         \/ Here(q, delete_setRunning, "delete", One("setRunning"))
         \/ Here(q, One("setRunning"), "setRunning", <<>>)
         \/ Here(q, createContainerOnNode, "create", start_forward_created)
         \/ Here(q, start_forward_created, "start", forward_created)
         \/ Here(q, forward_created, "forward", One("created"))
         \/ Here(q, One("created"), "created", <<>>)
<1>1. Is(One("find"), "find", <<>>)
  BY Singles DEF Steps
<1>2. Is(One("setRunning"), "setRunning", <<>>)
  BY Singles DEF Steps
<1>3. Is(One("created"), "created", <<>>)
  BY Singles DEF Steps
<1>4. q \in {handleRebuild, unforward_find, One("find"), recreate,
             stop_recreate, delete_setRunning, One("setRunning"),
             createContainerOnNode, start_forward_created, forward_created,
             One("created")}
  BY DEF Places, Creating, Rebuilding
<1>5. /\ Here(handleRebuild, handleRebuild, "setCreating", unforward_find)
      /\ Here(unforward_find, unforward_find, "unforward", One("find"))
      /\ Here(One("find"), One("find"), "find", <<>>)
      /\ Here(recreate, recreate, "delete", createContainerOnNode)
      /\ Here(stop_recreate, stop_recreate, "stop", recreate)
      /\ Here(delete_setRunning, delete_setRunning, "delete", One("setRunning"))
      /\ Here(One("setRunning"), One("setRunning"), "setRunning", <<>>)
  BY <1>1, <1>2, RebuildIs DEF Is, Here
<1>6. /\ Here(createContainerOnNode, createContainerOnNode, "create",
              start_forward_created)
      /\ Here(start_forward_created, start_forward_created, "start",
              forward_created)
      /\ Here(forward_created, forward_created, "forward", One("created"))
      /\ Here(One("created"), One("created"), "created", <<>>)
  BY <1>3, CreateIs DEF Is, Here
<1>7. QED  BY <1>4, <1>5, <1>6

LEMMA GetPlaces ==
  ASSUME NEW q \in Places("get")
  PROVE  \/ Here(q, One("look"), "look", <<>>)
         \/ Here(q, One("markUnhealthy"), "markUnhealthy", <<>>)
         \/ Here(q, One("exec"), "exec", <<>>)
         \/ Here(q, One("clearHealth"), "clearHealth", <<>>)
<1>1. \A s \in Steps : Is(One(s), s, <<>>)
  BY Singles
<1>2. QED  BY <1>1 DEF Is, Here, Places, Steps

LEMMA CheckNodePlaces ==
  ASSUME NEW q \in Places("checkNode")
  PROVE  \/ Here(q, nodeClear_syncDNAT, "nodeClear", One("syncDNAT"))
         \/ Here(q, One("ping"), "ping", <<>>)
         \/ Here(q, One("syncDNAT"), "syncDNAT", <<>>)
         \/ Here(q, One("nodeClear"), "nodeClear", <<>>)
         \/ Here(q, One("nodeLost"), "nodeLost", <<>>)
<1>1. Is(One("ping"), "ping", <<>>)
  BY Singles DEF Steps
<1>2. Is(One("syncDNAT"), "syncDNAT", <<>>)
  BY Singles DEF Steps
<1>3. Is(One("nodeClear"), "nodeClear", <<>>)
  BY Singles DEF Steps
<1>4. Is(One("nodeLost"), "nodeLost", <<>>)
  BY Singles DEF Steps
<1>5. q \in {nodeClear_syncDNAT, One("ping"), One("syncDNAT"), One("nodeClear"),
             One("nodeLost")}
  BY DEF Places
<1>6. QED  BY <1>1, <1>2, <1>3, <1>4, <1>5, StartStopIs DEF Is, Here

LEMMA CheckContainerPlaces ==
  ASSUME NEW q \in Places("checkContainer")
  PROVE  \/ Here(q, One("askNode"), "askNode", <<>>)
         \/ Here(q, One("markLost"), "markLost", <<>>)
         \/ Here(q, One("markUnhealthy"), "markUnhealthy", <<>>)
         \/ Here(q, One("inspect"), "inspect", <<>>)
         \/ Here(q, One("setStopped"), "setStopped", <<>>)
         \/ Here(q, One("exec"), "exec", <<>>)
         \/ Here(q, One("clearHealth"), "clearHealth", <<>>)
<1>1. Is(One("askNode"), "askNode", <<>>)
  BY Singles DEF Steps
<1>2. Is(One("markLost"), "markLost", <<>>)
  BY Singles DEF Steps
<1>3. Is(One("markUnhealthy"), "markUnhealthy", <<>>)
  BY Singles DEF Steps
<1>4. Is(One("inspect"), "inspect", <<>>)
  BY Singles DEF Steps
<1>5. Is(One("setStopped"), "setStopped", <<>>)
  BY Singles DEF Steps
<1>6. Is(One("exec"), "exec", <<>>)
  BY Singles DEF Steps
<1>7. Is(One("clearHealth"), "clearHealth", <<>>)
  BY Singles DEF Steps
<1>8. q \in {One("askNode"), One("markLost"), One("markUnhealthy"),
             One("inspect"), One("setStopped"), One("exec"), One("clearHealth")}
  BY DEF Places
<1>9. QED  BY <1>1, <1>2, <1>3, <1>4, <1>5, <1>6, <1>7, <1>8 DEF Is, Here


(***************************************************************************)
(* Types                                                                   *)
(***************************************************************************)
PlacesOK == \A g \in Goroutines : todo[g] \in LeftOf(Op(g))
RecordTypes ==
  /\ registered \subseteq Names
  /\ state \in [Names -> {"creating", "running", "stopped"}]
  /\ health \in [Names -> {"", "unhealthy", "lost"}]
HostTypes ==
  /\ lxd \in [Names -> {"none", "Stopped", "Running"}]
  /\ mute \subseteq Names /\ rule \subseteq Names
  /\ fails \in [Names -> 0 .. stateMaxFails]
  /\ nodeUp \in BOOLEAN /\ nodeHealth \in {"", "unhealthy", "lost"}
GoTypes ==
  /\ scenario \in Scenarios
  /\ todo \in [Goroutines -> Seq(Steps)]
  /\ job \in [Goroutines -> [op : Jobs, name : Names]]
  /\ PlacesOK
TInv == RecordTypes /\ HostTypes /\ GoTypes

LEMMA TInvTypes == TInv => TypeOK
BY DEF TInv, RecordTypes, HostTypes, GoTypes, TypeOK, Jobs

LEMMA EmptyIs == \A op : <<>> \in LeftOf(op) /\ <<>> \in Seq(Steps)
BY DEF LeftOf

LEMMA NextSeq ==
  ASSUME NEW op \in Jobs, NEW q \in LeftOf(op)
  PROVE  q \in Seq(Steps)
BY Onward, EmptyIs DEF LeftOf

LEMMA AtPlace ==
  ASSUME TInv, NEW g \in Goroutines, NEW s, At(g, s)
  PROVE  /\ todo[g] \in Places(Op(g)) /\ Op(g) \in Jobs /\ N(g) \in Names
         /\ Head(todo[g]) = s
BY DEF TInv, GoTypes, PlacesOK, LeftOf, At, Op, N

\* A step of g leaves it in a place of its operation.
LEMMA ThenTypes ==
  ASSUME TInv, NEW g \in Goroutines, NEW rest \in LeftOf(Op(g)), Then(g, rest)
  PROVE  /\ GoTypes' /\ todo'[g] = rest
         /\ \A h \in Goroutines : h # g => todo'[h] = todo[h]
         /\ UNCHANGED <<job, scenario>>
<1>1. rest \in Seq(Steps)
  BY NextSeq DEF TInv, GoTypes, Op
<1>2. /\ todo' = [todo EXCEPT ![g] = rest] /\ job' = job /\ scenario' = scenario
      /\ todo \in [Goroutines -> Seq(Steps)]
  BY DEF Then, TInv, GoTypes
<1>3. /\ todo' \in [Goroutines -> Seq(Steps)] /\ todo'[g] = rest
      /\ \A h \in Goroutines : h # g => todo'[h] = todo[h]
  BY <1>1, <1>2
<1>4. PlacesOK'
  BY <1>2 DEF PlacesOK, TInv, GoTypes, Op
<1>5. QED  BY <1>2, <1>3, <1>4 DEF TInv, GoTypes

LEMMA ContinueTypes ==
  ASSUME TInv, NEW g \in Goroutines, NEW s, At(g, s), Continue(g)
  PROVE  /\ GoTypes' /\ todo'[g] = Tail(todo[g])
         /\ \A h \in Goroutines : h # g => todo'[h] = todo[h]
         /\ UNCHANGED <<job, scenario>>
<1>1. Tail(todo[g]) \in LeftOf(Op(g))
  BY AtPlace, Onward
<1>2. QED  BY <1>1, ThenTypes DEF Continue

LEMMA FailTypes ==
  ASSUME TInv, NEW g \in Goroutines, NEW s, At(g, s), Fail(g)
  PROVE  /\ GoTypes' /\ todo'[g] = OnError(Op(g), s, Tail(todo[g]))
         /\ \A h \in Goroutines : h # g => todo'[h] = todo[h]
         /\ UNCHANGED <<job, scenario>>
<1>1. OnError(Op(g), Head(todo[g]), Tail(todo[g])) \in LeftOf(Op(g))
  BY AtPlace, Onward
<1>2. s = Head(todo[g])
  BY DEF At
<1>3. QED  BY <1>1, <1>2, ThenTypes DEF Fail

\* Which operation is at a call that only one or a few make.
LEMMA HeadOps ==
  ASSUME NEW op \in Jobs, NEW q \in Places(op), NEW s, Head(q) = s
  PROVE  /\ s = "ping" => op = "checkNode"
         /\ s \in {"askNode", "inspect", "markLost"} => op = "checkContainer"
         /\ s = "look" => op = "get"
         /\ s \in {"markUnhealthy", "exec", "clearHealth"} =>
               op \in {"get", "checkContainer"}
         /\ s = "find" => op \in {"delete", "destroy", "rebuild"}
         /\ s = "setStopped" => op \in {"stop", "checkContainer"}
         /\ s = "setRunning" => op \in {"start", "restart", "rebuild"}
         /\ s \in {"create", "start", "stop", "delete"} =>
               op \in Requests \ {"get"}
<1>1. q \in Places(op) /\ op \in Jobs /\ Head(q) = s
  OBVIOUS
<1>2. /\ op = "create" =>
           s \in {"register", "create", "start", "forward", "created", "delete",
                 "unregister", "nodeUnhealthy"}
      /\ op = "stop" => s \in {"stop", "setStopped"}
      /\ op \in {"start", "restart"} => s \in {"stop", "start", "setRunning"}
  BY CreatePlaces, StartPlaces, StopPlaces, RestartPlaces DEF Here
<1>3. op \in {"delete", "destroy"} =>
        s \in {"find", "unforward", "unregister", "stop", "delete"}
  BY DeletePlaces, DestroyPlaces DEF Here
<1>4. op = "rebuild" =>
        s \in {"setCreating", "unforward", "find", "stop", "delete", "create",
              "start", "forward", "created", "setRunning"}
  BY RebuildPlaces DEF Here
<1>5. op = "get" => s \in {"look", "markUnhealthy", "exec", "clearHealth"}
  BY GetPlaces DEF Here
<1>6. op = "checkNode" => s \in {"ping", "syncDNAT", "nodeClear", "nodeLost"}
  BY CheckNodePlaces DEF Here
<1>7. op = "checkContainer" =>
        s \in {"askNode", "markLost", "markUnhealthy", "inspect", "setStopped",
              "exec", "clearHealth"}
  BY CheckContainerPlaces DEF Here
<1>8. op \in {"create", "start", "stop", "restart", "delete", "destroy",
             "rebuild", "get", "checkNode", "checkContainer"}
  BY PlaceOps, Elems
<1>9. QED  BY <1>2, <1>3, <1>4, <1>5, <1>6, <1>7, <1>8, Elems

LEMMA OpOf ==
  ASSUME TInv, NEW g \in Goroutines, NEW s, At(g, s)
  PROVE  /\ s = "ping" => Op(g) = "checkNode"
         /\ s \in {"askNode", "inspect", "markLost"} => Op(g) = "checkContainer"
         /\ s = "look" => Op(g) = "get"
         /\ s \in {"markUnhealthy", "exec", "clearHealth"} =>
               Op(g) \in {"get", "checkContainer"}
         /\ s = "find" => Op(g) \in {"delete", "destroy", "rebuild"}
         /\ s = "setStopped" => Op(g) \in {"stop", "checkContainer"}
         /\ s = "setRunning" => Op(g) \in {"start", "restart", "rebuild"}
         /\ s \in {"create", "start", "stop", "delete"} =>
               Op(g) \in Requests \ {"get"}
BY AtPlace, HeadOps

\* Which operation is about to report a container stopped.
LEMMA NextStops ==
  ASSUME TInv', NEW g \in Goroutines, job' = job, At(g, "setStopped")'
  PROVE  Op(g) \in {"stop", "checkContainer"}
<1>1. todo'[g] # <<>> /\ Head(todo'[g]) = "setStopped"
  BY DEF At
<1>2. todo'[g] \in Places(Op(g)) /\ Op(g) \in Jobs
  BY <1>1 DEF TInv, GoTypes, PlacesOK, LeftOf, Op
<1>3. QED  BY <1>1, <1>2, HeadOps

(***************************************************************************)
(* Each step is typed                                                      *)
(***************************************************************************)
LEMMA LxdTypes ==
  ASSUME TInv, NEW g \in Goroutines, NEW s, NEW from,
         NEW to \in {"Stopped", "Running", "none"}, LxdCall(g, s, from, to)
  PROVE  TInv'
<1>1. N(g) \in Names /\ At(g, s)
  BY AtPlace DEF LxdCall
<1>2. HostTypes'
  BY <1>1 DEF LxdCall, TInv, HostTypes, node
<1>3. RecordTypes'
  BY DEF LxdCall, TInv, RecordTypes, record
<1>4. Continue(g) \/ Fail(g)
  BY DEF LxdCall
<1>5. GoTypes'
  BY <1>1, <1>4, ContinueTypes, FailTypes
<1>6. QED  BY <1>2, <1>3, <1>5 DEF TInv

LEMMA ForwardTypes ==
  ASSUME TInv, NEW g \in Goroutines, Forward(g) \/ Unforward(g) \/ SyncDNAT(g)
  PROVE  TInv'
<1>1. PICK s : At(g, s) /\ Continue(g)
  BY DEF Forward, Unforward, SyncDNAT
<1>2. N(g) \in Names
  BY <1>1, AtPlace
<1>3. rule' \subseteq Names
  BY <1>2 DEF Forward, Unforward, SyncDNAT, TInv, HostTypes, RecordTypes
<1>4. HostTypes'
  BY <1>3 DEF Forward, Unforward, SyncDNAT, TInv, HostTypes, node
<1>5. RecordTypes'
  BY DEF Forward, Unforward, SyncDNAT, TInv, RecordTypes, record
<1>6. QED  BY <1>1, <1>4, <1>5, ContinueTypes DEF TInv

LEMMA ZeroFails == 0 \in 0 .. stateMaxFails
BY DEF stateMaxFails

RecordStep(g) ==
  \/ Register(g) \/ Unregister(g)
  \/ SetRunning(g) \/ SetStopped(g) \/ SetCreating(g) \/ Created(g)
  \/ MarkLost(g) \/ MarkUnhealthy(g) \/ ClearHealth(g)
LEMMA RecordStepTypes ==
  ASSUME TInv, NEW g \in Goroutines, RecordStep(g)
  PROVE  TInv'
<1>1. PICK s : At(g, s) /\ Continue(g)
  BY DEF RecordStep, Register, Unregister, SetRunning, SetStopped, SetCreating,
     setState, Created, MarkLost, MarkUnhealthy, ClearHealth, SetHealth
<1>2. N(g) \in Names
  BY <1>1, AtPlace
<1>3. RecordTypes' /\ HostTypes'
  <2>1. CASE Register(g) \/ Unregister(g) \/ Created(g)
    BY <1>2, <2>1 DEF Register, Unregister, Created, TInv, RecordTypes,
       HostTypes, host, node
  <2>2. ASSUME NEW t, NEW new \in {"creating", "running", "stopped"},
               setState(g, t, new)
        PROVE  RecordTypes' /\ HostTypes'
    BY <1>2, <2>2, ZeroFails DEF setState, TInv, RecordTypes, HostTypes, host,
       node
  <2>3. ASSUME NEW t, NEW new \in {"", "unhealthy", "lost"},
               SetHealth(g, t, new)
        PROVE  RecordTypes' /\ HostTypes'
    BY <1>2, <2>3 DEF SetHealth, TInv, RecordTypes, HostTypes, host, node
  <2>4. QED  BY <2>1, <2>2, <2>3 DEF RecordStep, SetRunning, SetStopped,
         SetCreating, MarkLost, MarkUnhealthy, ClearHealth
<1>4. QED  BY <1>1, <1>3, ContinueTypes DEF TInv

LEMMA NodeTypes ==
  ASSUME TInv, NEW g \in Goroutines,
         NodeUnhealthy(g) \/ NodeLost(g) \/ NodeClear(g)
  PROVE  TInv'
<1>1. PICK s : At(g, s) /\ Continue(g)
  BY DEF NodeUnhealthy, NodeLost, NodeClear, SetNodeHealth
<1>2. RecordTypes' /\ HostTypes'
  BY DEF NodeUnhealthy, NodeLost, NodeClear, SetNodeHealth, TInv, RecordTypes,
     HostTypes, record, host
<1>3. QED  BY <1>1, <1>2, ContinueTypes DEF TInv

\* A look at the node or the container decides what follows.
LEMMA LookTypes ==
  ASSUME TInv, NEW g \in Goroutines,
         Ping(g) \/ AskNode(g) \/ Inspect(g) \/ Look(g) \/ GetExec(g)
           \/ FindContainer(g) \/ ExecCheck(g)
  PROVE  TInv'
<1>1. GoTypes'
  <2>1. CASE Ping(g)
    <3>1. Op(g) = "checkNode"
      BY <2>1, OpOf DEF Ping
    <3>2. AfterPing \in LeftOf(Op(g)) /\ <<"nodeLost">> \in LeftOf(Op(g))
      BY <3>1 DEF AfterPing, LeftOf, Places, One, nodeClear_syncDNAT
    <3>3. QED  BY <2>1, <3>2, ThenTypes DEF Ping
  <2>2. CASE AskNode(g) \/ Inspect(g) \/ ExecCheck(g)
    <3>1. Op(g) = "checkContainer"
      BY <2>2, OpOf DEF AskNode, Inspect, ExecCheck
    <3>2. \A s \in {"markLost", "markUnhealthy", "inspect", "setStopped",
                    "exec", "clearHealth"} : <<s>> \in LeftOf(Op(g))
      BY <3>1 DEF LeftOf, Places, One
    <3>3. CASE AskNode(g)
      BY <3>2, <3>3, ThenTypes DEF AskNode
    <3>4. CASE Inspect(g)
      <4>1. N(g) \in Names
        BY <3>4, AtPlace DEF Inspect
      <4>2. AfterInspect(N(g)) \in LeftOf(Op(g))
        BY <3>2, <4>1 DEF AfterInspect, TInv, HostTypes
      <4>3. QED  BY <3>2, <3>4, <4>2, ThenTypes DEF Inspect
    <3>5. CASE ExecCheck(g)
      BY <3>2, <3>5, EmptyIs, ThenTypes DEF ExecCheck
    <3>6. QED  BY <2>2, <3>3, <3>4, <3>5
  <2>3. CASE Look(g) \/ GetExec(g)
    <3>1. Op(g) = "get"
      BY <2>3, OpOf DEF Look, GetExec
    <3>2. /\ <<>> \in LeftOf(Op(g)) /\ <<"markUnhealthy">> \in LeftOf(Op(g))
          /\ <<"exec">> \in LeftOf(Op(g)) /\ <<"clearHealth">> \in LeftOf(Op(g))
      BY <3>1 DEF LeftOf, Places, One
    <3>3. QED  BY <2>3, <3>2, ThenTypes DEF Look, GetExec
  <2>4. CASE FindContainer(g)
    <3>1. Op(g) \in {"delete", "destroy", "rebuild"} /\ At(g, "find")
      BY <2>4, OpOf DEF FindContainer
    <3>2. Found(Op(g), lxd[N(g)]) \in LeftOf(Op(g))
      BY <3>1, FoundPlaces DEF LeftOf
    <3>3. QED  BY <2>4, <3>2, ThenTypes, FailTypes DEF FindContainer
  <2>5. QED  BY <2>1, <2>2, <2>3, <2>4
<1>2. RecordTypes'
  BY DEF Ping, AskNode, Inspect, Look, GetExec, FindContainer, ExecCheck, TInv,
     RecordTypes, record
<1>3. HostTypes'
  <2>1. CASE ExecCheck(g)
    <3>1. N(g) \in Names
      BY <2>1, AtPlace DEF ExecCheck
    <3>2. fails' \in [Names -> 0 .. stateMaxFails]
      <4>1. fails \in [Names -> 0 .. 3]
        BY DEF TInv, HostTypes, stateMaxFails
      <4>2. fails[N(g)] \in 0 .. 3
        BY <3>1, <4>1
      <4>3. \E f \in 0 .. 3 : fails' = [fails EXCEPT ![N(g)] = f]
        <5>1. CASE fails' = [fails EXCEPT ![N(g)] = 0]
          BY <5>1
        <5>2. CASE fails[N(g)] < 3 /\ fails' = [fails EXCEPT ![N(g)] =
                                                  fails[N(g)] + 1]
          <6>1. PICK f \in 0 .. 3 : f = fails[N(g)]
            BY <4>2
          <6>2. f + 1 \in 0 .. 3
            BY <5>2, <6>1
          <6>3. QED  BY <5>2, <6>1, <6>2
        <5>3. CASE fails' = [fails EXCEPT ![N(g)] = 3]
          BY <5>3
        <5>4. QED  BY <2>1, <5>2 DEF ExecCheck, stateMaxFails
      <4>4. QED  BY <4>1, <4>3 DEF stateMaxFails
    <3>3. QED  BY <2>1, <3>2 DEF ExecCheck, TInv, HostTypes, host, node
  <2>2. CASE ~ExecCheck(g)
    BY <2>2 DEF Ping, AskNode, Inspect, Look, GetExec, FindContainer, TInv,
       HostTypes, host, node
  <2>3. QED  BY <2>1, <2>2
<1>4. QED  BY <1>1, <1>2, <1>3 DEF TInv

LEMMA StepTypes ==
  ASSUME TInv, NEW g \in Goroutines, Step(g)
  PROVE  TInv'
BY LxdTypes, ForwardTypes, RecordStepTypes, NodeTypes, LookTypes DEF Step,
   CreateContainer, StartContainer, StopContainer, DeleteContainer, RecordStep

(***************************************************************************)
(* What begins, and the world around                                       *)
(***************************************************************************)
LEMMA BeginTypes ==
  ASSUME TInv, NEW g \in Goroutines, NEW op \in Requests \cup Checks,
         NEW n \in Names, Begin(g, op, n)
  PROVE  /\ GoTypes' /\ todo'[g] = Script(op)
         /\ job'[g] = [op |-> op, name |-> n]
         /\ \A h \in Goroutines : h # g => /\ todo'[h] = todo[h]
                                          /\ job'[h] = job[h]
         /\ scenario' = scenario
<1>1. Script(op) \in Places(op) /\ op \in Jobs
  BY ScriptPlaces DEF Jobs
<1>2. Script(op) \in Seq(Steps)
  BY <1>1, Onward
<1>3. /\ todo' = [todo EXCEPT ![g] = Script(op)]
      /\ job' = [job EXCEPT ![g] = [op |-> op, name |-> n]]
      /\ scenario' = scenario
      /\ todo \in [Goroutines -> Seq(Steps)]
      /\ job \in [Goroutines -> [op : Jobs, name : Names]]
  BY DEF Begin, TInv, GoTypes
<1>4. /\ todo' \in [Goroutines -> Seq(Steps)] /\ todo'[g] = Script(op)
      /\ \A h \in Goroutines : h # g => todo'[h] = todo[h]
  BY <1>2, <1>3
<1>5. /\ job' \in [Goroutines -> [op : Jobs, name : Names]]
      /\ job'[g] = [op |-> op, name |-> n]
      /\ \A h \in Goroutines : h # g => job'[h] = job[h]
  BY <1>1, <1>3
<1>6. PlacesOK'
  <2> SUFFICES ASSUME NEW h \in Goroutines
               PROVE  todo'[h] \in LeftOf(job'[h].op)
    BY DEF PlacesOK, Op
  <2>1. CASE h = g
    BY <1>1, <1>4, <1>5, <2>1 DEF LeftOf
  <2>2. CASE h # g
    BY <1>4, <1>5, <2>2 DEF PlacesOK, TInv, GoTypes, Op
  <2>3. QED  BY <2>1, <2>2
<1>7. QED  BY <1>3, <1>4, <1>5, <1>6 DEF TInv, GoTypes

LEMMA SomeNameIs == SomeName \in Names
BY NamesAssumption DEF SomeName

\* A goroutine begins a request or a check.
Begins(g, op, n) ==
  /\ Begin(g, op, n)
  /\ \/ fails' = fails
     \/ op = "create" /\ fails' = [fails EXCEPT ![n] = 0]
Began ==
  \E g \in Goroutines, op \in Requests \cup Checks, n \in Names :
     /\ Begins(g, op, n)
     /\ op \in Requests => g \in Procs /\ op \in Ops
     /\ op = "create" => /\ n \notin registered /\ lxd[n] = "none"
                         /\ n \notin rule /\ ~Busy(n)
     /\ op \notin {"create", "checkNode"} => n \in registered
     /\ op \in {"get", "checkContainer"} => state[n] = "running"

LEMMA NextBegan ==
  ASSUME TInv
  PROVE  Next => \/ \E g \in Goroutines : Step(g)
                 \/ Began
                 \/ \E n \in Names : Halt(n) \/ Mute(n)
                 \/ NodeDown \/ NodeBack
<1>1. ASSUME NEW g \in Procs, NEW n \in Names, Create(g, n) \/ Get(g, n)
      PROVE  Began
  <2>1. CASE Create(g, n)
    <3>1. Begins(g, "create", n)
      BY <2>1 DEF Create, Begins
    <3>2. QED  BY <2>1, <3>1 DEF Began, Create, Goroutines, Requests
  <2>2. CASE Get(g, n)
    <3>1. Begins(g, "get", n)
      BY <2>2 DEF Get, Begins
    <3>2. QED  BY <2>2, <3>1 DEF Began, Get, Goroutines, Requests
  <2>3. QED  BY <1>1, <2>1, <2>2
<1>2. ASSUME NEW g \in Procs, NEW n \in Names, NEW op \in Ops, Request(g, op, n)
      PROVE  Began
  <2>1. Begins(g, op, n)
    BY <1>2 DEF Request, Begins
  <2>2. op \in Requests
    BY ScenariosAssumption DEF TInv, GoTypes, Ops
  <2>3. op \notin Checks
    BY <2>2, Elems
  <2>4. QED  BY <1>2, <2>1, <2>2, <2>3 DEF Began, Request, Goroutines, Checks
<1>3. ASSUME NEW g \in Checkers, NEW n \in Names, CheckContainer(g, n)
      PROVE  Began
  <2>1. Begins(g, "checkContainer", n)
    BY <1>3 DEF CheckContainer, Begins
  <2>2. QED  BY <1>3, <2>1 DEF Began, CheckContainer, Goroutines, Checks,
         Requests
<1>4. ASSUME NEW g \in Checkers, CheckNode(g)
      PROVE  Began
  <2>1. Begins(g, "checkNode", SomeName)
    BY <1>4 DEF CheckNode, Begins
  <2>2. QED  BY <2>1, SomeNameIs DEF Began, Goroutines, Checks, Requests
<1>5. QED  BY <1>1, <1>2, <1>3, <1>4 DEF Next

LEMMA BeganTypes ==
  ASSUME TInv, Began
  PROVE  TInv'
<1>1. PICK g \in Goroutines, op \in Requests \cup Checks, n \in Names :
         Begins(g, op, n)
  BY DEF Began
<1>2. GoTypes'
  BY <1>1, BeginTypes DEF Begins
<1>3. fails' \in [Names -> 0 .. stateMaxFails]
  BY <1>1, ZeroFails DEF Begins, TInv, HostTypes
<1>4. RecordTypes' /\ HostTypes'
  BY <1>1, <1>3 DEF Begins, Begin, TInv, RecordTypes, HostTypes, record, host,
     node
<1>5. QED  BY <1>2, <1>4 DEF TInv

LEMMA WorldTypes ==
  ASSUME TInv,
         (\E n \in Names : Halt(n) \/ Mute(n)) \/ NodeDown \/ NodeBack
  PROVE  TInv'
<1>1. UNCHANGED <<registered, state, health, fails, nodeHealth, todo, job,
                  scenario>>
  BY DEF Halt, Mute, NodeDown, NodeBack, record, node
<1>2. GoTypes' /\ RecordTypes'
  BY <1>1 DEF TInv, GoTypes, RecordTypes, PlacesOK, Op
<1>3. HostTypes'
  BY DEF Halt, Mute, NodeDown, NodeBack, TInv, HostTypes, host, node
<1>4. QED  BY <1>2, <1>3 DEF TInv

LEMMA StutterTypes ==
  ASSUME TInv, UNCHANGED vars
  PROVE  TInv'
BY DEF vars, record, host, node, TInv, RecordTypes, HostTypes, GoTypes,
   PlacesOK, Op

LEMMA NextTypes == TInv /\ [Next]_vars => TInv'
BY NextBegan, StepTypes, BeganTypes, WorldTypes, StutterTypes

LEMMA InitTypes == Init => TInv
<1> SUFFICES ASSUME Init PROVE TInv
  OBVIOUS
<1>1. RecordTypes /\ HostTypes
  BY ZeroFails DEF Init, RecordTypes, HostTypes
<1>2. GoTypes
  BY SomeNameIs, EmptyIs DEF Init, GoTypes, Jobs, PlacesOK
<1>3. QED  BY <1>1, <1>2 DEF TInv

(***************************************************************************)
(* One request or check at a time                                          *)
(***************************************************************************)
Alone == \A g, h \in Goroutines : todo[g] # <<>> /\ todo[h] # <<>> => g = h
\* A container that runs while it is reported stopped is about to be reported
\* running, unless the answer to its start is lost.
Restarted ==
  NoStartIsLost => \A n \in registered :
     state[n] = "stopped" /\ lxd[n] = "Running" =>
        \E g \in Goroutines : N(g) = n /\ todo[g] = One("setRunning")
\* A check has begun because the container is reported running; what is about
\* to be reported stopped does not run; what is being created says so; a start
\* is one of the requests made, and a restart stops a container that ran.
Fits(g) ==
  todo[g] # <<>> =>
    /\ Op(g) \in {"get", "checkContainer"} /\ N(g) \in registered =>
          state[N(g)] = "running"
    /\ todo[g] = One("setStopped") => lxd[N(g)] # "Running"
    /\ /\ N(g) \in registered
       /\ \/ Op(g) = "create" /\ todo[g] # createContainerCore
          \/ Op(g) = "rebuild" /\ todo[g] # handleRebuild
       => state[N(g)] = "creating"
    /\ Op(g) = "start" => "start" \in Ops
    /\ /\ NoStartIsLost /\ N(g) \in registered
       /\ Op(g) = "restart" /\ todo[g] = handleStart
       => state[N(g)] # "stopped"
Serial ==
  /\ Alone /\ HealthOnlyWhenRunning /\ Restarted
  /\ \A g \in Goroutines : Fits(g)
SerialInv == scenario.serial => Serial

\* The calls that come last.
LEMMA LastCalls ==
  ASSUME TInv, NEW g \in Goroutines, NEW s, At(g, s),
         s \in {"setRunning", "setStopped", "created", "markLost",
               "markUnhealthy", "clearHealth"}
  PROVE  todo[g] = One(s) /\ Tail(todo[g]) = <<>>
<1> DEFINE q == todo[g]
<1> DEFINE op == Op(g)
<1>1. q \in Places(op) /\ op \in Jobs /\ Head(q) = s
  BY AtPlace
<1>2. op \in {"create", "start", "stop", "restart", "delete", "destroy",
             "rebuild", "get", "checkNode", "checkContainer"}
  BY <1>1, PlaceOps, Elems
<1> HIDE DEF q, op
<1>3. CASE op \in {"create", "start", "stop", "restart"}
  BY <1>1, <1>3, CreatePlaces, StartPlaces, StopPlaces, RestartPlaces DEF Here,
     q
<1>4. CASE op \in {"delete", "destroy"}
  BY <1>1, <1>4, DeletePlaces, DestroyPlaces DEF Here
<1>5. CASE op = "rebuild"
  BY <1>1, <1>5, RebuildPlaces DEF Here, q
<1>6. CASE op \in {"get", "checkNode", "checkContainer"}
  BY <1>1, <1>6, GetPlaces, CheckNodePlaces, CheckContainerPlaces DEF Here, q
<1>7. QED  BY <1>2, <1>3, <1>4, <1>5, <1>6

\* What each single place begins with.
LEMMA OneHead == \A s : One(s) # <<>> /\ Head(One(s)) = s
BY DEF One

LEMMA Firsts ==
  /\ createContainerCore # <<>> /\ Head(createContainerCore) = "register"
  /\ handleRebuild # <<>> /\ Head(handleRebuild) = "setCreating"
BY CreateIs, RebuildIs DEF Is

\* All that is left to show of a step: what becomes of its own container.
LEMMA OwnSerial ==
  ASSUME TInv, Serial, NEW g \in Goroutines, todo[g] # <<>>,
         \A h \in Goroutines : h # g => todo'[h] = todo[h], job' = job,
         scenario' = scenario, NEW n, n = N(g),
         \A m \in Names : m # n =>
            /\ m \in registered' <=> m \in registered
            /\ state'[m] = state[m] /\ health'[m] = health[m]
            /\ lxd'[m] = lxd[m],
         registered' \subseteq Names,
         n \in registered' /\ health'[n] # "" => state'[n] = "running",
         (NoStartIsLost /\ n \in registered' /\ state'[n] = "stopped"
                        /\ lxd'[n] = "Running")
            => todo'[g] = One("setRunning"),
         Fits(g)'
  PROVE  Serial'
<1>1. \A h \in Goroutines : h # g => todo[h] = <<>> /\ todo'[h] = <<>>
  BY DEF Serial, Alone
<1>2. Alone'
  BY <1>1 DEF Alone
<1>3. HealthOnlyWhenRunning'
  BY DEF Serial, HealthOnlyWhenRunning
<1>4. Restarted'
  <2> SUFFICES ASSUME NoStartIsLost, NEW m \in registered',
                      state'[m] = "stopped", lxd'[m] = "Running"
               PROVE  m = n /\ todo'[g] = One("setRunning")
    BY DEF Restarted, N, NoStartIsLost, Faults, Ops
  <2>1. CASE m # n
    <3>1. PICK h \in Goroutines : N(h) = m /\ todo[h] = One("setRunning")
      BY <2>1 DEF Serial, Restarted
    <3>2. h = g
      BY <1>1, <3>1, OneHead
    <3>3. QED  BY <2>1, <3>1, <3>2
  <2>2. QED  BY <2>1
<1>5. \A h \in Goroutines : Fits(h)'
  <2> SUFFICES ASSUME NEW h \in Goroutines, h # g PROVE Fits(h)'
    OBVIOUS
  <2>1. todo'[h] = <<>>
    BY <1>1
  <2>2. QED  BY <2>1 DEF Fits
<1>6. QED  BY <1>2, <1>3, <1>4, <1>5 DEF Serial

\* Before any step but setRunning, a container that is reported stopped does
\* not run.
LEMMA StoppedIsStopped ==
  ASSUME TInv, Serial, NoStartIsLost, NEW g \in Goroutines, todo[g] # <<>>,
         Head(todo[g]) # "setRunning", NEW n \in registered,
         state[n] = "stopped"
  PROVE  lxd[n] # "Running"
<1> SUFFICES ASSUME lxd[n] = "Running" PROVE FALSE
  OBVIOUS
<1>1. PICK h \in Goroutines : todo[h] = One("setRunning")
  BY DEF Serial, Restarted
<1>2. h = g
  BY <1>1, OneHead DEF Serial, Alone
<1>3. QED  BY <1>1, <1>2, OneHead

\* A call that leaves the record alone, and does not start the container.
LEMMA CallSerial ==
  ASSUME TInv, TInv', Serial, NEW g \in Goroutines, NEW s, At(g, s),
         s \notin {"register", "setCreating", "setRunning"},
         \A h \in Goroutines : h # g => todo'[h] = todo[h], job' = job,
         scenario' = scenario,
         UNCHANGED <<registered, state, health>>,
         \A m \in Names : m # N(g) => lxd'[m] = lxd[m],
         lxd'[N(g)] = "Running" => lxd[N(g)] = "Running",
         At(g, "setStopped")' => lxd'[N(g)] # "Running",
         (NoStartIsLost /\ N(g) \in registered /\ Op(g) = "restart"
                        /\ todo'[g] = handleStart)
            => state[N(g)] # "stopped"
  PROVE  Serial'
<1> DEFINE n == N(g)
<1>1. todo[g] # <<>> /\ Head(todo[g]) = s /\ Fits(g)
  BY DEF At, Serial
<1>2. NoStartIsLost =>
        \A m \in registered : state[m] = "stopped" => lxd[m] # "Running"
  BY <1>1, StoppedIsStopped
<1>3. registered \subseteq Names
  BY DEF TInv, RecordTypes
<1>4. Fits(g)'
  <2>1. todo'[g] = One("setStopped") => At(g, "setStopped")'
    BY OneHead DEF At
  <2>2. todo[g] # createContainerCore /\ todo[g] # handleRebuild
    BY <1>1, Firsts
  <2>3. /\ Op(g)' = Op(g) /\ N(g)' = N(g) /\ Ops' = Ops
        /\ NoStartIsLost' = NoStartIsLost
    BY DEF Op, N, Ops, NoStartIsLost, Faults
  <2>4. QED  BY <1>1, <2>1, <2>2, <2>3 DEF Fits
<1>5. n \in registered /\ health[n] # "" => state[n] = "running"
  BY DEF Serial, HealthOnlyWhenRunning
<1> HIDE DEF n
<1>6. \A m \in Names : m # n =>
         /\ m \in registered' <=> m \in registered
         /\ state'[m] = state[m] /\ health'[m] = health[m] /\ lxd'[m] = lxd[m]
  BY DEF n
<1>7. NoStartIsLost /\ n \in registered' /\ state'[n] = "stopped"
         => lxd'[n] # "Running"
  BY <1>2 DEF n
<1>8. QED  BY <1>1, <1>3, <1>4, <1>5, <1>6, <1>7, OwnSerial DEF n

LEMMA LxdEffect ==
  ASSUME TInv, NEW g \in Goroutines, NEW s, NEW from, NEW to,
         LxdCall(g, s, from, to)
  PROVE  /\ At(g, s) /\ N(g) \in Names
         /\ \A m \in Names : m # N(g) => lxd'[m] = lxd[m]
         /\ UNCHANGED <<registered, state, health, job, scenario>>
         /\ \A h \in Goroutines : h # g => todo'[h] = todo[h]
         /\ \/ /\ lxd[N(g)] \in from /\ lxd'[N(g)] = to
               /\ \/ todo'[g] = Tail(todo[g])
                  \/ /\ "lost" \in Faults
                     /\ todo'[g] = OnError(Op(g), s, Tail(todo[g]))
            \/ /\ lxd' = lxd
               /\ todo'[g] = OnError(Op(g), s, Tail(todo[g]))
<1>1. At(g, s) /\ N(g) \in Names
  BY AtPlace DEF LxdCall
<1>2. lxd \in [Names -> {"none", "Stopped", "Running"}]
  BY DEF TInv, HostTypes
<1>3. CASE /\ lxd[N(g)] \in from /\ lxd' = [lxd EXCEPT ![N(g)] = to]
           /\ Continue(g) \/ ("lost" \in Faults /\ Fail(g))
  <2>1. /\ UNCHANGED <<job, scenario>>
        /\ \/ todo'[g] = Tail(todo[g])
           \/ /\ "lost" \in Faults
              /\ todo'[g] = OnError(Op(g), s, Tail(todo[g]))
        /\ \A h \in Goroutines : h # g => todo'[h] = todo[h]
    BY <1>1, <1>3, ContinueTypes, FailTypes
  <2>2. UNCHANGED <<registered, state, health>>
    BY DEF LxdCall, record
  <2>3. lxd'[N(g)] = to /\ \A m \in Names : m # N(g) => lxd'[m] = lxd[m]
    BY <1>1, <1>2, <1>3
  <2>4. QED  BY <1>1, <1>3, <2>1, <2>2, <2>3
<1>4. CASE lxd' = lxd /\ Fail(g)
  <2>1. /\ UNCHANGED <<job, scenario>>
        /\ todo'[g] = OnError(Op(g), s, Tail(todo[g]))
        /\ \A h \in Goroutines : h # g => todo'[h] = todo[h]
    BY <1>1, <1>4, FailTypes
  <2>2. UNCHANGED <<registered, state, health>>
    BY DEF LxdCall, record
  <2>3. QED  BY <1>1, <1>4, <2>1, <2>2
<1>5. QED  BY <1>3, <1>4 DEF LxdCall

\* LXD calls.
LEMMA LxdSerial ==
  ASSUME TInv, TInv', Serial, NEW g \in Goroutines,
         NEW s \in {"create", "stop", "delete"}, NEW from,
         NEW to \in {"none", "Stopped"}, LxdCall(g, s, from, to),
         s = "stop" => from = {"Running"}
  PROVE  Serial'
<1>1. At(g, s)
  BY LxdEffect
<1>2. UNCHANGED <<registered, state, health>> /\ job' = job
      /\ scenario' = scenario
  BY LxdEffect
<1>3. \A h \in Goroutines : h # g => todo'[h] = todo[h]
  BY LxdEffect
<1>4. \A m \in Names : m # N(g) => lxd'[m] = lxd[m]
  BY LxdEffect
<1>5. /\ \/ todo'[g] = Tail(todo[g]) /\ lxd'[N(g)] = to /\ lxd[N(g)] \in from
         \/ todo'[g] = OnError(Op(g), s, Tail(todo[g]))
      /\ lxd'[N(g)] = to \/ lxd' = lxd
  BY LxdEffect
<1>6. At(g, "setStopped")' => lxd'[N(g)] # "Running"
  <2> SUFFICES ASSUME At(g, "setStopped")' PROVE lxd'[N(g)] # "Running"
    OBVIOUS
  <2>1. Op(g) \in {"stop", "checkContainer"} /\ Op(g) \in Requests
    BY <1>1, <1>2, NextStops, OpOf
  <2>2. Op(g) = "stop"
    BY <2>1, Elems
  <2>3. OnError(Op(g), s, Tail(todo[g])) = <<>>
    BY <2>2 DEF OnError
  <2>4. todo'[g] # <<>>
    BY DEF At
  <2>5. QED  BY <1>5, <2>3, <2>4
<1>7. lxd'[N(g)] = "Running" => lxd[N(g)] = "Running"
  BY <1>5
<1>8. ASSUME NoStartIsLost, N(g) \in registered, Op(g) = "restart",
             todo'[g] = handleStart
      PROVE  state[N(g)] # "stopped"
  <2>1. todo[g] \in Places("restart") /\ Head(todo[g]) = s /\ todo[g] # <<>>
    BY <1>1, <1>8, AtPlace DEF At
  <2>2. OnError("restart", s, Tail(todo[g])) = <<>> /\ handleStart # <<>>
    BY DEF OnError, handleStart
  <2>3. lxd[N(g)] \in from /\ s = "stop"
    BY <1>5, <1>8, <2>1, <2>2, RestartPlaces DEF Here
  <2>4. Head(todo[g]) # "setRunning"
    BY <2>1, <2>3
  <2>5. QED  BY <1>8, <2>1, <2>3, <2>4, StoppedIsStopped
<1>9. QED  BY <1>1, <1>2, <1>3, <1>4, <1>6, <1>7, <1>8, CallSerial

LEMMA StartSerial ==
  ASSUME TInv, TInv', Serial, NEW g \in Goroutines,
         LxdCall(g, "start", {"Stopped"}, "Running")
  PROVE  Serial'
<1> DEFINE n == N(g)
<1>1. At(g, "start") /\ n \in Names
  BY LxdEffect
<1>2. UNCHANGED <<registered, state, health>> /\ job' = job
      /\ scenario' = scenario
  BY LxdEffect
<1>3. \A h \in Goroutines : h # g => todo'[h] = todo[h]
  BY LxdEffect
<1>4. \A m \in Names : m # n => lxd'[m] = lxd[m]
  BY LxdEffect
<1>5. \/ todo'[g] = Tail(todo[g])
      \/ /\ lxd' = lxd \/ "lost" \in Faults
         /\ todo'[g] = OnError(Op(g), "start", Tail(todo[g]))
  BY LxdEffect
<1>6. /\ todo[g] # <<>> /\ Head(todo[g]) = "start" /\ Fits(g)
      /\ todo[g] # createContainerCore /\ todo[g] # handleRebuild
  BY <1>1, Firsts DEF At, Serial
<1>7. Op(g) \in Requests \ {"get"} /\ todo[g] \in Places(Op(g))
  BY <1>1, OpOf, AtPlace
<1>8. ~At(g, "setStopped")'
  <2> SUFFICES ASSUME At(g, "setStopped")' PROVE FALSE
    OBVIOUS
  <2>1. Op(g) = "stop"
    BY <1>2, <1>7, NextStops, Elems
  <2>2. Head(todo[g]) # "start"
    BY <1>7, <2>1, StopPlaces DEF Here
  <2>3. QED  BY <1>6, <2>2
<1>9. Op(g)' = Op(g) /\ N(g)' = n /\ Ops' = Ops
  BY <1>2 DEF Op, N, Ops
<1>10. Fits(g)'
  <2>1. todo'[g] # One("setStopped")
    BY <1>8, OneHead DEF At
  <2>2. Op(g) \notin {"get", "checkContainer"}
    BY <1>7, Elems
  <2>3. ~(Op(g) = "restart" /\ todo'[g] = handleStart)
    <3> SUFFICES ASSUME Op(g) = "restart" PROVE todo'[g] # handleStart
      OBVIOUS
    <3>1. Tail(todo[g]) = One("setRunning")
      BY <1>6, <1>7, RestartPlaces DEF Here
    <3>2. OnError(Op(g), "start", Tail(todo[g])) = <<>>
      BY DEF OnError
    <3>3. handleStart # <<>> /\ Head(handleStart) = "start"
      BY DEF handleStart
    <3>4. One("setRunning") # handleStart
      BY <3>3, OneHead
    <3>5. QED  BY <1>5, <3>1, <3>2, <3>3, <3>4
  <2>4. QED  BY <1>2, <1>6, <1>9, <2>1, <2>3 DEF Fits
<1>11. NoStartIsLost /\ n \in registered /\ state[n] = "stopped"
       /\ lxd'[n] = "Running"
        => todo'[g] = One("setRunning")
  <2> SUFFICES ASSUME NoStartIsLost, n \in registered, state[n] = "stopped",
                      lxd'[n] = "Running"
               PROVE  todo'[g] = One("setRunning")
    OBVIOUS
  <2>1. lxd[n] # "Running"
    BY <1>6, StoppedIsStopped
  <2>2. Op(g) \notin {"create", "rebuild"}
    BY <1>6 DEF Fits
  <2>3. Op(g) \in {"start", "stop", "restart", "delete", "destroy"}
    BY <1>7, <2>2, Elems
  <2>4. /\ Op(g) \in {"start", "restart"} /\ Tail(todo[g]) = One("setRunning")
        /\ Op(g) = "restart" => todo[g] = handleStart
    <3>1. CASE Op(g) \in {"start", "stop", "restart"}
      BY <1>6, <1>7, <3>1, StartPlaces, StopPlaces, RestartPlaces DEF Here
    <3>2. CASE Op(g) \in {"delete", "destroy"}
      BY <1>6, <1>7, <3>2, DeletePlaces, DestroyPlaces DEF Here
    <3>3. QED  BY <2>3, <3>1, <3>2
  <2>5. Op(g) # "restart"
    BY <1>6, <2>4 DEF Fits
  <2>6. "lost" \notin Faults
    BY <1>6, <2>4, <2>5 DEF Fits, NoStartIsLost
  <2>7. QED  BY <1>5, <2>1, <2>4, <2>6
<1>12. n \in registered /\ health[n] # "" => state[n] = "running"
  BY DEF Serial, HealthOnlyWhenRunning
<1>13. registered \subseteq Names
  BY DEF TInv, RecordTypes
<1>14. \A m \in Names : m # n =>
         /\ m \in registered' <=> m \in registered
         /\ state'[m] = state[m] /\ health'[m] = health[m] /\ lxd'[m] = lxd[m]
  BY <1>2, <1>4
<1>15. n = N(g)
  OBVIOUS
<1> HIDE DEF n
<1>16. QED  BY <1>2, <1>3, <1>6, <1>10, <1>11, <1>12, <1>13, <1>14, <1>15,
       OwnSerial

\* Calls that change neither the record nor the container.
LEMMA QuietSerial ==
  ASSUME TInv, TInv', Serial, NEW g \in Goroutines,
         \/ FindContainer(g) \/ Forward(g) \/ Unforward(g)
         \/ NodeUnhealthy(g) \/ NodeLost(g) \/ NodeClear(g)
         \/ Ping(g) \/ SyncDNAT(g) \/ AskNode(g) \/ Inspect(g) \/ ExecCheck(g)
         \/ Look(g) \/ GetExec(g)
  PROVE  Serial'
<1>1. UNCHANGED <<registered, state, health, lxd, job, scenario>>
  BY DEF FindContainer, Forward, Unforward, NodeUnhealthy, NodeLost, NodeClear,
     SetNodeHealth, Ping, SyncDNAT, AskNode, Inspect, ExecCheck, Look, GetExec,
     record, host, Continue, Fail, Then
<1>2. PICK s, rest : /\ At(g, s) /\ Then(g, rest)
                     /\ s \in {"find", "forward", "unforward", "nodeUnhealthy",
                              "nodeLost", "nodeClear", "ping", "syncDNAT",
                              "askNode", "inspect", "exec", "look"}
  BY DEF FindContainer, Forward, Unforward, NodeUnhealthy, NodeLost, NodeClear,
     SetNodeHealth, Ping, SyncDNAT, AskNode, Inspect, ExecCheck, Look, GetExec,
     Continue, Fail
<1>3. \A h \in Goroutines : h # g => todo'[h] = todo[h]
  BY <1>2 DEF Then
<1>4. At(g, "setStopped")' => lxd[N(g)] # "Running"
  <2> SUFFICES ASSUME At(g, "setStopped")' PROVE lxd[N(g)] # "Running"
    OBVIOUS
  <2>1. Op(g) \in {"stop", "checkContainer"}
    BY <1>1, NextStops
  <2>2. todo[g] \in Places(Op(g)) /\ Head(todo[g]) = s
    BY <1>2, AtPlace
  <2>3. Op(g) # "stop"
    BY <1>2, <2>2, StopPlaces DEF Here
  <2>4. s \in {"askNode", "inspect", "exec"} /\ Tail(todo[g]) = <<>>
    BY <1>2, <2>1, <2>2, <2>3, CheckContainerPlaces DEF Here
  <2>5. todo' = [todo EXCEPT ![g] = todo'[g]]
        /\ todo \in [Goroutines -> Seq(Steps)]
    BY <1>2 DEF Then, TInv, GoTypes
  <2>6. AskNode(g) \/ Inspect(g) \/ ExecCheck(g)
    BY <1>2, <2>1, <2>3, <2>4 DEF At, FindContainer, Forward, Unforward,
       NodeUnhealthy, NodeLost, NodeClear, SetNodeHealth, Ping, SyncDNAT, Look,
       GetExec
  <2>7. todo'[g] # <<>> /\ Head(todo'[g]) = "setStopped"
    BY DEF At
  <2>8. CASE AskNode(g)
    BY <2>5, <2>7, <2>8 DEF AskNode, Then
  <2>9. CASE ExecCheck(g)
    BY <2>5, <2>7, <2>9 DEF ExecCheck, Then
  <2>10. CASE Inspect(g)
    BY <2>5, <2>7, <2>10 DEF Inspect, AfterInspect, Then
  <2>11. QED  BY <2>6, <2>8, <2>9, <2>10
<1>5. ~(Op(g) = "restart" /\ todo'[g] = handleStart)
  <2> SUFFICES ASSUME Op(g) = "restart" PROVE FALSE
    OBVIOUS
  <2>1. todo[g] \in Places("restart") /\ Head(todo[g]) = s
    BY <1>2, AtPlace
  <2>2. QED  BY <1>2, <2>1, RestartPlaces DEF Here
<1>6. QED  BY <1>1, <1>2, <1>3, <1>4, <1>5, CallSerial

\* What a call about the record leaves alone.
LEMMA RecordEffect ==
  ASSUME TInv, NEW g \in Goroutines, RecordStep(g), NEW n, n = N(g)
  PROVE  /\ todo[g] # <<>> /\ n \in Names /\ job' = job /\ lxd' = lxd
         /\ todo'[g] = Tail(todo[g]) /\ scenario' = scenario
         /\ \A h \in Goroutines : h # g => todo'[h] = todo[h]
         /\ \A m \in Names : m # n =>
              /\ m \in registered' <=> m \in registered
              /\ state'[m] = state[m] /\ health'[m] = health[m]
              /\ lxd'[m] = lxd[m]
<1>1. PICK s : At(g, s) /\ Continue(g)
  BY DEF RecordStep, Register, Unregister, SetRunning, SetStopped, SetCreating,
     setState, Created, MarkLost, MarkUnhealthy, ClearHealth, SetHealth
<1>2. n \in Names /\ todo[g] # <<>>
  BY <1>1, AtPlace DEF At
<1>3. lxd' = lxd
  BY DEF RecordStep, Register, Unregister, SetRunning, SetStopped, SetCreating,
     setState, Created, MarkLost, MarkUnhealthy, ClearHealth, SetHealth, host
<1>4. /\ state \in [Names -> {"creating", "running", "stopped"}]
      /\ health \in [Names -> {"", "unhealthy", "lost"}]
  BY DEF TInv, RecordTypes
<1>5. ASSUME NEW m \in Names, m # n
      PROVE  /\ m \in registered' <=> m \in registered
             /\ state'[m] = state[m] /\ health'[m] = health[m]
  <2>1. CASE Register(g) \/ Unregister(g) \/ Created(g)
    BY <1>4, <1>5, <2>1 DEF Register, Unregister, Created
  <2>2. ASSUME NEW c, NEW new, setState(g, c, new) \/ SetHealth(g, c, new)
        PROVE  /\ m \in registered' <=> m \in registered
               /\ state'[m] = state[m] /\ health'[m] = health[m]
    BY <1>4, <1>5, <2>2 DEF setState, SetHealth
  <2>3. QED
    BY <2>1, <2>2 DEF RecordStep, SetRunning, SetStopped, SetCreating, MarkLost,
       MarkUnhealthy, ClearHealth
<1>6. QED  BY <1>1, <1>2, <1>3, <1>5, ContinueTypes

\* The calls that come last in their scripts.
LEMMA LastSerial ==
  ASSUME TInv, TInv', Serial, NEW g \in Goroutines,
         \/ SetRunning(g) \/ SetStopped(g) \/ Created(g)
         \/ MarkLost(g) \/ MarkUnhealthy(g) \/ ClearHealth(g)
  PROVE  Serial'
<1> DEFINE n == N(g)
<1>1. n = N(g) /\ RecordStep(g)
  BY DEF RecordStep
<1> HIDE DEF n
<1>2. /\ todo[g] # <<>> /\ n \in Names /\ job' = job /\ lxd' = lxd
      /\ todo'[g] = Tail(todo[g]) /\ scenario' = scenario
      /\ \A h \in Goroutines : h # g => todo'[h] = todo[h]
  BY <1>1, RecordEffect
<1>3. \A m \in Names : m # n =>
         /\ m \in registered' <=> m \in registered
         /\ state'[m] = state[m] /\ health'[m] = health[m]
         /\ lxd'[m] = lxd[m]
  BY <1>1, RecordEffect
<1>4. PICK s \in {"setRunning", "setStopped", "created", "markLost",
                  "markUnhealthy", "clearHealth"} : At(g, s)
  BY DEF SetRunning, SetStopped, setState, Created, MarkLost, MarkUnhealthy,
     ClearHealth, SetHealth
<1>5. todo[g] = One(s) /\ todo'[g] = <<>>
  BY <1>2, <1>4, LastCalls
<1>6. Fits(g)'
  BY <1>5 DEF Fits
<1>7. registered' \subseteq Names
  BY DEF TInv, RecordTypes
<1>8. Fits(g) /\ (n \in registered /\ health[n] # "" => state[n] = "running")
  BY DEF Serial, HealthOnlyWhenRunning
<1>9. /\ state \in [Names -> {"creating", "running", "stopped"}]
      /\ health \in [Names -> {"", "unhealthy", "lost"}]
  BY DEF TInv, RecordTypes
<1>10. /\ n \in registered' /\ health'[n] # "" => state'[n] = "running"
       /\ n \in registered' /\ state'[n] = "stopped" => lxd'[n] # "Running"
  <2>1. CASE SetRunning(g)
    BY <1>1, <1>2, <1>9, <2>1 DEF SetRunning, setState
  <2>2. CASE SetStopped(g)
    <3>1. At(g, "setStopped")
      BY <2>2 DEF SetStopped, setState
    <3>2. todo[g] = One("setStopped")
      BY <3>1, LastCalls
    <3>3. lxd[n] # "Running"
      BY <1>1, <1>2, <1>8, <3>2 DEF Fits
    <3>4. QED  BY <1>1, <1>2, <1>9, <2>2, <3>3 DEF SetStopped, setState
  <2>3. CASE Created(g)
    BY <1>1, <1>2, <1>9, <2>3 DEF Created
  <2>4. CASE MarkLost(g) \/ MarkUnhealthy(g) \/ ClearHealth(g)
    <3>1. /\ At(g, "markLost") \/ At(g, "markUnhealthy") \/ At(g, "clearHealth")
          /\ registered' = registered /\ state' = state
      BY <2>4 DEF MarkLost, MarkUnhealthy, ClearHealth, SetHealth
    <3>2. Op(g) \in {"get", "checkContainer"}
      BY <3>1, OpOf
    <3>3. n \in registered => state[n] = "running"
      BY <1>1, <1>2, <1>8, <3>2 DEF Fits
    <3>4. QED  BY <3>1, <3>3
  <2>5. QED  BY <2>1, <2>2, <2>3, <2>4
<1>11. QED  BY <1>1, <1>2, <1>3, <1>6, <1>7, <1>10, OwnSerial

\* The calls with which a record comes and goes, and a rebuild begins.
LEMMA RegisterSerial ==
  ASSUME TInv, TInv', Serial, NEW g \in Goroutines,
         Register(g) \/ Unregister(g) \/ SetCreating(g)
  PROVE  Serial'
<1> DEFINE n == N(g)
<1>1. n = N(g) /\ RecordStep(g)
  BY DEF RecordStep
<1> HIDE DEF n
<1>2. /\ todo[g] # <<>> /\ n \in Names /\ job' = job /\ lxd' = lxd
      /\ todo'[g] = Tail(todo[g]) /\ scenario' = scenario
      /\ \A h \in Goroutines : h # g => todo'[h] = todo[h]
  BY <1>1, RecordEffect
<1>3. \A m \in Names : m # n =>
         /\ m \in registered' <=> m \in registered
         /\ state'[m] = state[m] /\ health'[m] = health[m]
         /\ lxd'[m] = lxd[m]
  BY <1>1, RecordEffect
<1>4. PICK s \in {"register", "unregister", "setCreating"} : At(g, s)
  BY DEF Register, Unregister, SetCreating, setState
<1>5. todo[g] \in Places(Op(g)) /\ Head(todo[g]) = s /\ Op(g) \in Jobs
  BY <1>4, AtPlace
<1>6. Op(g) \notin {"start", "stop", "restart", "get", "checkContainer"}
  BY <1>5, StartPlaces, StopPlaces, RestartPlaces, GetPlaces,
     CheckContainerPlaces DEF Here
<1>7. registered' \subseteq Names
  BY DEF TInv, RecordTypes
<1>8. /\ state \in [Names -> {"creating", "running", "stopped"}]
      /\ health \in [Names -> {"", "unhealthy", "lost"}]
  BY DEF TInv, RecordTypes
<1>9. n \in registered' => state'[n] = "creating" /\ health'[n] = ""
  <2>1. CASE Register(g)
    BY <1>1, <1>2, <1>8, <2>1 DEF Register
  <2>2. CASE Unregister(g)
    BY <1>1, <2>2 DEF Unregister
  <2>3. CASE SetCreating(g)
    BY <1>1, <1>2, <1>8, <2>3 DEF SetCreating, setState
  <2>4. QED  BY <2>1, <2>2, <2>3
<1>10. Fits(g)'
  <2>1. Op(g)' = Op(g) /\ N(g)' = n
    BY <1>1, <1>2 DEF Op, N
  <2>2. todo'[g] # One("setStopped")
    <3> SUFFICES ASSUME todo'[g] = One("setStopped") PROVE FALSE
      OBVIOUS
    <3>1. At(g, "setStopped")'
      BY OneHead DEF At
    <3>2. QED  BY <1>2, <1>6, <3>1, NextStops
  <2>3. QED  BY <1>6, <1>9, <2>1, <2>2 DEF Fits
<1>11. QED  BY <1>1, <1>2, <1>3, <1>7, <1>9, <1>10, OwnSerial

LEMMA StepSerial ==
  ASSUME TInv, TInv', Serial, NEW g \in Goroutines, Step(g)
  PROVE  Serial'
BY LxdSerial, StartSerial, QuietSerial, LastSerial, RegisterSerial DEF Step,
   CreateContainer, StartContainer, StopContainer, DeleteContainer

\* No script begins with its last setRunning or setStopped.
LEMMA ScriptHeads ==
  /\ Script("restart") # handleStart
  /\ \A op \in Requests \cup Checks :
        /\ Script(op) # One("setRunning") /\ Script(op) # One("setStopped")
  /\ Script("create") = createContainerCore /\ Script("rebuild") = handleRebuild
<1>1. /\ Script("create") = createContainerCore
      /\ Script("rebuild") = handleRebuild
  BY DEF Script
<1>2. ASSUME NEW op \in {"start", "stop", "restart", "delete", "destroy", "get",
                         "checkNode", "checkContainer"}
      PROVE  /\ Script(op) # One("setRunning")
             /\ Script(op) # One("setStopped")
  BY DEF Script, handleStart, handleStop, handleRestart, One
<1>3. Script("restart") # handleStart
  BY DEF Script, handleRestart, handleStart
<1>4. QED  BY <1>1, <1>2, <1>3, Firsts, OneHead, Elems

LEMMA BeganSerial ==
  ASSUME TInv, SerialInv, Began
  PROVE  SerialInv'
<1>1. PICK g \in Goroutines, op \in Requests \cup Checks, n \in Names :
         /\ Begins(g, op, n)
         /\ op \in {"get", "checkContainer"} => state[n] = "running"
         /\ op \in Requests => op \in Ops
  BY DEF Began
<1> SUFFICES ASSUME scenario'.serial PROVE Serial'
  BY DEF SerialInv
<1>2. Begin(g, op, n)
  BY <1>1 DEF Begins
<1>3. /\ todo'[g] = Script(op) /\ job'[g] = [op |-> op, name |-> n]
      /\ \A h \in Goroutines : h # g => todo'[h] = todo[h]
      /\ scenario' = scenario
  BY <1>2, BeginTypes
<1>4. /\ UNCHANGED <<registered, state, health, lxd>>
      /\ \A h \in Goroutines : todo[h] = <<>>
  BY <1>2 DEF Begin, record, host
<1>5. Serial
  BY <1>3 DEF SerialInv
<1>6. Alone'
  BY <1>3, <1>4 DEF Alone
<1>7. Restarted' /\ HealthOnlyWhenRunning'
  <2>1. NoStartIsLost' = NoStartIsLost
    BY <1>3 DEF NoStartIsLost, Faults, Ops
  <2>2. \A h \in Goroutines : todo[h] # One("setRunning")
    BY <1>4, OneHead
  <2>3. NoStartIsLost => \A m \in registered :
           ~(state[m] = "stopped" /\ lxd[m] = "Running")
    BY <1>5, <2>2 DEF Serial, Restarted
  <2>4. Restarted'
    BY <1>4, <2>1, <2>3 DEF Restarted
  <2>5. QED  BY <1>4, <1>5, <2>4 DEF Serial, HealthOnlyWhenRunning
<1>8. Op(g)' = op /\ N(g)' = n /\ Ops' = Ops
  BY <1>3 DEF Op, N, Ops
<1>9. op = "start" => op \in Ops
  BY <1>1 DEF Requests
<1>10. Fits(g)'
  BY <1>1, <1>3, <1>4, <1>8, <1>9, ScriptHeads DEF Fits
<1>11. \A h \in Goroutines : h # g => Fits(h)'
  BY <1>3, <1>4 DEF Fits
<1>12. QED  BY <1>6, <1>7, <1>10, <1>11 DEF Serial

LEMMA WorldSerial ==
  ASSUME TInv, SerialInv,
         (\E n \in Names : Halt(n) \/ Mute(n)) \/ NodeDown \/ NodeBack
  PROVE  SerialInv'
<1>1. UNCHANGED <<registered, state, health, todo, job, scenario>>
  BY DEF Halt, Mute, NodeDown, NodeBack, record
<1>2. \A m \in Names : lxd'[m] = "Running" => lxd[m] = "Running"
  BY DEF Halt, Mute, NodeDown, NodeBack, host, TInv, HostTypes
<1> SUFFICES ASSUME Serial PROVE Serial'
  BY <1>1 DEF SerialInv
<1>3. Alone' /\ HealthOnlyWhenRunning'
  BY <1>1 DEF Serial, Alone, HealthOnlyWhenRunning
<1>4. Restarted'
  BY <1>1, <1>2 DEF Serial, Restarted, N, TInv, RecordTypes, NoStartIsLost,
     Faults, Ops
<1>5. \A g \in Goroutines : Fits(g)'
  BY <1>1, <1>2 DEF Serial, Fits, N, Op, TInv, GoTypes, NoStartIsLost, Faults,
     Ops
<1>6. QED  BY <1>3, <1>4, <1>5 DEF Serial

LEMMA NextSerial == TInv /\ SerialInv /\ [Next]_vars => SerialInv'
<1> SUFFICES ASSUME TInv, SerialInv, [Next]_vars PROVE SerialInv'
  OBVIOUS
<1>1. TInv'
  BY NextTypes
<1>2. ASSUME NEW g \in Goroutines, Step(g) PROVE SerialInv'
  <2>1. scenario' = scenario
    BY <1>2 DEF Step, CreateContainer, StartContainer, StopContainer,
       DeleteContainer, LxdCall, FindContainer, Forward, Unforward, Register,
       Unregister, SetRunning, SetStopped, SetCreating, setState, Created,
       MarkLost, MarkUnhealthy, ClearHealth, SetHealth, NodeUnhealthy, NodeLost,
       NodeClear, SetNodeHealth, Ping, SyncDNAT, AskNode, Inspect, ExecCheck,
       Look, GetExec, Continue, Fail, Then
  <2>2. QED  BY <1>1, <1>2, <2>1, StepSerial DEF SerialInv
<1>3. CASE UNCHANGED vars
  BY <1>3 DEF vars, record, host, node, SerialInv, Serial, Alone, Restarted,
     HealthOnlyWhenRunning, Fits, N, Op, NoStartIsLost, Faults, Ops
<1>4. QED  BY <1>2, <1>3, NextBegan, BeganSerial, WorldSerial

LEMMA InitSerial == Init => SerialInv
BY DEF Init, SerialInv, Serial, Alone, Restarted, HealthOnlyWhenRunning, Fits

LEMMA SerialIsTrue == TInv /\ SerialInv => LifecycleInv
<1> SUFFICES ASSUME TInv, SerialInv, scenario.serial
             PROVE  /\ HealthOnlyWhenRunning
                    /\ NoStartIsLost => StoppedMeansStopped
  BY TInvTypes DEF LifecycleInv, RecordIsTrue
<1>1. NoStartIsLost => StoppedMeansStopped
  <2> SUFFICES ASSUME NoStartIsLost, NEW n \in registered, Settled(n), state[n] = "stopped",
                      lxd[n] = "Running"
               PROVE  FALSE
    BY DEF StoppedMeansStopped
  <2>1. PICK g \in Goroutines : N(g) = n /\ todo[g] = One("setRunning")
    BY DEF SerialInv, Serial, Restarted
  <2>2. todo[g] # <<>> /\ At(g, "setRunning")
    BY <2>1, OneHead DEF At
  <2>3. Op(g) # "checkNode"
    BY <2>2, OpOf
  <2>4. QED  BY <2>1, <2>2, <2>3 DEF Settled, Busy
<1>2. QED  BY <1>1 DEF SerialInv, Serial

\* Requests and checks that do not overlap keep the records true, whatever
\* fails in them, before or after it took effect: health is empty unless the
\* container is reported running, and, unless the answer to a start is lost,
\* one that is reported stopped does not run when nothing is in flight.
THEOREM RecordsAreTrue == Spec => []LifecycleInv
<1>1. Init => TInv /\ SerialInv
  BY InitTypes, InitSerial
<1>2. TInv /\ SerialInv /\ [Next]_vars => (TInv /\ SerialInv)'
  BY NextTypes, NextSerial
<1>3. TInv /\ SerialInv => LifecycleInv
  BY SerialIsTrue
<1>4. QED  BY <1>1, <1>2, <1>3, PTL DEF Spec

(***************************************************************************)
(* One request at a time, no faults, and checks whenever they like         *)
(***************************************************************************)
OneRequest == \A p, q \in Procs : p = q

\* A container nobody works on, or which nothing has been done to yet.
Base(n) ==
  IF n \in registered
  THEN /\ lxd[n] # "none" /\ n \in rule
       /\ state[n] = "running" => lxd[n] = "Running"
  ELSE lxd[n] = "none" /\ n \notin rule
Reg(n, status) == n \in registered /\ lxd[n] = status
\* Container n, while request op has the calls of q still to make for it.
Phase(op, q, n) ==
  \/ q = createContainerCore /\ n \notin registered /\ Base(n)
  \/ q = createContainerOnNode /\ Reg(n, "none")
  \/ q = start_forward_created /\ Reg(n, "Stopped")
  \/ q = forward_created /\ Reg(n, "Running")
  \/ q = One("created") /\ Reg(n, "Running") /\ n \in rule
  \/ /\ q \in {handleStart, handleStop, handleRestart}
     /\ op \in {"start", "stop", "restart"}
     /\ n \in registered /\ Base(n)
  \/ /\ q = handleStart /\ op \in {"start", "stop", "restart"}
     /\ Reg(n, "Stopped") /\ n \in rule
  \/ q = One("setRunning") /\ Reg(n, "Running") /\ n \in rule
  \/ q = One("setStopped") /\ Reg(n, "Stopped") /\ n \in rule
  \/ /\ q \in {One("find"), handleRebuild, unforward_find}
     /\ op \in {"delete", "destroy", "rebuild"}
     /\ n \in registered /\ lxd[n] # "none"
  \/ /\ q \in {recreate, unforward_unregister_delete,
               unforward_delete_unregister}
     /\ Reg(n, "Stopped")
  \/ /\ q \in {stop_recreate, unforward_unregister_stop_delete,
               unforward_stop_delete_unregister}
     /\ Reg(n, "Running")
  \/ /\ q \in {unregister_delete, delete_unregister}
     /\ Reg(n, "Stopped") /\ n \notin rule
  \/ /\ q \in {unregister_stop_delete, stop_delete_unregister}
     /\ Reg(n, "Running") /\ n \notin rule
  \/ q = One("unregister") /\ Reg(n, "none") /\ n \notin rule
  \/ /\ q = stop_delete
     /\ n \notin registered /\ lxd[n] = "Running" /\ n \notin rule
  \/ /\ q = One("delete")
     /\ n \notin registered /\ lxd[n] = "Stopped" /\ n \notin rule

Works(g) == todo[g] # <<>> /\ Op(g) \in Requests \ {"get"}
NodeCalls == {<<>>, One("ping"), One("nodeClear")}
Quiet ==
  /\ nodeUp = TRUE /\ nodeHealth # "lost"
  /\ \A g \in Goroutines : Op(g) = "checkNode" => todo[g] \in NodeCalls
  /\ \A g \in Goroutines :
        Works(g) => g \in Procs /\ Phase(Op(g), todo[g], N(g))
  /\ \A n \in Names : Base(n) \/ \E g \in Goroutines : Works(g) /\ N(g) = n
QuietInv == Faults = {} => Quiet

\* A step of the request at work has to account for its container only.
LEMMA WorkQuiet ==
  ASSUME TInv, Quiet, OneRequest, NEW g \in Goroutines, Works(g),
         NEW n, n = N(g), NEW q, q = todo'[g], NEW op, op = Op(g),
         \A h \in Goroutines : h # g => todo'[h] = todo[h], job' = job,
         \A m \in Names : m # n =>
            /\ m \in registered' <=> m \in registered
            /\ m \in rule' <=> m \in rule
            /\ state'[m] = state[m] /\ lxd'[m] = lxd[m],
         UNCHANGED <<nodeUp, nodeHealth>>,
         q = <<>> => Base(n)', q # <<>> => Phase(op, q, n)'
  PROVE  Quiet'
<1>1. g \in Procs /\ \A h \in Goroutines : h # g => ~Works(h)
  BY DEF Quiet, OneRequest
<1>2. \A h \in Goroutines : Op(h)' = Op(h) /\ N(h)' = N(h)
  BY DEF Op, N
<1>3. \A h \in Goroutines : h # g => ~Works(h)'
  BY <1>1, <1>2 DEF Works
<1>4. Works(g)' <=> q # <<>>
  BY <1>2 DEF Works
<1>5. Works(g)' => Phase(Op(g), todo[g], N(g))'
  <2> SUFFICES ASSUME q # <<>> PROVE Phase(Op(g), todo[g], N(g))'
    BY <1>4
  <2>1. Phase(op, q, n)'
    OBVIOUS
  <2>2. Op(g)' = op /\ todo'[g] = q /\ N(g)' = n
    BY <1>2
  <2>3. QED  BY <2>2
<1>6. \A h \in Goroutines :
         Works(h)' => h \in Procs /\ Phase(Op(h), todo[h], N(h))'
  BY <1>1, <1>3, <1>5
<1>7. \A h \in Goroutines : (Op(h) = "checkNode" => todo[h] \in NodeCalls)'
  <2>1. Op(g) # "checkNode"
    BY Elems DEF Works
  <2>2. QED  BY <1>2, <2>1 DEF Quiet
<1>8. ASSUME NEW m \in Names
      PROVE  Base(m)' \/ \E h \in Goroutines : Works(h)' /\ N(h)' = m
  <2>1. CASE m = n
    BY <1>2, <1>4, <2>1
  <2>2. CASE m # n
    <3>1. Base(m)
      BY <1>1, <2>2 DEF Quiet
    <3>2. QED  BY <2>2, <3>1 DEF Base
  <2>3. QED  BY <2>1, <2>2
<1>9. nodeUp' = TRUE /\ nodeHealth' # "lost"
  BY DEF Quiet
<1>10. QED  BY <1>6, <1>7, <1>8 DEF Quiet

\* A step of a check, or of a read, may report a container stopped.
LEMMA CheckQuiet ==
  ASSUME TInv, Quiet, NEW g \in Goroutines, ~Works(g), todo[g] # <<>>,
         \A h \in Goroutines : h # g => todo'[h] = todo[h], job' = job,
         UNCHANGED <<registered, lxd, rule, nodeUp>>, nodeHealth' # "lost",
         \A m \in Names : state'[m] = state[m] \/ state'[m] = "stopped",
         Op(g) = "checkNode" => todo'[g] \in NodeCalls
  PROVE  Quiet'
<1>1. \A h \in Goroutines : Op(h)' = Op(h) /\ N(h)' = N(h)
  BY DEF Op, N
<1>2. Op(g) \notin Requests \ {"get"}
  BY DEF Works
<1>3. \A h \in Goroutines : Works(h)' <=> Works(h)
  BY <1>1 DEF Works
<1>4. \A m \in Names : Base(m) => Base(m)'
  BY DEF Base
<1>5. ASSUME NEW h \in Goroutines, Works(h)'
      PROVE  h \in Procs /\ Phase(Op(h), todo[h], N(h))'
  <2>1. Works(h) /\ h # g /\ todo'[h] = todo[h]
    BY <1>3, <1>5
  <2>2. h \in Procs /\ Phase(Op(h), todo[h], N(h)) /\ N(h) \in Names
    BY <2>1 DEF Quiet, TInv, GoTypes, N
  <2>3. Base(N(h)) => Base(N(h))'
    BY <1>1, <2>2 DEF Base
  <2>4. QED  BY <1>1, <2>1, <2>2, <2>3 DEF Phase, Reg
<1>6. \A h \in Goroutines : (Op(h) = "checkNode" => todo[h] \in NodeCalls)'
  BY <1>1 DEF Quiet
<1>7. \A m \in Names : Base(m)' \/ \E h \in Goroutines : Works(h)' /\ N(h)' = m
  BY <1>1, <1>3, <1>4 DEF Quiet
<1>8. QED  BY <1>5, <1>6, <1>7 DEF Quiet

\* The same, by the call that is next.
LEMMA PhaseHeads ==
  ASSUME NEW op, NEW q, NEW n, Phase(op, q, n), NEW s, Head(q) = s
  PROVE  /\ q # <<>>
         /\ s \in {"register", "create", "start", "stop", "delete", "forward",
                  "unforward", "find", "setCreating", "unregister", "created",
                  "setRunning", "setStopped"}
         /\ s = "register" =>
              Tail(q) = createContainerOnNode /\ n \notin registered /\ Base(n)
         /\ s = "create" =>
              Tail(q) = start_forward_created /\ Reg(n, "none")
         /\ s = "start" =>
              \/ Tail(q) = forward_created /\ Reg(n, "Stopped")
              \/ /\ Tail(q) = One("setRunning")
                 /\ op \in {"start", "stop", "restart"}
                 /\ n \in registered
                 /\ Base(n) \/ (lxd[n] = "Stopped" /\ n \in rule)
         /\ s = "stop" =>
              \/ /\ Tail(q) \in {One("setStopped"), handleStart}
                 /\ op \in {"start", "stop", "restart"} /\ n \in registered
                 /\ Base(n)
              \/ Tail(q) = recreate /\ Reg(n, "Running")
              \/ Tail(q) = delete_unregister /\ Reg(n, "Running")
                 /\ n \notin rule
              \/ /\ Tail(q) = One("delete") /\ n \notin registered
                 /\ lxd[n] = "Running" /\ n \notin rule
         /\ s = "delete" =>
              \/ Tail(q) = createContainerOnNode /\ Reg(n, "Stopped")
              \/ Tail(q) = One("unregister") /\ Reg(n, "Stopped")
                 /\ n \notin rule
              \/ /\ Tail(q) = <<>> /\ n \notin registered
                 /\ lxd[n] = "Stopped" /\ n \notin rule
         /\ s = "forward" =>
              Tail(q) = One("created") /\ Reg(n, "Running")
         /\ s = "unforward" =>
              \/ /\ Tail(q) = One("find")
                 /\ op \in {"delete", "destroy", "rebuild"}
                 /\ n \in registered /\ lxd[n] # "none"
              \/ /\ Tail(q) \in {unregister_delete, delete_unregister}
                 /\ Reg(n, "Stopped")
              \/ /\ Tail(q) \in {unregister_stop_delete, stop_delete_unregister}
                 /\ Reg(n, "Running")
         /\ s = "find" =>
              /\ op \in {"delete", "destroy", "rebuild"}
              /\ n \in registered /\ lxd[n] # "none"
         /\ s = "setCreating" =>
              /\ Tail(q) = unforward_find
              /\ op \in {"delete", "destroy", "rebuild"}
              /\ n \in registered /\ lxd[n] # "none"
         /\ s = "unregister" =>
              \/ Tail(q) = One("delete") /\ Reg(n, "Stopped") /\ n \notin rule
              \/ Tail(q) = stop_delete /\ Reg(n, "Running") /\ n \notin rule
              \/ Tail(q) = <<>> /\ Reg(n, "none") /\ n \notin rule
         /\ s = "created" =>
              Tail(q) = <<>> /\ Reg(n, "Running") /\ n \in rule
         /\ s = "setRunning" =>
              Tail(q) = <<>> /\ Reg(n, "Running") /\ n \in rule
         /\ s = "setStopped" =>
              Tail(q) = <<>> /\ Reg(n, "Stopped") /\ n \in rule
<1>1. \A x \in Steps : Is(One(x), x, <<>>)
  BY Singles
<1>2. /\ Is(One("created"), "created", <<>>) /\ Is(One("find"), "find", <<>>)
      /\ Is(One("setRunning"), "setRunning", <<>>)
      /\ Is(One("setStopped"), "setStopped", <<>>)
      /\ Is(One("unregister"), "unregister", <<>>)
      /\ Is(One("delete"), "delete", <<>>)
  BY <1>1 DEF Steps
<1>3. CASE \/ q = createContainerCore /\ n \notin registered /\ Base(n)
           \/ q = createContainerOnNode /\ Reg(n, "none")
           \/ q = start_forward_created /\ Reg(n, "Stopped")
           \/ q = forward_created /\ Reg(n, "Running")
           \/ q = One("created") /\ Reg(n, "Running") /\ n \in rule
  BY <1>2, <1>3, CreateIs DEF Is
<1>4. CASE \/ /\ q \in {handleStart, handleStop, handleRestart}
              /\ op \in {"start", "stop", "restart"}
              /\ n \in registered /\ Base(n)
           \/ /\ q = handleStart /\ op \in {"start", "stop", "restart"}
              /\ Reg(n, "Stopped") /\ n \in rule
           \/ q = One("setRunning") /\ Reg(n, "Running") /\ n \in rule
           \/ q = One("setStopped") /\ Reg(n, "Stopped") /\ n \in rule
  BY <1>2, <1>4, StartStopIs DEF Is, Reg
<1>5. CASE \/ /\ q \in {One("find"), handleRebuild, unforward_find}
              /\ op \in {"delete", "destroy", "rebuild"}
              /\ n \in registered /\ lxd[n] # "none"
           \/ q = recreate /\ Reg(n, "Stopped")
           \/ q = stop_recreate /\ Reg(n, "Running")
  BY <1>2, <1>5, RebuildIs DEF Is
<1>6. CASE \/ q = unforward_unregister_delete /\ Reg(n, "Stopped")
           \/ q = unforward_unregister_stop_delete /\ Reg(n, "Running")
           \/ q = unregister_delete /\ Reg(n, "Stopped") /\ n \notin rule
           \/ q = unregister_stop_delete /\ Reg(n, "Running") /\ n \notin rule
           \/ /\ q = stop_delete
              /\ n \notin registered /\ lxd[n] = "Running" /\ n \notin rule
           \/ /\ q = One("delete")
              /\ n \notin registered /\ lxd[n] = "Stopped" /\ n \notin rule
  BY <1>2, <1>6, DeleteIs DEF Is
<1>7. CASE \/ q = unforward_delete_unregister /\ Reg(n, "Stopped")
           \/ q = unforward_stop_delete_unregister /\ Reg(n, "Running")
           \/ q = delete_unregister /\ Reg(n, "Stopped") /\ n \notin rule
           \/ q = stop_delete_unregister /\ Reg(n, "Running") /\ n \notin rule
           \/ q = One("unregister") /\ Reg(n, "none") /\ n \notin rule
  BY <1>2, <1>7, DestroyIs DEF Is
<1>8. QED  BY <1>3, <1>4, <1>5, <1>6, <1>7 DEF Phase

\* What Quiet says of a goroutine at work.
WorksOn(g, op, q, n, s) ==
  /\ g \in Goroutines /\ Works(g) /\ n = N(g) /\ op = Op(g) /\ q = todo[g]
  /\ At(g, s) /\ Faults = {}

LEMMA WorkAt ==
  ASSUME TInv, Quiet, NEW g, NEW op, NEW q, NEW n, NEW s,
         WorksOn(g, op, q, n, s)
  PROVE  /\ n \in Names /\ Phase(op, q, n) /\ Head(q) = s
         /\ nodeUp = TRUE /\ Succeeds = TRUE /\ MayFail = FALSE
BY AtPlace DEF WorksOn, Quiet, Succeeds, MayFail

\* LXD calls: what fails is a call that finds the wrong status.
LEMMA LxdFrame ==
  ASSUME TInv, Quiet, NEW g \in Goroutines, NEW op, NEW q, NEW n, NEW s,
         WorksOn(g, op, q, n, s), NEW from, NEW to, LxdCall(g, s, from, to)
  PROVE  /\ UNCHANGED <<registered, state, rule, nodeUp, nodeHealth>>
         /\ job' = job
         /\ \A h \in Goroutines : h # g => todo'[h] = todo[h]
         /\ \A m \in Names : m # n => lxd'[m] = lxd[m]
         /\ \/ lxd[n] \in from /\ lxd'[n] = to /\ todo'[g] = Tail(q)
            \/ lxd[n] \notin from /\ lxd' = lxd
               /\ todo'[g] = OnError(op, s, Tail(q))
<1>1. n = N(g) /\ op = Op(g) /\ q = todo[g] /\ At(g, s) /\ MayFail = FALSE
  BY WorkAt DEF WorksOn
<1>2. lxd \in [Names -> {"none", "Stopped", "Running"}] /\ n \in Names
  BY WorkAt DEF TInv, HostTypes
<1>3. /\ UNCHANGED <<registered, state, rule, nodeUp, nodeHealth>>
      /\ \/ /\ lxd[n] \in from /\ lxd' = [lxd EXCEPT ![n] = to]
            /\ Continue(g)
         \/ lxd[n] \notin from /\ lxd' = lxd /\ Fail(g)
  BY <1>1 DEF LxdCall, record, node, WorksOn
<1>4. CASE Continue(g)
  BY <1>1, <1>2, <1>3, ContinueTypes, FailTypes
<1>5. CASE lxd[n] \notin from /\ lxd' = lxd /\ Fail(g)
  BY <1>1, <1>3, <1>5, FailTypes
<1>6. QED  BY <1>3, <1>4, <1>5

\* The places have calls left to make.
LEMMA PlacesNonempty ==
  /\ \A s : One(s) # <<>>
  /\ createContainerOnNode # <<>> /\ start_forward_created # <<>>
  /\ forward_created # <<>> /\ handleStart # <<>> /\ unforward_find # <<>>
  /\ recreate # <<>> /\ delete_unregister # <<>> /\ unregister_delete # <<>>
  /\ unregister_stop_delete # <<>> /\ stop_delete_unregister # <<>>
  /\ stop_delete # <<>>
BY OneHead, CreateIs, StartStopIs, DeleteIs, DestroyIs, RebuildIs DEF Is

\* A call of the request at work, and what comes of its own container.
LEMMA LxdQuiet ==
  ASSUME TInv, Quiet, OneRequest, NEW g \in Goroutines, NEW op, NEW n,
         NEW q, NEW s, WorksOn(g, op, q, n, s), NEW from, NEW to,
         LxdCall(g, s, from, to), NEW rest, rest = todo'[g],
         rest = <<>> => Base(n)', rest # <<>> => Phase(op, rest, n)'
  PROVE  Quiet'
<1>1. /\ UNCHANGED <<registered, state, rule, nodeUp, nodeHealth>>
      /\ job' = job /\ \A h \in Goroutines : h # g => todo'[h] = todo[h]
  BY LxdFrame
<1>2. \A m \in Names : m # n => lxd'[m] = lxd[m]
  BY LxdFrame
<1>3. Works(g) /\ n = N(g) /\ op = Op(g)
  BY DEF WorksOn
<1>4. QED  BY <1>1, <1>2, <1>3, WorkQuiet

LEMMA CreateQuiet ==
  ASSUME TInv, Quiet, OneRequest, NEW g \in Goroutines, NEW op, NEW n,
         NEW q, WorksOn(g, op, q, n, "create"),
         LxdCall(g, "create", {"none"}, "Stopped")
  PROVE  Quiet'
<1>1. /\ Tail(q) = start_forward_created /\ Reg(n, "none")
  <2>1. Phase(op, q, n) /\ Head(q) = "create"
    BY WorkAt
  <2>2. QED  BY <2>1, PhaseHeads
<1>2. PICK rest : rest = todo'[g]
  OBVIOUS
<1>3. /\ rest = start_forward_created /\ lxd'[n] = "Stopped"
      /\ registered' = registered
  <2>1. \/ lxd[n] \in {"none"} /\ lxd'[n] = "Stopped" /\ todo'[g] = Tail(q)
        \/ lxd[n] \notin {"none"}
    BY LxdFrame
  <2>2. registered' = registered
    BY LxdFrame
  <2>3. QED  BY <1>1, <1>2, <2>1, <2>2 DEF Reg
<1>4. rest # <<>> /\ Phase(op, rest, n)'
  BY <1>1, <1>3, PlacesNonempty DEF Phase, Reg
<1>5. QED  BY <1>2, <1>4, LxdQuiet

LEMMA StartQuiet ==
  ASSUME TInv, Quiet, OneRequest, NEW g \in Goroutines, NEW op, NEW n,
         NEW q, WorksOn(g, op, q, n, "start"),
         LxdCall(g, "start", {"Stopped"}, "Running")
  PROVE  Quiet'
<1>1. \/ Tail(q) = forward_created /\ Reg(n, "Stopped")
      \/ /\ Tail(q) = One("setRunning") /\ op \in {"start", "stop", "restart"}
         /\ n \in registered
         /\ Base(n) \/ (lxd[n] = "Stopped" /\ n \in rule)
  <2>1. Phase(op, q, n) /\ Head(q) = "start"
    BY WorkAt
  <2>2. QED  BY <2>1, PhaseHeads
<1>2. PICK rest : rest = todo'[g]
  OBVIOUS
<1>3. UNCHANGED <<registered, state, rule>>
  BY LxdFrame
<1>4. CASE /\ lxd[n] = "Stopped" /\ lxd'[n] = "Running" /\ rest = Tail(q)
  <2>1. \/ rest = forward_created /\ Reg(n, "Running")'
        \/ rest = One("setRunning") /\ Reg(n, "Running")' /\ n \in rule'
    BY <1>1, <1>3, <1>4 DEF Reg, Base
  <2>2. rest # <<>> /\ Phase(op, rest, n)'
    BY <2>1, PlacesNonempty DEF Phase
  <2>3. QED  BY <1>2, <2>2, LxdQuiet
<1>5. CASE /\ lxd[n] # "Stopped" /\ lxd' = lxd
           /\ rest = OnError(op, "start", Tail(q))
  <2>1. op \in {"start", "stop", "restart"} /\ Base(n)
    BY <1>1, <1>5 DEF Reg
  <2>2. rest = <<>>
    BY <1>5, <2>1 DEF OnError
  <2>3. Base(n)'
    BY <1>3, <1>5, <2>1 DEF Base
  <2>4. QED  BY <1>2, <2>2, <2>3, LxdQuiet
<1>6. QED  BY <1>2, <1>4, <1>5, LxdFrame

LEMMA StopQuiet ==
  ASSUME TInv, Quiet, OneRequest, NEW g \in Goroutines, NEW op, NEW n,
         NEW q, WorksOn(g, op, q, n, "stop"),
         LxdCall(g, "stop", {"Running"}, "Stopped")
  PROVE  Quiet'
<1>1. \/ /\ Tail(q) \in {One("setStopped"), handleStart}
         /\ op \in {"start", "stop", "restart"} /\ n \in registered /\ Base(n)
      \/ Tail(q) = recreate /\ Reg(n, "Running")
      \/ Tail(q) = delete_unregister /\ Reg(n, "Running") /\ n \notin rule
      \/ /\ Tail(q) = One("delete") /\ n \notin registered
         /\ lxd[n] = "Running" /\ n \notin rule
  <2>1. Phase(op, q, n) /\ Head(q) = "stop"
    BY WorkAt
  <2>2. QED  BY <2>1, PhaseHeads
<1>2. PICK rest : rest = todo'[g]
  OBVIOUS
<1>3. UNCHANGED <<registered, state, rule>>
  BY LxdFrame
<1>4. CASE /\ lxd[n] = "Running" /\ lxd'[n] = "Stopped" /\ rest = Tail(q)
  <2>1. \/ /\ rest \in {One("setStopped"), handleStart}
           /\ op \in {"start", "stop", "restart"} /\ Reg(n, "Stopped")'
           /\ n \in rule'
        \/ rest = recreate /\ Reg(n, "Stopped")'
        \/ rest = delete_unregister /\ Reg(n, "Stopped")' /\ n \notin rule'
        \/ /\ rest = One("delete") /\ n \notin registered'
           /\ lxd'[n] = "Stopped" /\ n \notin rule'
    BY <1>1, <1>3, <1>4 DEF Reg, Base
  <2>2. rest # <<>> /\ Phase(op, rest, n)'
    BY <2>1, PlacesNonempty DEF Phase
  <2>3. QED  BY <1>2, <2>2, LxdQuiet
<1>5. CASE /\ lxd[n] # "Running" /\ lxd' = lxd
           /\ rest = OnError(op, "stop", Tail(q))
  <2>1. op \in {"start", "stop", "restart"} /\ Base(n)
    BY <1>1, <1>5 DEF Reg
  <2>2. rest = <<>>
    BY <1>5, <2>1 DEF OnError
  <2>3. Base(n)'
    BY <1>3, <1>5, <2>1 DEF Base
  <2>4. QED  BY <1>2, <2>2, <2>3, LxdQuiet
<1>6. QED  BY <1>2, <1>4, <1>5, LxdFrame

LEMMA DeleteQuiet ==
  ASSUME TInv, Quiet, OneRequest, NEW g \in Goroutines, NEW op, NEW n,
         NEW q, WorksOn(g, op, q, n, "delete"),
         LxdCall(g, "delete", {"Stopped", "Running"}, "none")
  PROVE  Quiet'
<1>1. \/ Tail(q) = createContainerOnNode /\ Reg(n, "Stopped")
      \/ Tail(q) = One("unregister") /\ Reg(n, "Stopped") /\ n \notin rule
      \/ /\ Tail(q) = <<>> /\ n \notin registered
         /\ lxd[n] = "Stopped" /\ n \notin rule
  <2>1. Phase(op, q, n) /\ Head(q) = "delete"
    BY WorkAt
  <2>2. QED  BY <2>1, PhaseHeads
<1>2. PICK rest : rest = todo'[g]
  OBVIOUS
<1>3. /\ UNCHANGED <<registered, state, rule>>
      /\ lxd'[n] = "none" /\ rest = Tail(q)
  BY <1>1, <1>2, LxdFrame DEF Reg
<1>4. CASE rest = <<>>
  <2>1. n \notin registered /\ n \notin rule
    BY <1>1, <1>3, <1>4, PlacesNonempty
  <2>2. Base(n)'
    BY <1>3, <2>1 DEF Base
  <2>3. QED  BY <1>2, <1>4, <2>2, LxdQuiet
<1>5. CASE rest # <<>>
  <2>1. Phase(op, rest, n)'
    BY <1>1, <1>3, <1>5 DEF Phase, Reg
  <2>2. QED  BY <1>2, <1>5, <2>1, LxdQuiet
<1>6. QED  BY <1>4, <1>5

\* A call about the record.
LEMMA RecordQuiet ==
  ASSUME TInv, Quiet, OneRequest, NEW g \in Goroutines, RecordStep(g),
         NEW op, NEW n, NEW q, NEW s, WorksOn(g, op, q, n, s),
         NEW rest, rest = todo'[g],
         rest = <<>> => Base(n)', rest # <<>> => Phase(op, rest, n)'
  PROVE  Quiet'
<1>1. Works(g) /\ n = N(g) /\ op = Op(g) /\ q = todo[g]
  BY DEF WorksOn
<1>2. /\ job' = job /\ \A h \in Goroutines : h # g => todo'[h] = todo[h]
  BY RecordEffect
<1>3. \A m \in Names : m # n =>
         /\ m \in registered' <=> m \in registered
         /\ state'[m] = state[m] /\ lxd'[m] = lxd[m]
  BY <1>1, RecordEffect
<1>4. UNCHANGED <<rule, nodeUp, nodeHealth>>
  BY DEF RecordStep, Register, Unregister, SetRunning, SetStopped, SetCreating,
     setState, Created, MarkLost, MarkUnhealthy, ClearHealth, SetHealth, host,
     node
<1>5. \A m \in Names : m # n =>
         /\ m \in registered' <=> m \in registered
         /\ m \in rule' <=> m \in rule
         /\ state'[m] = state[m] /\ lxd'[m] = lxd[m]
  BY <1>3, <1>4
<1>6. UNCHANGED <<nodeUp, nodeHealth>>
  BY <1>4
<1>7. QED  BY <1>1, <1>2, <1>5, <1>6, WorkQuiet

\* A record comes and goes.
LEMMA RegisterQuiet ==
  ASSUME TInv, Quiet, OneRequest, NEW g \in Goroutines, NEW op, NEW n, NEW q,
         WorksOn(g, op, q, n, "register"), Register(g)
  PROVE  Quiet'
<1>1. Phase(op, q, n) /\ Head(q) = "register"
  BY WorkAt
<1>2. Tail(q) = createContainerOnNode /\ lxd[n] = "none"
  BY <1>1, PhaseHeads DEF Base
<1>3. registered' = registered \cup {n} /\ lxd' = lxd
  BY DEF Register, host, WorksOn
<1>4. PICK rest : rest = todo'[g]
  OBVIOUS
<1>5. RecordStep(g) /\ rest = Tail(q)
  BY <1>4, RecordEffect DEF RecordStep, WorksOn
<1>6. rest # <<>> /\ Phase(op, rest, n)'
  BY <1>2, <1>3, <1>5, PlacesNonempty DEF Phase, Reg
<1>7. QED  BY <1>4, <1>6, <1>5, RecordQuiet

LEMMA UnregisterQuiet ==
  ASSUME TInv, Quiet, OneRequest, NEW g \in Goroutines, NEW op, NEW n, NEW q,
         WorksOn(g, op, q, n, "unregister"), Unregister(g)
  PROVE  Quiet'
<1>1. Phase(op, q, n) /\ Head(q) = "unregister"
  BY WorkAt
<1>2. \/ Tail(q) = One("delete") /\ Reg(n, "Stopped") /\ n \notin rule
      \/ Tail(q) = stop_delete /\ Reg(n, "Running") /\ n \notin rule
      \/ Tail(q) = <<>> /\ Reg(n, "none") /\ n \notin rule
  BY <1>1, PhaseHeads
<1>3. registered' = registered \ {n} /\ lxd' = lxd /\ rule' = rule
  BY DEF Unregister, host, WorksOn
<1>4. PICK rest : rest = todo'[g]
  OBVIOUS
<1>5. RecordStep(g) /\ rest = Tail(q)
  BY <1>4, RecordEffect DEF RecordStep, WorksOn
<1>6. CASE rest = <<>>
  <2>1. Base(n)'
    BY <1>2, <1>3, <1>5, <1>6, PlacesNonempty DEF Base, Reg
  <2>2. QED  BY <1>4, <1>6, <1>5, <2>1, RecordQuiet
<1>7. CASE rest # <<>>
  <2>1. Phase(op, rest, n)'
    BY <1>2, <1>3, <1>5, <1>7 DEF Phase, Reg
  <2>2. QED  BY <1>4, <1>7, <1>5, <2>1, RecordQuiet
<1>8. QED  BY <1>6, <1>7

\* A rebuild begins.
LEMMA SetCreatingQuiet ==
  ASSUME TInv, Quiet, OneRequest, NEW g \in Goroutines, NEW op, NEW n, NEW q,
         WorksOn(g, op, q, n, "setCreating"), SetCreating(g)
  PROVE  Quiet'
<1>1. Phase(op, q, n) /\ Head(q) = "setCreating"
  BY WorkAt
<1>2. /\ Tail(q) = unforward_find /\ op \in {"delete", "destroy", "rebuild"}
      /\ n \in registered /\ lxd[n] # "none"
  BY <1>1, PhaseHeads
<1>3. registered' = registered /\ lxd' = lxd
  BY DEF SetCreating, setState, host
<1>4. PICK rest : rest = todo'[g]
  OBVIOUS
<1>5. RecordStep(g) /\ rest = Tail(q)
  BY <1>4, RecordEffect DEF RecordStep, WorksOn
<1>6. rest # <<>> /\ Phase(op, rest, n)'
  BY <1>2, <1>3, <1>5, PlacesNonempty DEF Phase
<1>7. QED  BY <1>4, <1>6, <1>5, RecordQuiet

\* A container is reported running, or stopped.
LEMMA SetStateQuiet ==
  ASSUME TInv, Quiet, OneRequest, NEW g \in Goroutines, NEW op, NEW n, NEW q,
         NEW s \in {"created", "setRunning", "setStopped"},
         WorksOn(g, op, q, n, s), Created(g) \/ SetRunning(g) \/ SetStopped(g)
  PROVE  Quiet'
<1>1. Phase(op, q, n) /\ Head(q) = s /\ n \in Names
  BY WorkAt
<1>2. n = N(g) /\ At(g, s)
  BY DEF WorksOn
<1>3. registered' = registered /\ lxd' = lxd /\ rule' = rule
  BY DEF Created, SetRunning, SetStopped, setState, host
<1>4. Tail(q) = <<>> /\ n \in registered /\ n \in rule
  BY <1>1, PhaseHeads DEF Reg
<1>5. Base(n)'
  <2>1. CASE s \in {"created", "setRunning"}
    <3>1. lxd[n] = "Running"
      BY <1>1, <2>1, PhaseHeads DEF Reg
    <3>2. QED  BY <1>3, <1>4, <3>1 DEF Base
  <2>2. CASE s = "setStopped"
    <3>1. lxd[n] = "Stopped"
      BY <1>1, <2>2, PhaseHeads DEF Reg
    <3>2. SetStopped(g)
      BY <1>2, <2>2 DEF Created, SetRunning, setState, At
    <3>3. state'[n] = "stopped"
      BY <1>1, <1>2, <1>4, <3>2 DEF SetStopped, setState, TInv, RecordTypes
    <3>4. QED  BY <1>3, <1>4, <3>1, <3>3 DEF Base
  <2>3. QED  BY <2>1, <2>2
<1>6. PICK rest : rest = todo'[g]
  OBVIOUS
<1>7. RecordStep(g) /\ rest = Tail(q)
  BY <1>6, RecordEffect DEF RecordStep, WorksOn
<1>8. QED  BY <1>4, <1>5, <1>6, <1>7, RecordQuiet

\* The DNAT rules.
LEMMA ForwardQuiet ==
  ASSUME TInv, Quiet, OneRequest, NEW g \in Goroutines, NEW op, NEW n, NEW q,
         NEW s \in {"forward", "unforward"},
         WorksOn(g, op, q, n, s), Forward(g) \/ Unforward(g)
  PROVE  Quiet'
<1>1. Phase(op, q, n) /\ Head(q) = s /\ n \in Names /\ MayFail = FALSE
  BY WorkAt
<1>2. Works(g) /\ n = N(g) /\ op = Op(g) /\ q = todo[g] /\ At(g, s)
  BY DEF WorksOn
<1>3. /\ job' = job /\ \A h \in Goroutines : h # g => todo'[h] = todo[h]
      /\ todo'[g] = Tail(q)
  BY <1>2, ContinueTypes DEF Forward, Unforward
<1>4. UNCHANGED <<registered, state, lxd, nodeUp, nodeHealth>>
  BY DEF Forward, Unforward, record, node
<1>5. /\ Tail(q) # <<>> /\ Phase(op, Tail(q), n)'
      /\ \A m \in Names : m # n => (m \in rule' <=> m \in rule)
  <2>1. CASE Forward(g)
    <3>1. Tail(q) = One("created") /\ Reg(n, "Running")
      BY <1>1, <1>2, <2>1, PhaseHeads DEF Forward, At
    <3>2. rule' = rule \cup {n}
      BY <1>1, <1>2, <2>1 DEF Forward
    <3>3. QED  BY <1>4, <3>1, <3>2, PlacesNonempty DEF Phase, Reg
  <2>2. CASE Unforward(g)
    <3>1. \/ /\ Tail(q) = One("find") /\ op \in {"delete", "destroy", "rebuild"}
             /\ n \in registered /\ lxd[n] # "none"
          \/ /\ Tail(q) \in {unregister_delete, delete_unregister}
             /\ Reg(n, "Stopped")
          \/ /\ Tail(q) \in {unregister_stop_delete, stop_delete_unregister}
             /\ Reg(n, "Running")
      BY <1>1, <1>2, <2>2, PhaseHeads DEF Unforward, At
    <3>2. rule' = rule \ {n}
      BY <1>1, <1>2, <2>2, <3>1 DEF Unforward, Reg
    <3>3. QED  BY <1>4, <3>1, <3>2, PlacesNonempty DEF Phase, Reg
  <2>3. QED  BY <2>1, <2>2
<1>6. PICK rest : rest = todo'[g]
  OBVIOUS
<1>7. rest # <<>> /\ Phase(op, rest, n)'
  BY <1>3, <1>5, <1>6
<1>8. QED  BY <1>2, <1>3, <1>4, <1>5, <1>6, <1>7, WorkQuiet

\* A removal finds its container.
LEMMA FindQuiet ==
  ASSUME TInv, Quiet, OneRequest, NEW g \in Goroutines, NEW op, NEW n, NEW q,
         WorksOn(g, op, q, n, "find"), FindContainer(g)
  PROVE  Quiet'
<1>1. Phase(op, q, n) /\ Head(q) = "find" /\ n \in Names /\ MayFail = FALSE
  BY WorkAt
<1>2. /\ Works(g) /\ n = N(g) /\ op = Op(g) /\ q = todo[g] /\ At(g, "find")
  BY DEF WorksOn
<1>3. /\ op \in {"delete", "destroy", "rebuild"}
      /\ n \in registered /\ lxd[n] # "none"
  BY <1>1, PhaseHeads
<1>4. Then(g, Found(op, lxd[n]))
  BY <1>1, <1>2, <1>3 DEF FindContainer, HasClient
<1>5. UNCHANGED <<registered, state, lxd, rule, nodeUp, nodeHealth>>
  BY DEF FindContainer, record, host, node
<1>6. Found(op, lxd[n]) \in LeftOf(Op(g))
  BY <1>2, <1>3, FoundPlaces DEF LeftOf
<1>7. /\ job' = job /\ \A h \in Goroutines : h # g => todo'[h] = todo[h]
      /\ todo'[g] = Found(op, lxd[n])
  BY <1>4, <1>6, ThenTypes
<1>8. lxd[n] \in {"Stopped", "Running"}
  BY <1>1, <1>3 DEF TInv, HostTypes
<1>9. Found(op, lxd[n]) \in
        IF lxd[n] = "Stopped"
        THEN {recreate, unforward_unregister_delete,
              unforward_delete_unregister}
        ELSE {stop_recreate, unforward_unregister_stop_delete,
              unforward_stop_delete_unregister}
  BY <1>3 DEF Found, handleDelete, destroyContainer, cleanupContainerLXD,
     unforward_unregister_delete, unforward_unregister_stop_delete,
     unforward_delete_unregister, unforward_stop_delete_unregister,
     stop_recreate
<1>10. PICK rest : rest = todo'[g]
  OBVIOUS
<1>11. Phase(op, rest, n)' /\ rest # <<>>
  <2>1. Phase(op, rest, n)'
    BY <1>3, <1>5, <1>7, <1>8, <1>9, <1>10 DEF Phase, Reg
  <2>2. rest # <<>>
    BY <1>7, <1>9, <1>10, RebuildIs, DeleteIs, DestroyIs DEF Is
  <2>3. QED  BY <2>1, <2>2
<1>12. QED  BY <1>2, <1>5, <1>7, <1>10, <1>11, WorkQuiet

\* Every step of the request at work.
LEMMA WorkingQuiet ==
  ASSUME TInv, Quiet, Faults = {}, OneRequest, NEW g \in Goroutines, Works(g),
         Step(g)
  PROVE  Quiet'
<1>1. PICK op, n, q, s : /\ op = Op(g) /\ n = N(g) /\ q = todo[g]
                         /\ s = Head(todo[g])
  OBVIOUS
<1>2. WorksOn(g, op, q, n, s)
  BY <1>1 DEF WorksOn, Works, At
<1>3. Phase(op, q, n) /\ Head(q) = s
  BY <1>2, WorkAt
<1>4. s \in {"register", "create", "start", "stop", "delete", "forward",
            "unforward", "find", "setCreating", "unregister", "created",
            "setRunning", "setStopped"}
  BY <1>3, PhaseHeads
<1>5. \A t : At(g, t) => t = s
  BY <1>1 DEF At
<1>6. CASE \/ CreateContainer(g) \/ StartContainer(g) \/ StopContainer(g)
           \/ DeleteContainer(g)
  <2>1. CASE CreateContainer(g)
    <3>1. s = "create"
      BY <1>5, <2>1 DEF CreateContainer, LxdCall
    <3>2. QED  BY <1>2, <2>1, <3>1, CreateQuiet DEF CreateContainer
  <2>2. CASE StartContainer(g)
    <3>1. s = "start"
      BY <1>5, <2>2 DEF StartContainer, LxdCall
    <3>2. QED  BY <1>2, <2>2, <3>1, StartQuiet DEF StartContainer
  <2>3. CASE StopContainer(g)
    <3>1. s = "stop"
      BY <1>5, <2>3 DEF StopContainer, LxdCall
    <3>2. QED  BY <1>2, <2>3, <3>1, StopQuiet DEF StopContainer
  <2>4. CASE DeleteContainer(g)
    <3>1. s = "delete"
      BY <1>5, <2>4 DEF DeleteContainer, LxdCall
    <3>2. QED  BY <1>2, <2>4, <3>1, DeleteQuiet DEF DeleteContainer
  <2>5. QED  BY <1>6, <2>1, <2>2, <2>3, <2>4
<1>7. CASE Register(g)
  <2>1. s = "register"
    BY <1>5, <1>7 DEF Register
  <2>2. QED  BY <1>2, <1>7, <2>1, RegisterQuiet
<1>8. CASE Unregister(g)
  <2>1. s = "unregister"
    BY <1>5, <1>8 DEF Unregister
  <2>2. QED  BY <1>2, <1>8, <2>1, UnregisterQuiet
<1>9. CASE SetCreating(g)
  <2>1. s = "setCreating"
    BY <1>5, <1>9 DEF SetCreating, setState
  <2>2. QED  BY <1>2, <1>9, <2>1, SetCreatingQuiet
<1>10. CASE Created(g) \/ SetRunning(g) \/ SetStopped(g)
  <2>1. s \in {"created", "setRunning", "setStopped"}
    BY <1>5, <1>10 DEF Created, SetRunning, SetStopped, setState
  <2>2. QED  BY <1>2, <1>10, <2>1, SetStateQuiet
<1>11. CASE Forward(g) \/ Unforward(g)
  <2>1. s \in {"forward", "unforward"}
    BY <1>5, <1>11 DEF Forward, Unforward
  <2>2. QED  BY <1>2, <1>11, <2>1, ForwardQuiet
<1>12. CASE FindContainer(g)
  <2>1. s = "find"
    BY <1>5, <1>12 DEF FindContainer
  <2>2. QED  BY <1>2, <1>12, <2>1, FindQuiet
<1>13. CASE \/ MarkLost(g) \/ MarkUnhealthy(g) \/ ClearHealth(g)
            \/ NodeUnhealthy(g) \/ NodeLost(g) \/ NodeClear(g) \/ Ping(g)
            \/ SyncDNAT(g) \/ AskNode(g) \/ Inspect(g) \/ ExecCheck(g)
            \/ Look(g) \/ GetExec(g)
  <2>1. s \in {"markLost", "markUnhealthy", "clearHealth", "nodeUnhealthy",
              "nodeLost", "nodeClear", "ping", "syncDNAT", "askNode", "inspect",
              "exec", "look"}
    BY <1>5, <1>13 DEF MarkLost, MarkUnhealthy, ClearHealth, SetHealth,
       NodeUnhealthy, NodeLost, NodeClear, SetNodeHealth, Ping, SyncDNAT,
       AskNode, Inspect, ExecCheck, Look, GetExec
  <2>2. QED  BY <1>4, <2>1
<1>14. QED
  BY <1>6, <1>7, <1>8, <1>9, <1>10, <1>11, <1>12, <1>13 DEF Step

\* Every step of a check, or of a read.
LEMMA CheckingQuiet ==
  ASSUME TInv, Quiet, Faults = {}, NEW g \in Goroutines, ~Works(g), Step(g)
  PROVE  Quiet'
<1>1. PICK s : At(g, s)
  BY DEF Step, CreateContainer, StartContainer, StopContainer, DeleteContainer,
     LxdCall, FindContainer, Forward, Unforward, Register, Unregister,
     SetRunning, SetStopped, SetCreating, setState, Created, MarkLost,
     MarkUnhealthy, ClearHealth, SetHealth, NodeUnhealthy, NodeLost, NodeClear,
     SetNodeHealth, Ping, SyncDNAT, AskNode, Inspect, ExecCheck, Look, GetExec
<1>2. /\ todo[g] \in Places(Op(g)) /\ Op(g) \in Jobs /\ Head(todo[g]) = s
      /\ todo[g] # <<>>
  BY <1>1, AtPlace DEF At
<1>3. Op(g) \in {"get", "checkNode", "checkContainer"}
  BY <1>2, PlaceOps, Elems DEF Works
<1>4. \A t : At(g, t) => t = s
  BY <1>1 DEF At
<1>5. \/ /\ Op(g) # "checkNode"
         /\ s \in {"look", "markUnhealthy", "exec", "clearHealth", "askNode",
                  "markLost", "inspect", "setStopped"}
      \/ Op(g) = "checkNode" /\ s \in {"ping", "nodeClear"}
  <2>1. CASE Op(g) = "checkNode"
    <3>1. todo[g] \in {One("ping"), One("nodeClear")}
      BY <1>2, <2>1 DEF Quiet, NodeCalls
    <3>2. QED  BY <1>2, <2>1, <3>1, OneHead
  <2>2. CASE Op(g) # "checkNode"
    BY <1>2, <1>3, <2>2, GetPlaces, CheckContainerPlaces DEF Here
  <2>3. QED  BY <2>1, <2>2
<1>6. \/ SetStopped(g) \/ MarkLost(g) \/ MarkUnhealthy(g) \/ ClearHealth(g)
      \/ NodeClear(g) \/ Ping(g) \/ AskNode(g) \/ Inspect(g) \/ ExecCheck(g)
      \/ Look(g) \/ GetExec(g)
  <2>1. s \notin {"create", "start", "stop", "delete", "find", "forward",
                 "unforward", "register", "unregister", "setRunning",
                 "setCreating", "created", "nodeUnhealthy", "nodeLost",
                 "syncDNAT"}
    BY <1>5
  <2>2. /\ ~CreateContainer(g) /\ ~StartContainer(g) /\ ~StopContainer(g)
        /\ ~DeleteContainer(g) /\ ~FindContainer(g) /\ ~Forward(g)
        /\ ~Unforward(g) /\ ~Register(g) /\ ~Unregister(g) /\ ~SetRunning(g)
        /\ ~SetCreating(g) /\ ~Created(g) /\ ~NodeUnhealthy(g)
        /\ ~NodeLost(g) /\ ~SyncDNAT(g)
    BY <1>4, <2>1 DEF CreateContainer, StartContainer, StopContainer,
       DeleteContainer, LxdCall, FindContainer, Forward, Unforward, Register,
       Unregister, SetRunning, SetCreating, setState, Created, NodeUnhealthy,
       NodeLost, SetNodeHealth, SyncDNAT
  <2>3. QED  BY <2>2 DEF Step
<1>7. PICK rest \in LeftOf(Op(g)) : Then(g, rest)
  <2>1. TInv'
    BY StepTypes
  <2>2. Then(g, todo'[g])
    BY <1>6 DEF SetStopped, setState, MarkLost, MarkUnhealthy, ClearHealth,
       SetHealth, NodeClear, SetNodeHealth, Ping, AskNode, Inspect, ExecCheck,
       Look, GetExec, Continue, Then, TInv, GoTypes
  <2>3. Op(g)' = Op(g)
    BY <2>2 DEF Then, Op
  <2>4. QED  BY <2>1, <2>2, <2>3 DEF TInv, GoTypes, PlacesOK
<1>8. job' = job /\ \A h \in Goroutines : h # g => todo'[h] = todo[h]
  BY <1>7, ThenTypes
<1>9. UNCHANGED <<registered, lxd, rule, nodeUp>>
  BY <1>6 DEF SetStopped, setState, MarkLost, MarkUnhealthy, ClearHealth,
     SetHealth, NodeClear, SetNodeHealth, Ping, AskNode, Inspect, ExecCheck,
     Look, GetExec, record, host, node
<1>10. nodeHealth' # "lost"
  BY <1>6 DEF Quiet, SetStopped, setState, MarkLost, MarkUnhealthy, ClearHealth,
     SetHealth, NodeClear, SetNodeHealth, Ping, AskNode, Inspect, ExecCheck,
     Look, GetExec, record, host, node
<1>11. \A m \in Names : state'[m] = state[m] \/ state'[m] = "stopped"
  BY <1>6 DEF SetStopped, setState, MarkLost, MarkUnhealthy, ClearHealth,
     SetHealth, NodeClear, SetNodeHealth, Ping, AskNode, Inspect, ExecCheck,
     Look, GetExec, record, host, node, TInv, RecordTypes
<1>12. Op(g) = "checkNode" => todo'[g] \in NodeCalls
  <2> SUFFICES ASSUME Op(g) = "checkNode" PROVE todo'[g] \in NodeCalls
    OBVIOUS
  <2>1. CASE Ping(g)
    <3>1. Then(g, AfterPing)
      BY <2>1 DEF Ping, Quiet, MayFail
    <3>2. AfterPing = One("nodeClear")
      BY DEF AfterPing, Quiet, One
    <3>3. todo'[g] = One("nodeClear")
      BY <3>1, <3>2 DEF Then, TInv, GoTypes
    <3>4. QED  BY <3>3 DEF NodeCalls
  <2>2. CASE ~Ping(g)
    <3>1. s = "nodeClear"
      BY <1>4, <1>5, <1>6, <2>2 DEF SetStopped, setState, MarkLost,
         MarkUnhealthy, ClearHealth, SetHealth, NodeClear, SetNodeHealth,
         AskNode, Inspect, ExecCheck, Look, GetExec
    <3>2. NodeClear(g)
      BY <1>4, <1>6, <2>2, <3>1 DEF SetStopped, setState, MarkLost,
         MarkUnhealthy, ClearHealth, SetHealth, AskNode, Inspect, ExecCheck,
         Look, GetExec
    <3>3. todo'[g] = Tail(todo[g])
      BY <1>1, <3>2, ContinueTypes DEF NodeClear, SetNodeHealth
    <3>4. todo[g] = One("nodeClear")
      BY <1>2, <3>1, OneHead DEF Quiet, NodeCalls
    <3>5. QED  BY <3>3, <3>4, Singles DEF Is, Steps, NodeCalls
  <2>3. QED  BY <2>1, <2>2
<1>13. QED  BY <1>2, <1>8, <1>9, <1>10, <1>11, <1>12, CheckQuiet

\* A request finds a container that nobody works on.
LEMMA BeganQuiet ==
  ASSUME TInv, Quiet, OneRequest, Began
  PROVE  Quiet'
<1>1. PICK g \in Goroutines, op \in Requests \cup Checks, n \in Names :
         /\ Begins(g, op, n)
         /\ op \in Requests => g \in Procs /\ op \in Ops
         /\ op = "create" => n \notin registered
         /\ op \notin {"create", "checkNode"} => n \in registered
  BY DEF Began
<1>2. Begin(g, op, n)
  BY <1>1 DEF Begins
<1>3. /\ todo'[g] = Script(op) /\ job'[g] = [op |-> op, name |-> n]
      /\ \A h \in Goroutines : h # g => todo'[h] = todo[h] /\ job'[h] = job[h]
  BY <1>2, BeginTypes
<1>4. /\ UNCHANGED <<registered, state, lxd, rule, nodeUp, nodeHealth>>
      /\ todo[g] = <<>>
  BY <1>2 DEF Begin, record, host, node
<1>5. Op(g)' = op /\ N(g)' = n
  BY <1>3 DEF Op, N
<1>6. \A h \in Goroutines : h # g => Op(h)' = Op(h) /\ N(h)' = N(h)
  BY <1>3 DEF Op, N
<1>7. \A h \in Goroutines : h # g => (Works(h)' <=> Works(h))
  BY <1>3, <1>6 DEF Works
<1>8. ~Works(g)
  BY <1>4 DEF Works
<1>9. \A m \in Names : Base(m)' <=> Base(m)
  BY <1>4 DEF Base
<1>10. ASSUME op \in Requests \ {"get"}
       PROVE  Phase(op, Script(op), n)
  <2>1. \A h \in Goroutines : ~Works(h)
    BY <1>1, <1>8, <1>10 DEF Quiet, OneRequest
  <2>2. Base(n)
    BY <2>1 DEF Quiet
  <2>3. op # "create" => n \in registered /\ lxd[n] # "none"
    BY <1>1, <1>10, <2>2, Elems DEF Base
  <2>4. CASE op = "create"
    BY <1>1, <2>2, <2>4 DEF Phase, Script
  <2>5. CASE op \in {"start", "stop", "restart"}
    BY <2>2, <2>3, <2>5 DEF Phase, Script
  <2>6. CASE op \in {"delete", "destroy", "rebuild"}
    <3>1. Script(op) \in {One("find"), handleRebuild}
      BY <2>6 DEF Script, One
    <3>2. QED  BY <2>3, <2>6, <3>1 DEF Phase
  <2>7. QED  BY <1>10, <2>4, <2>5, <2>6, Elems
<1>11. ASSUME NEW h \in Goroutines, Works(h)'
       PROVE  h \in Procs /\ Phase(Op(h), todo[h], N(h))'
  <2>1. CASE h = g
    <3>1. op \in Requests \ {"get"}
      BY <1>5, <1>11, <2>1 DEF Works
    <3>2. Phase(op, Script(op), n) /\ g \in Procs
      BY <1>1, <1>10, <3>1
    <3>3. QED  BY <1>3, <1>4, <1>5, <1>9, <2>1, <3>2 DEF Phase, Reg
  <2>2. CASE h # g
    <3>1. h \in Procs /\ Phase(Op(h), todo[h], N(h)) /\ N(h) \in Names
      BY <1>7, <1>11, <2>2 DEF Quiet, TInv, GoTypes, N
    <3>2. todo'[h] = todo[h] /\ Op(h)' = Op(h) /\ N(h)' = N(h)
      BY <1>3, <1>6, <2>2
    <3>3. Base(N(h)) => Base(N(h))'
      BY <1>4, <3>2 DEF Base
    <3>4. QED  BY <1>4, <3>1, <3>2, <3>3 DEF Phase, Reg
  <2>3. QED  BY <2>1, <2>2
<1>12. ASSUME NEW h \in Goroutines
       PROVE  (Op(h) = "checkNode" => todo[h] \in NodeCalls)'
  <2>1. CASE h = g
    <3>1. Script("checkNode") = One("ping")
      BY DEF Script, One
    <3>2. QED  BY <1>3, <1>5, <2>1, <3>1 DEF NodeCalls
  <2>2. CASE h # g
    BY <1>3, <1>6, <2>2 DEF Quiet
  <2>3. QED  BY <2>1, <2>2
<1>13. ASSUME NEW m \in Names
       PROVE  Base(m)' \/ \E h \in Goroutines : Works(h)' /\ N(h)' = m
  BY <1>6, <1>7, <1>8, <1>9 DEF Quiet
<1>14. nodeUp' = TRUE /\ nodeHealth' # "lost"
  BY <1>4 DEF Quiet
<1>15. QED  BY <1>11, <1>12, <1>13, <1>14 DEF Quiet

LEMMA NextQuiet ==
  ASSUME OneRequest
  PROVE  TInv /\ QuietInv /\ [Next]_vars => QuietInv'
<1> SUFFICES ASSUME TInv, QuietInv, [Next]_vars PROVE QuietInv'
  OBVIOUS
<1>1. scenario' = scenario
  <2>1. ASSUME NEW g \in Goroutines, Step(g) PROVE scenario' = scenario
    BY <2>1 DEF Step, CreateContainer, StartContainer, StopContainer,
       DeleteContainer, LxdCall, FindContainer, Forward, Unforward, Register,
       Unregister, SetRunning, SetStopped, SetCreating, setState, Created,
       MarkLost, MarkUnhealthy, ClearHealth, SetHealth, NodeUnhealthy, NodeLost,
       NodeClear, SetNodeHealth, Ping, SyncDNAT, AskNode, Inspect, ExecCheck,
       Look, GetExec, Continue, Fail, Then
  <2>2. CASE Began
    BY <2>2 DEF Began, Begins, Begin
  <2>3. CASE (\E n \in Names : Halt(n) \/ Mute(n)) \/ NodeDown \/ NodeBack
    BY <2>3 DEF Halt, Mute, NodeDown, NodeBack
  <2>4. CASE UNCHANGED vars
    BY <2>4 DEF vars
  <2>5. QED  BY <2>1, <2>2, <2>3, <2>4, NextBegan
<1> SUFFICES ASSUME Faults = {} PROVE Quiet'
  BY <1>1 DEF QuietInv, Faults
<1>2. Quiet
  BY DEF QuietInv
<1>3. ASSUME NEW g \in Goroutines, Step(g) PROVE Quiet'
  BY <1>2, <1>3, WorkingQuiet, CheckingQuiet
<1>4. CASE Began
  BY <1>2, <1>4, BeganQuiet
<1>5. CASE (\E n \in Names : Halt(n) \/ Mute(n)) \/ NodeDown \/ NodeBack
  BY <1>2, <1>5 DEF Halt, Mute, NodeDown, NodeBack, Quiet
<1>6. CASE UNCHANGED vars
  BY <1>2, <1>6 DEF vars, record, host, node, Quiet, Phase, Base, Reg, Works,
     Op, N
<1>7. QED  BY <1>3, <1>4, <1>5, <1>6, NextBegan

LEMMA InitQuiet == Init => QuietInv
BY DEF Init, QuietInv, Quiet, Works, Base, NodeCalls

\* A container that is settled is one that nobody works on.
LEMMA SettledIsBase ==
  ASSUME Quiet, NEW n \in Names, Settled(n)
  PROVE  Base(n)
<1>1. \A g \in Goroutines : Works(g) => N(g) # n
  BY Elems DEF Works, Settled, Busy
<1>2. QED  BY <1>1 DEF Quiet

LEMMA QuietIsKept ==
  ASSUME OneRequest
  PROVE  Spec => [](TInv /\ QuietInv)
<1>1. Init => TInv /\ QuietInv
  BY InitTypes, InitQuiet
<1>2. TInv /\ QuietInv /\ [Next]_vars => (TInv /\ QuietInv)'
  BY NextTypes, NextQuiet
<1>3. QED  BY <1>1, <1>2, PTL DEF Spec

\* When nothing fails, and requests come one after the other, a container
\* without a record has left nothing behind in LXD or in iptables, whatever
\* checks run meanwhile: delete, destroy and rebuild finish what they begin.
THEOREM NothingOrphaned ==
  ASSUME OneRequest
  PROVE  Spec => []NoOrphan
<1>1. TInv /\ QuietInv => NoOrphan
  BY SettledIsBase DEF QuietInv, NoOrphan, Base
<1>2. QED  BY <1>1, QuietIsKept, PTL

\* And a container that is reported running runs, behind its DNAT rules: no
\* check that overlaps a request reports it running, or forgets its rules.
THEOREM RunningIsInReach ==
  ASSUME OneRequest
  PROVE  Spec => []RunningIsReachable
<1>1. TInv /\ QuietInv => RunningIsReachable
  BY SettledIsBase DEF QuietInv, RunningIsReachable, Base, TInv, RecordTypes
<1>2. QED  BY <1>1, QuietIsKept, PTL
=============================================================================
