-------------------------- MODULE MigrationProofs --------------------------
(***************************************************************************)
(* What TLAPS proves of Migration for any nodes, workers, ports and        *)
(* scenarios: a container that is not rebuilt survives whatever fails,     *)
(* crashes or overlaps; and when requests do not overlap and nothing       *)
(* fails, whatever checks do, it is moved as a whole.  And of NodeRebuild: *)
(* a rebuild reports what waits, and what is reported running is there.    *)
(***************************************************************************)
EXTENDS Migration, NodeRebuild, FiniteSetTheorems, TLAPS

(***************************************************************************)
(* The places in the scripts, named after the calls that come next         *)
(***************************************************************************)
One(s) == <<s>>
m_claim == <<"claim", "create", "start", "forward", "created", "client",
             "unforward", "findOld", "stop", "delete", "moved">>
m_create == <<"create", "start", "forward", "created", "client", "unforward",
              "findOld", "stop", "delete", "moved">>
m_start == <<"start", "forward", "created", "client", "unforward", "findOld",
             "stop", "delete", "moved">>
m_forward == <<"forward", "created", "client", "unforward", "findOld", "stop",
               "delete", "moved">>
m_created == <<"created", "client", "unforward", "findOld", "stop", "delete",
               "moved">>
m_client == <<"client", "unforward", "findOld", "stop", "delete", "moved">>
m_unforward == <<"unforward", "findOld", "stop", "delete", "moved">>
m_findOld == <<"findOld", "stop", "delete", "moved">>
m_stop == <<"stop", "delete", "moved">>
m_delete == <<"delete", "moved">>
m_giveUp == <<"delete", "restore", "setRunning">>

r_client == <<"client", "unforward", "findOld", "stop", "delete", "create",
              "start", "forward", "created">>
r_unforward == <<"unforward", "findOld", "stop", "delete", "create", "start",
                 "forward", "created">>
r_findOld == <<"findOld", "stop", "delete", "create", "start", "forward",
               "created">>
r_stop == <<"stop", "delete", "create", "start", "forward", "created">>
r_delete == <<"delete", "create", "start", "forward", "created">>
r_start == <<"start", "forward", "created">>
r_forward == <<"forward", "created">>
r_giveUp == <<"delete", "setRunning">>

d_findOld == <<"findOld", "unforward", "unregister", "stop", "delete">>
d_unforward == <<"unforward", "unregister", "stop", "delete">>
d_unregister == <<"unregister", "stop", "delete">>
d_stop == <<"stop", "delete">>
d_stoppedUnforward == <<"unforward", "unregister", "delete">>
d_stoppedUnregister == <<"unregister", "delete">>

x_findOld == <<"findOld", "unforward", "stop", "delete", "unregister">>
x_unforward == <<"unforward", "stop", "delete", "unregister">>
x_stop == <<"stop", "delete", "unregister">>
x_delete == <<"delete", "unregister">>
x_stoppedUnforward == <<"unforward", "delete", "unregister">>

start_setRunning == <<"start", "setRunning">>
stop_setStopped == <<"stop", "setStopped">>

Places(op) ==
  CASE op = "migrate" ->
         {migrateContainer, m_claim, m_create, m_start, m_forward, m_created,
          m_client, m_unforward, m_findOld, m_stop, m_delete, One("moved"),
          m_giveUp, MigrateFailed, One("setRunning")}
    [] op = "rebuild" ->
         {handleRebuild, r_client, r_unforward, r_findOld, r_stop, r_delete,
          createContainerOnNode, r_start, r_forward, One("created"),
          r_giveUp, One("setRunning")}
    [] op = "delete" ->
         {handleDelete, d_findOld, d_unforward, d_unregister, d_stop,
          d_stoppedUnforward, d_stoppedUnregister, One("unregister"),
          One("delete")}
    [] op = "destroy" ->
         {destroyContainer, x_findOld, x_unforward, x_stop, x_delete,
          x_stoppedUnforward, One("unregister")}
    [] op = "start" -> {Script("start"), start_setRunning, One("setRunning")}
    [] op = "stop"  -> {Script("stop"), stop_setStopped, One("setStopped")}
    [] op = "check" -> {Script("check"), One("inspect"), One("setStopped")}
    [] OTHER -> {}
LeftOf(op) == Places(op) \cup {<<>>}

\* The sequence q begins with s and goes on with rest.
Is(q, s, rest) ==
  /\ q \in Seq(Steps) /\ q # <<>> /\ Head(q) = s /\ Tail(q) = rest

\* A sequence made of two, given its elements.
LEMMA Glued ==
  ASSUME NEW s \in Seq(Steps), NEW t \in Seq(Steps), NEW u \in Seq(Steps),
         Len(u) = Len(s) + Len(t),
         \A i \in 1 .. Len(s) : u[i] = s[i],
         \A i \in 1 .. Len(t) : u[Len(s) + i] = t[i]
  PROVE  s \o t = u
<1>1. s \o t \in Seq(Steps) /\ Len(s \o t) = Len(u)
  OBVIOUS
<1>2. ASSUME NEW i \in 1 .. Len(u) PROVE (s \o t)[i] = u[i]
  <2>1. CASE i \in 1 .. Len(s)
    BY <2>1
  <2>2. CASE i \in Len(s) + 1 .. Len(u)
    <3>1. i - Len(s) \in 1 .. Len(t) /\ (s \o t)[i] = t[i - Len(s)]
      BY <2>2
    <3>2. u[Len(s) + (i - Len(s))] = t[i - Len(s)]
      BY <3>1
    <3>3. Len(s) + (i - Len(s)) = i
      OBVIOUS
    <3>4. QED  BY <3>1, <3>2, <3>3
  <2>3. QED  BY <2>1, <2>2
<1>3. QED  BY <1>1, <1>2

\* The scripts that are put together, call by call.
m_begin == <<"setMigrating", "claim", "create", "start", "forward", "created">>
m_toClient == <<"setMigrating", "claim", "create", "start", "forward",
                "created", "client">>
m_toDelete == <<"setMigrating", "claim", "create", "start", "forward",
                "created", "client", "unforward", "findOld", "stop", "delete">>
m_all == <<"setMigrating", "claim", "create", "start", "forward", "created",
           "client", "unforward", "findOld", "stop", "delete", "moved">>
LEMMA MigrateIs == migrateContainer = m_all
<1>1. <<"setMigrating", "claim">> \o createContainerOnNode = m_begin
  <2> DEFINE s == <<"setMigrating", "claim">>
             t == createContainerOnNode
             u == m_begin
  <2>1. s \in Seq(Steps) /\ t \in Seq(Steps) /\ u \in Seq(Steps)
    BY DEF Steps, createContainerOnNode, m_begin
  <2>2. Len(s) = 2 /\ Len(t) = 4 /\ Len(u) = 6
    BY DEF Steps, createContainerOnNode, m_begin
  <2>3. \A i \in 1 .. 2 : u[i] = s[i]
    BY DEF Steps, createContainerOnNode, m_begin
  <2>4. \A i \in 1 .. 4 : u[2 + i] = t[i]
    BY DEF Steps, createContainerOnNode, m_begin
  <2> HIDE DEF s, t, u
  <2>5. /\ Len(u) = Len(s) + Len(t)
        /\ \A i \in 1 .. Len(s) : u[i] = s[i]
        /\ \A i \in 1 .. Len(t) : u[Len(s) + i] = t[i]
    BY <2>2, <2>3, <2>4
  <2>6. s \o t = u
    BY <2>1, <2>5, Glued
  <2>7. QED  BY <2>6 DEF s, t, u
<1>2. m_begin \o <<"client">> = m_toClient
  <2> DEFINE s == m_begin
             t == <<"client">>
             u == m_toClient
  <2>1. s \in Seq(Steps) /\ t \in Seq(Steps) /\ u \in Seq(Steps)
    BY DEF Steps, m_begin, m_toClient
  <2>2. Len(s) = 6 /\ Len(t) = 1 /\ Len(u) = 7
    BY DEF Steps, m_begin, m_toClient
  <2>3. \A i \in 1 .. 6 : u[i] = s[i]
    BY DEF Steps, m_begin, m_toClient
  <2>4. \A i \in 1 .. 1 : u[6 + i] = t[i]
    BY DEF Steps, m_begin, m_toClient
  <2> HIDE DEF s, t, u
  <2>5. /\ Len(u) = Len(s) + Len(t)
        /\ \A i \in 1 .. Len(s) : u[i] = s[i]
        /\ \A i \in 1 .. Len(t) : u[Len(s) + i] = t[i]
    BY <2>2, <2>3, <2>4
  <2>6. s \o t = u
    BY <2>1, <2>5, Glued
  <2>7. QED  BY <2>6 DEF s, t, u
<1>3. m_toClient \o cleanupContainerLXD = m_toDelete
  <2> DEFINE s == m_toClient
             t == cleanupContainerLXD
             u == m_toDelete
  <2>1. s \in Seq(Steps) /\ t \in Seq(Steps) /\ u \in Seq(Steps)
    BY DEF Steps, m_toClient, cleanupContainerLXD, m_toDelete
  <2>2. Len(s) = 7 /\ Len(t) = 4 /\ Len(u) = 11
    BY DEF Steps, m_toClient, cleanupContainerLXD, m_toDelete
  <2>3. \A i \in 1 .. 7 : u[i] = s[i]
    BY DEF Steps, m_toClient, cleanupContainerLXD, m_toDelete
  <2>4. \A i \in 1 .. 4 : u[7 + i] = t[i]
    BY DEF Steps, m_toClient, cleanupContainerLXD, m_toDelete
  <2> HIDE DEF s, t, u
  <2>5. /\ Len(u) = Len(s) + Len(t)
        /\ \A i \in 1 .. Len(s) : u[i] = s[i]
        /\ \A i \in 1 .. Len(t) : u[Len(s) + i] = t[i]
    BY <2>2, <2>3, <2>4
  <2>6. s \o t = u
    BY <2>1, <2>5, Glued
  <2>7. QED  BY <2>6 DEF s, t, u
<1>4. m_toDelete \o <<"moved">> = m_all
  <2> DEFINE s == m_toDelete
             t == <<"moved">>
             u == m_all
  <2>1. s \in Seq(Steps) /\ t \in Seq(Steps) /\ u \in Seq(Steps)
    BY DEF Steps, m_toDelete, m_all
  <2>2. Len(s) = 11 /\ Len(t) = 1 /\ Len(u) = 12
    BY DEF Steps, m_toDelete, m_all
  <2>3. \A i \in 1 .. 11 : u[i] = s[i]
    BY DEF Steps, m_toDelete, m_all
  <2>4. \A i \in 1 .. 1 : u[11 + i] = t[i]
    BY DEF Steps, m_toDelete, m_all
  <2> HIDE DEF s, t, u
  <2>5. /\ Len(u) = Len(s) + Len(t)
        /\ \A i \in 1 .. Len(s) : u[i] = s[i]
        /\ \A i \in 1 .. Len(t) : u[Len(s) + i] = t[i]
    BY <2>2, <2>3, <2>4
  <2>6. s \o t = u
    BY <2>1, <2>5, Glued
  <2>7. QED  BY <2>6 DEF s, t, u
<1>5. QED  BY <1>1, <1>2, <1>3, <1>4 DEF migrateContainer

r_toDelete == <<"setCreating", "client", "unforward", "findOld", "stop",
                "delete">>
r_all == <<"setCreating", "client", "unforward", "findOld", "stop", "delete",
           "create", "start", "forward", "created">>
LEMMA RebuildIs == handleRebuild = r_all
<1>1. <<"setCreating", "client">> \o cleanupContainerLXD = r_toDelete
  <2> DEFINE s == <<"setCreating", "client">>
             t == cleanupContainerLXD
             u == r_toDelete
  <2>1. s \in Seq(Steps) /\ t \in Seq(Steps) /\ u \in Seq(Steps)
    BY DEF Steps, cleanupContainerLXD, r_toDelete
  <2>2. Len(s) = 2 /\ Len(t) = 4 /\ Len(u) = 6
    BY DEF Steps, cleanupContainerLXD, r_toDelete
  <2>3. \A i \in 1 .. 2 : u[i] = s[i]
    BY DEF Steps, cleanupContainerLXD, r_toDelete
  <2>4. \A i \in 1 .. 4 : u[2 + i] = t[i]
    BY DEF Steps, cleanupContainerLXD, r_toDelete
  <2> HIDE DEF s, t, u
  <2>5. /\ Len(u) = Len(s) + Len(t)
        /\ \A i \in 1 .. Len(s) : u[i] = s[i]
        /\ \A i \in 1 .. Len(t) : u[Len(s) + i] = t[i]
    BY <2>2, <2>3, <2>4
  <2>6. s \o t = u
    BY <2>1, <2>5, Glued
  <2>7. QED  BY <2>6 DEF s, t, u
<1>2. r_toDelete \o createContainerOnNode = r_all
  <2> DEFINE s == r_toDelete
             t == createContainerOnNode
             u == r_all
  <2>1. s \in Seq(Steps) /\ t \in Seq(Steps) /\ u \in Seq(Steps)
    BY DEF Steps, r_toDelete, createContainerOnNode, r_all
  <2>2. Len(s) = 6 /\ Len(t) = 4 /\ Len(u) = 10
    BY DEF Steps, r_toDelete, createContainerOnNode, r_all
  <2>3. \A i \in 1 .. 6 : u[i] = s[i]
    BY DEF Steps, r_toDelete, createContainerOnNode, r_all
  <2>4. \A i \in 1 .. 4 : u[6 + i] = t[i]
    BY DEF Steps, r_toDelete, createContainerOnNode, r_all
  <2> HIDE DEF s, t, u
  <2>5. /\ Len(u) = Len(s) + Len(t)
        /\ \A i \in 1 .. Len(s) : u[i] = s[i]
        /\ \A i \in 1 .. Len(t) : u[Len(s) + i] = t[i]
    BY <2>2, <2>3, <2>4
  <2>6. s \o t = u
    BY <2>1, <2>5, Glued
  <2>7. QED  BY <2>6 DEF s, t, u
<1>3. QED  BY <1>1, <1>2 DEF handleRebuild

LEMMA GiveUpIs == <<"delete">> \o MigrateFailed = m_giveUp
<1>1. <<"delete">> \o MigrateFailed = m_giveUp
  <2> DEFINE s == <<"delete">>
             t == MigrateFailed
             u == m_giveUp
  <2>1. s \in Seq(Steps) /\ t \in Seq(Steps) /\ u \in Seq(Steps)
    BY DEF Steps, MigrateFailed, m_giveUp
  <2>2. Len(s) = 1 /\ Len(t) = 2 /\ Len(u) = 3
    BY DEF Steps, MigrateFailed, m_giveUp
  <2>3. \A i \in 1 .. 1 : u[i] = s[i]
    BY DEF Steps, MigrateFailed, m_giveUp
  <2>4. \A i \in 1 .. 2 : u[1 + i] = t[i]
    BY DEF Steps, MigrateFailed, m_giveUp
  <2> HIDE DEF s, t, u
  <2>5. /\ Len(u) = Len(s) + Len(t)
        /\ \A i \in 1 .. Len(s) : u[i] = s[i]
        /\ \A i \in 1 .. Len(t) : u[Len(s) + i] = t[i]
    BY <2>2, <2>3, <2>4
  <2>6. s \o t = u
    BY <2>1, <2>5, Glued
  <2>7. QED  BY <2>6 DEF s, t, u
<1>2. QED  BY <1>1

\* A place, with the call that is next and what follows it.
Here(q, place, s, rest) == q = place /\ Is(q, s, rest)

LEMMA Singles == \A s \in Steps : Is(One(s), s, <<>>)
BY DEF Is, One

LEMMA MigrateChain ==
  /\ Is(migrateContainer, "setMigrating", m_claim)
  /\ Is(m_claim, "claim", m_create)
  /\ Is(m_create, "create", m_start)
  /\ Is(m_start, "start", m_forward)
  /\ Is(m_forward, "forward", m_created)
  /\ Is(m_created, "created", m_client)
  /\ Is(m_client, "client", m_unforward)
  /\ Is(m_unforward, "unforward", m_findOld)
  /\ Is(m_findOld, "findOld", m_stop)
  /\ Is(m_stop, "stop", m_delete)
  /\ Is(m_delete, "delete", One("moved"))
  /\ Is(One("moved"), "moved", <<>>)
  /\ Is(m_giveUp, "delete", MigrateFailed)
  /\ Is(MigrateFailed, "restore", One("setRunning"))
  /\ Is(One("setRunning"), "setRunning", <<>>)
<1>1. Is(migrateContainer, "setMigrating", m_claim)
  BY MigrateIs DEF Is, Steps, m_all, m_claim
<1>2. Is(m_claim, "claim", m_create)
  BY DEF Is, Steps, m_claim, m_create
<1>3. Is(m_create, "create", m_start)
  BY DEF Is, Steps, m_create, m_start
<1>4. Is(m_start, "start", m_forward)
  BY DEF Is, Steps, m_start, m_forward
<1>5. Is(m_forward, "forward", m_created)
  BY DEF Is, Steps, m_forward, m_created
<1>6. Is(m_created, "created", m_client)
  BY DEF Is, Steps, m_created, m_client
<1>7. Is(m_client, "client", m_unforward)
  BY DEF Is, Steps, m_client, m_unforward
<1>8. Is(m_unforward, "unforward", m_findOld)
  BY DEF Is, Steps, m_unforward, m_findOld
<1>9. Is(m_findOld, "findOld", m_stop)
  BY DEF Is, Steps, m_findOld, m_stop
<1>10. Is(m_stop, "stop", m_delete)
  BY DEF Is, Steps, m_stop, m_delete
<1>11. Is(m_delete, "delete", One("moved"))
  BY DEF Is, Steps, m_delete, One
<1>12. Is(One("moved"), "moved", <<>>)
  BY DEF Is, Steps, One
<1>13. Is(m_giveUp, "delete", MigrateFailed)
  BY DEF Is, Steps, m_giveUp, MigrateFailed
<1>14. Is(MigrateFailed, "restore", One("setRunning"))
  BY DEF Is, Steps, MigrateFailed, One
<1>15. Is(One("setRunning"), "setRunning", <<>>)
  BY DEF Is, Steps, One
<1>16. QED  BY <1>1, <1>2, <1>3, <1>4, <1>5, <1>6, <1>7, <1>8, <1>9, <1>10,
       <1>11, <1>12, <1>13, <1>14, <1>15

LEMMA MigratePlaces ==
  ASSUME NEW q \in Places("migrate")
  PROVE  \/ Here(q, migrateContainer, "setMigrating", m_claim)
         \/ Here(q, m_claim, "claim", m_create)
         \/ Here(q, m_create, "create", m_start)
         \/ Here(q, m_start, "start", m_forward)
         \/ Here(q, m_forward, "forward", m_created)
         \/ Here(q, m_created, "created", m_client)
         \/ Here(q, m_client, "client", m_unforward)
         \/ Here(q, m_unforward, "unforward", m_findOld)
         \/ Here(q, m_findOld, "findOld", m_stop)
         \/ Here(q, m_stop, "stop", m_delete)
         \/ Here(q, m_delete, "delete", One("moved"))
         \/ Here(q, One("moved"), "moved", <<>>)
         \/ Here(q, m_giveUp, "delete", MigrateFailed)
         \/ Here(q, MigrateFailed, "restore", One("setRunning"))
         \/ Here(q, One("setRunning"), "setRunning", <<>>)
<1>1. q \in {migrateContainer, m_claim, m_create, m_start, m_forward, m_created,
             m_client, m_unforward, m_findOld, m_stop, m_delete, One("moved"),
             m_giveUp, MigrateFailed, One("setRunning")}
  BY DEF Places
<1>2. QED  BY <1>1, MigrateChain DEF Here

LEMMA RebuildChain ==
  /\ Is(handleRebuild, "setCreating", r_client)
  /\ Is(r_client, "client", r_unforward)
  /\ Is(r_unforward, "unforward", r_findOld)
  /\ Is(r_findOld, "findOld", r_stop)
  /\ Is(r_stop, "stop", r_delete)
  /\ Is(r_delete, "delete", createContainerOnNode)
  /\ Is(createContainerOnNode, "create", r_start)
  /\ Is(r_start, "start", r_forward)
  /\ Is(r_forward, "forward", One("created"))
  /\ Is(One("created"), "created", <<>>)
  /\ Is(r_giveUp, "delete", One("setRunning"))
  /\ Is(One("setRunning"), "setRunning", <<>>)
<1>1. Is(handleRebuild, "setCreating", r_client)
  BY RebuildIs DEF Is, Steps, r_all, r_client
<1>2. Is(r_client, "client", r_unforward)
  BY DEF Is, Steps, r_client, r_unforward
<1>3. Is(r_unforward, "unforward", r_findOld)
  BY DEF Is, Steps, r_unforward, r_findOld
<1>4. Is(r_findOld, "findOld", r_stop)
  BY DEF Is, Steps, r_findOld, r_stop
<1>5. Is(r_stop, "stop", r_delete)
  BY DEF Is, Steps, r_stop, r_delete
<1>6. Is(r_delete, "delete", createContainerOnNode)
  BY DEF Is, Steps, r_delete, createContainerOnNode
<1>7. Is(createContainerOnNode, "create", r_start)
  BY DEF Is, Steps, createContainerOnNode, r_start
<1>8. Is(r_start, "start", r_forward)
  BY DEF Is, Steps, r_start, r_forward
<1>9. Is(r_forward, "forward", One("created"))
  BY DEF Is, Steps, r_forward, One
<1>10. Is(One("created"), "created", <<>>)
  BY DEF Is, Steps, One
<1>11. Is(r_giveUp, "delete", One("setRunning"))
  BY DEF Is, Steps, r_giveUp, One
<1>12. Is(One("setRunning"), "setRunning", <<>>)
  BY DEF Is, Steps, One
<1>13. QED  BY <1>1, <1>2, <1>3, <1>4, <1>5, <1>6, <1>7, <1>8, <1>9, <1>10,
       <1>11, <1>12

LEMMA RebuildPlaces ==
  ASSUME NEW q \in Places("rebuild")
  PROVE  \/ Here(q, handleRebuild, "setCreating", r_client)
         \/ Here(q, r_client, "client", r_unforward)
         \/ Here(q, r_unforward, "unforward", r_findOld)
         \/ Here(q, r_findOld, "findOld", r_stop)
         \/ Here(q, r_stop, "stop", r_delete)
         \/ Here(q, r_delete, "delete", createContainerOnNode)
         \/ Here(q, createContainerOnNode, "create", r_start)
         \/ Here(q, r_start, "start", r_forward)
         \/ Here(q, r_forward, "forward", One("created"))
         \/ Here(q, One("created"), "created", <<>>)
         \/ Here(q, r_giveUp, "delete", One("setRunning"))
         \/ Here(q, One("setRunning"), "setRunning", <<>>)
<1>1. q \in {handleRebuild, r_client, r_unforward, r_findOld, r_stop, r_delete,
             createContainerOnNode, r_start, r_forward, One("created"),
             r_giveUp, One("setRunning")}
  BY DEF Places
<1>2. QED  BY <1>1, RebuildChain DEF Here

LEMMA DeleteChain ==
  /\ Is(handleDelete, "client", d_findOld)
  /\ Is(d_findOld, "findOld", d_unforward)
  /\ Is(d_unforward, "unforward", d_unregister)
  /\ Is(d_unregister, "unregister", d_stop)
  /\ Is(d_stop, "stop", One("delete"))
  /\ Is(d_stoppedUnforward, "unforward", d_stoppedUnregister)
  /\ Is(d_stoppedUnregister, "unregister", One("delete"))
  /\ Is(One("unregister"), "unregister", <<>>)
  /\ Is(One("delete"), "delete", <<>>)
<1>1. Is(handleDelete, "client", d_findOld)
  BY DEF Is, Steps, handleDelete, d_findOld
<1>2. Is(d_findOld, "findOld", d_unforward)
  BY DEF Is, Steps, d_findOld, d_unforward
<1>3. Is(d_unforward, "unforward", d_unregister)
  BY DEF Is, Steps, d_unforward, d_unregister
<1>4. Is(d_unregister, "unregister", d_stop)
  BY DEF Is, Steps, d_unregister, d_stop
<1>5. Is(d_stop, "stop", One("delete"))
  BY DEF Is, Steps, d_stop, One
<1>6. Is(d_stoppedUnforward, "unforward", d_stoppedUnregister)
  BY DEF Is, Steps, d_stoppedUnforward, d_stoppedUnregister
<1>7. Is(d_stoppedUnregister, "unregister", One("delete"))
  BY DEF Is, Steps, d_stoppedUnregister, One
<1>8. Is(One("unregister"), "unregister", <<>>)
  BY DEF Is, Steps, One
<1>9. Is(One("delete"), "delete", <<>>)
  BY DEF Is, Steps, One
<1>10. QED  BY <1>1, <1>2, <1>3, <1>4, <1>5, <1>6, <1>7, <1>8, <1>9

LEMMA DeletePlaces ==
  ASSUME NEW q \in Places("delete")
  PROVE  \/ Here(q, handleDelete, "client", d_findOld)
         \/ Here(q, d_findOld, "findOld", d_unforward)
         \/ Here(q, d_unforward, "unforward", d_unregister)
         \/ Here(q, d_unregister, "unregister", d_stop)
         \/ Here(q, d_stop, "stop", One("delete"))
         \/ Here(q, d_stoppedUnforward, "unforward", d_stoppedUnregister)
         \/ Here(q, d_stoppedUnregister, "unregister", One("delete"))
         \/ Here(q, One("unregister"), "unregister", <<>>)
         \/ Here(q, One("delete"), "delete", <<>>)
<1>1. q \in {handleDelete, d_findOld, d_unforward, d_unregister, d_stop,
             d_stoppedUnforward, d_stoppedUnregister, One("unregister"), One("delete")}
  BY DEF Places
<1>2. QED  BY <1>1, DeleteChain DEF Here

LEMMA DestroyChain ==
  /\ Is(destroyContainer, "client", x_findOld)
  /\ Is(x_findOld, "findOld", x_unforward)
  /\ Is(x_unforward, "unforward", x_stop)
  /\ Is(x_stop, "stop", x_delete)
  /\ Is(x_delete, "delete", One("unregister"))
  /\ Is(x_stoppedUnforward, "unforward", x_delete)
  /\ Is(One("unregister"), "unregister", <<>>)
<1>1. Is(destroyContainer, "client", x_findOld)
  BY DEF Is, Steps, destroyContainer, x_findOld
<1>2. Is(x_findOld, "findOld", x_unforward)
  BY DEF Is, Steps, x_findOld, x_unforward
<1>3. Is(x_unforward, "unforward", x_stop)
  BY DEF Is, Steps, x_unforward, x_stop
<1>4. Is(x_stop, "stop", x_delete)
  BY DEF Is, Steps, x_stop, x_delete
<1>5. Is(x_delete, "delete", One("unregister"))
  BY DEF Is, Steps, x_delete, One
<1>6. Is(x_stoppedUnforward, "unforward", x_delete)
  BY DEF Is, Steps, x_stoppedUnforward, x_delete
<1>7. Is(One("unregister"), "unregister", <<>>)
  BY DEF Is, Steps, One
<1>8. QED  BY <1>1, <1>2, <1>3, <1>4, <1>5, <1>6, <1>7

LEMMA DestroyPlaces ==
  ASSUME NEW q \in Places("destroy")
  PROVE  \/ Here(q, destroyContainer, "client", x_findOld)
         \/ Here(q, x_findOld, "findOld", x_unforward)
         \/ Here(q, x_unforward, "unforward", x_stop)
         \/ Here(q, x_stop, "stop", x_delete)
         \/ Here(q, x_delete, "delete", One("unregister"))
         \/ Here(q, x_stoppedUnforward, "unforward", x_delete)
         \/ Here(q, One("unregister"), "unregister", <<>>)
<1>1. q \in {destroyContainer, x_findOld, x_unforward, x_stop, x_delete,
             x_stoppedUnforward, One("unregister")}
  BY DEF Places
<1>2. QED  BY <1>1, DestroyChain DEF Here

LEMMA StartChain ==
  /\ Is(Script("start"), "client", start_setRunning)
  /\ Is(start_setRunning, "start", One("setRunning"))
  /\ Is(One("setRunning"), "setRunning", <<>>)
<1>1. Is(Script("start"), "client", start_setRunning)
  BY DEF Is, Steps, Script, start_setRunning
<1>2. Is(start_setRunning, "start", One("setRunning"))
  BY DEF Is, Steps, start_setRunning, One
<1>3. Is(One("setRunning"), "setRunning", <<>>)
  BY DEF Is, Steps, One
<1>4. QED  BY <1>1, <1>2, <1>3

LEMMA StartPlaces ==
  ASSUME NEW q \in Places("start")
  PROVE  \/ Here(q, Script("start"), "client", start_setRunning)
         \/ Here(q, start_setRunning, "start", One("setRunning"))
         \/ Here(q, One("setRunning"), "setRunning", <<>>)
<1>1. q \in {Script("start"), start_setRunning, One("setRunning")}
  BY DEF Places
<1>2. QED  BY <1>1, StartChain DEF Here

LEMMA StopChain ==
  /\ Is(Script("stop"), "client", stop_setStopped)
  /\ Is(stop_setStopped, "stop", One("setStopped"))
  /\ Is(One("setStopped"), "setStopped", <<>>)
<1>1. Is(Script("stop"), "client", stop_setStopped)
  BY DEF Is, Steps, Script, stop_setStopped
<1>2. Is(stop_setStopped, "stop", One("setStopped"))
  BY DEF Is, Steps, stop_setStopped, One
<1>3. Is(One("setStopped"), "setStopped", <<>>)
  BY DEF Is, Steps, One
<1>4. QED  BY <1>1, <1>2, <1>3

LEMMA StopPlaces ==
  ASSUME NEW q \in Places("stop")
  PROVE  \/ Here(q, Script("stop"), "client", stop_setStopped)
         \/ Here(q, stop_setStopped, "stop", One("setStopped"))
         \/ Here(q, One("setStopped"), "setStopped", <<>>)
<1>1. q \in {Script("stop"), stop_setStopped, One("setStopped")}
  BY DEF Places
<1>2. QED  BY <1>1, StopChain DEF Here

LEMMA CheckChain ==
  /\ Is(Script("check"), "client", One("inspect"))
  /\ Is(One("inspect"), "inspect", <<>>)
  /\ Is(One("setStopped"), "setStopped", <<>>)
<1>1. Is(Script("check"), "client", One("inspect"))
  BY DEF Is, Steps, Script, One
<1>2. Is(One("inspect"), "inspect", <<>>)
  BY DEF Is, Steps, One
<1>3. Is(One("setStopped"), "setStopped", <<>>)
  BY DEF Is, Steps, One
<1>4. QED  BY <1>1, <1>2, <1>3

LEMMA CheckPlaces ==
  ASSUME NEW q \in Places("check")
  PROVE  \/ Here(q, Script("check"), "client", One("inspect"))
         \/ Here(q, One("inspect"), "inspect", <<>>)
         \/ Here(q, One("setStopped"), "setStopped", <<>>)
<1>1. q \in {Script("check"), One("inspect"), One("setStopped")}
  BY DEF Places
<1>2. QED  BY <1>1, CheckChain DEF Here


(***************************************************************************)
(* From place to place                                                     *)
(***************************************************************************)
\* What a worker may have left after the call that is next in q.
Follow(op, q) ==
  {Tail(q), OnError(op, Head(q), Tail(q))}
    \cup (IF Head(q) = "findOld" THEN {FoundStopped(op, Tail(q))} ELSE {})
    \cup (IF Head(q) = "inspect" THEN {One("setStopped"), <<>>} ELSE {})

\* A migration that has made a container and has one to remove.
Owing(op, q) ==
  /\ op = "migrate" /\ q # <<>>
  /\ Head(q) \in {"start", "forward", "created", "client", "unforward",
                  "findOld", "stop", "delete"}
\* A migration that has not drawn its port.
Claiming(op, q) ==
  op = "migrate" /\ q # <<>> /\ Head(q) \in {"setMigrating", "claim"}
\* A deletion that has taken the record away.
Taken(op, q) ==
  op = "delete" /\ q # <<>> /\ Head(q) \in {"stop", "delete"}
\* destroyContainer has removed the container and is about to drop the record.
Wiping(op, q) == op = "destroy" /\ q = <<"unregister">>

\* What a step from q to r does to these.
Turns(op, q, r) ==
  /\ r \in LeftOf(op)
  /\ Owing(op, r) => Owing(op, q) \/ (Head(q) = "create" /\ r = Tail(q))
  /\ Owing(op, r) => Head(q) # "delete"
  /\ Claiming(op, r) => Claiming(op, q) /\ Head(q) # "claim"
  /\ Taken(op, r) => Taken(op, q) \/ Head(q) = "unregister"
  /\ op = "destroy" /\ Head(q) = "delete" => Wiping(op, r)


LEMMA MigrateTurns ==
  ASSUME NEW q \in Places("migrate"), NEW r \in Follow("migrate", q)
  PROVE  Turns("migrate", q, r)
<1>1. /\ \A rest : OnError("migrate", "create", rest) = MigrateFailed
      /\ \A rest : OnError("migrate", "start", rest) = m_giveUp
      /\ \A rest : OnError("migrate", "client", rest) = One("moved")
      /\ \A rest : OnError("migrate", "findOld", rest) = One("moved")
      /\ \A s, rest : s \notin {"create", "start", "client", "findOld"} =>
            OnError("migrate", s, rest) = rest
  BY GiveUpIs DEF OnError, One, MigrateFailed
<1>2. FoundStopped("migrate", m_stop) = m_delete
  BY MigrateChain DEF FoundStopped, Is, d_stoppedUnforward
<1>3. r \in Follow("migrate", q)
  OBVIOUS
<1>4. CASE Here(q, migrateContainer, "setMigrating", m_claim)
  <2>1. r \in {m_claim}
    BY <1>1, <1>3, <1>4 DEF Here, Is, Follow
  <2>2. QED  BY <2>1, <1>4, MigrateChain DEF Here, Is, Turns, LeftOf, Places,
         Owing, Claiming, Taken
<1>5. CASE Here(q, m_claim, "claim", m_create)
  <2>1. r \in {m_create}
    BY <1>1, <1>3, <1>5 DEF Here, Is, Follow
  <2>2. QED  BY <2>1, <1>5, MigrateChain DEF Here, Is, Turns, LeftOf, Places,
         Owing, Claiming, Taken
<1>6. CASE Here(q, m_create, "create", m_start)
  <2>1. r \in {m_start, MigrateFailed}
    BY <1>1, <1>3, <1>6 DEF Here, Is, Follow
  <2>2. QED  BY <2>1, <1>6, MigrateChain DEF Here, Is, Turns, LeftOf, Places,
         Owing, Claiming, Taken
<1>7. CASE Here(q, m_start, "start", m_forward)
  <2>1. r \in {m_forward, m_giveUp}
    BY <1>1, <1>3, <1>7 DEF Here, Is, Follow
  <2>2. QED  BY <2>1, <1>7, MigrateChain DEF Here, Is, Turns, LeftOf, Places,
         Owing, Claiming, Taken
<1>8. CASE Here(q, m_forward, "forward", m_created)
  <2>1. r \in {m_created}
    BY <1>1, <1>3, <1>8 DEF Here, Is, Follow
  <2>2. QED  BY <2>1, <1>8, MigrateChain DEF Here, Is, Turns, LeftOf, Places,
         Owing, Claiming, Taken
<1>9. CASE Here(q, m_created, "created", m_client)
  <2>1. r \in {m_client}
    BY <1>1, <1>3, <1>9 DEF Here, Is, Follow
  <2>2. QED  BY <2>1, <1>9, MigrateChain DEF Here, Is, Turns, LeftOf, Places,
         Owing, Claiming, Taken
<1>10. CASE Here(q, m_client, "client", m_unforward)
  <2>1. r \in {m_unforward, One("moved")}
    BY <1>1, <1>3, <1>10 DEF Here, Is, Follow
  <2>2. QED  BY <2>1, <1>10, MigrateChain DEF Here, Is, Turns, LeftOf, Places,
         Owing, Claiming, Taken
<1>11. CASE Here(q, m_unforward, "unforward", m_findOld)
  <2>1. r \in {m_findOld}
    BY <1>1, <1>3, <1>11 DEF Here, Is, Follow
  <2>2. QED  BY <2>1, <1>11, MigrateChain DEF Here, Is, Turns, LeftOf, Places,
         Owing, Claiming, Taken
<1>12. CASE Here(q, m_findOld, "findOld", m_stop)
  <2>1. r \in {m_stop, One("moved"), m_delete}
    BY <1>1, <1>2, <1>3, <1>12 DEF Here, Is, Follow
  <2>2. QED  BY <2>1, <1>12, MigrateChain DEF Here, Is, Turns, LeftOf, Places,
         Owing, Claiming, Taken
<1>13. CASE Here(q, m_stop, "stop", m_delete)
  <2>1. r \in {m_delete}
    BY <1>1, <1>3, <1>13 DEF Here, Is, Follow
  <2>2. QED  BY <2>1, <1>13, MigrateChain DEF Here, Is, Turns, LeftOf, Places,
         Owing, Claiming, Taken
<1>14. CASE Here(q, m_delete, "delete", One("moved"))
  <2>1. r \in {One("moved")}
    BY <1>1, <1>3, <1>14 DEF Here, Is, Follow
  <2>2. QED  BY <2>1, <1>14, MigrateChain DEF Here, Is, Turns, LeftOf, Places,
         Owing, Claiming, Taken
<1>15. CASE Here(q, One("moved"), "moved", <<>>)
  <2>1. r \in {<<>>}
    BY <1>1, <1>3, <1>15 DEF Here, Is, Follow
  <2>2. QED  BY <2>1, <1>15, MigrateChain DEF Here, Is, Turns, LeftOf, Places,
         Owing, Claiming, Taken
<1>16. CASE Here(q, m_giveUp, "delete", MigrateFailed)
  <2>1. r \in {MigrateFailed}
    BY <1>1, <1>3, <1>16 DEF Here, Is, Follow
  <2>2. QED  BY <2>1, <1>16, MigrateChain DEF Here, Is, Turns, LeftOf, Places,
         Owing, Claiming, Taken
<1>17. CASE Here(q, MigrateFailed, "restore", One("setRunning"))
  <2>1. r \in {One("setRunning")}
    BY <1>1, <1>3, <1>17 DEF Here, Is, Follow
  <2>2. QED  BY <2>1, <1>17, MigrateChain DEF Here, Is, Turns, LeftOf, Places,
         Owing, Claiming, Taken
<1>18. CASE Here(q, One("setRunning"), "setRunning", <<>>)
  <2>1. r \in {<<>>}
    BY <1>1, <1>3, <1>18 DEF Here, Is, Follow
  <2>2. QED  BY <2>1, <1>18, MigrateChain DEF Here, Is, Turns, LeftOf, Places,
         Owing, Claiming, Taken
<1>19. QED  BY <1>4, <1>5, <1>6, <1>7, <1>8, <1>9, <1>10, <1>11, <1>12, <1>13,
       <1>14, <1>15, <1>16, <1>17, <1>18, MigratePlaces

LEMMA RebuildTurns ==
  ASSUME NEW q \in Places("rebuild"), NEW r \in Follow("rebuild", q)
  PROVE  Turns("rebuild", q, r)
<1>1. /\ \A rest : OnError("rebuild", "client", rest) = One("setRunning")
      /\ \A rest : OnError("rebuild", "create", rest) = One("setRunning")
      /\ \A rest : OnError("rebuild", "findOld", rest) = createContainerOnNode
      /\ \A rest : OnError("rebuild", "start", rest) = r_giveUp
      /\ \A s, rest : s \notin {"client", "create", "findOld", "start"} =>
            OnError("rebuild", s, rest) = rest
  BY DEF OnError, One, r_giveUp
<1>2. FoundStopped("rebuild", r_stop) = r_delete
  BY RebuildChain DEF FoundStopped, Is, d_stoppedUnforward
<1>3. r \in Follow("rebuild", q)
  OBVIOUS
<1>4. CASE Here(q, handleRebuild, "setCreating", r_client)
  <2>1. r \in {r_client}
    BY <1>1, <1>3, <1>4 DEF Here, Is, Follow
  <2>2. QED  BY <2>1, <1>4, RebuildChain DEF Here, Is, Turns, LeftOf, Places,
         Owing, Claiming, Taken
<1>5. CASE Here(q, r_client, "client", r_unforward)
  <2>1. r \in {r_unforward, One("setRunning")}
    BY <1>1, <1>3, <1>5 DEF Here, Is, Follow
  <2>2. QED  BY <2>1, <1>5, RebuildChain DEF Here, Is, Turns, LeftOf, Places,
         Owing, Claiming, Taken
<1>6. CASE Here(q, r_unforward, "unforward", r_findOld)
  <2>1. r \in {r_findOld}
    BY <1>1, <1>3, <1>6 DEF Here, Is, Follow
  <2>2. QED  BY <2>1, <1>6, RebuildChain DEF Here, Is, Turns, LeftOf, Places,
         Owing, Claiming, Taken
<1>7. CASE Here(q, r_findOld, "findOld", r_stop)
  <2>1. r \in {r_stop, createContainerOnNode, r_delete}
    BY <1>1, <1>2, <1>3, <1>7 DEF Here, Is, Follow
  <2>2. QED  BY <2>1, <1>7, RebuildChain DEF Here, Is, Turns, LeftOf, Places,
         Owing, Claiming, Taken
<1>8. CASE Here(q, r_stop, "stop", r_delete)
  <2>1. r \in {r_delete}
    BY <1>1, <1>3, <1>8 DEF Here, Is, Follow
  <2>2. QED  BY <2>1, <1>8, RebuildChain DEF Here, Is, Turns, LeftOf, Places,
         Owing, Claiming, Taken
<1>9. CASE Here(q, r_delete, "delete", createContainerOnNode)
  <2>1. r \in {createContainerOnNode}
    BY <1>1, <1>3, <1>9 DEF Here, Is, Follow
  <2>2. QED  BY <2>1, <1>9, RebuildChain DEF Here, Is, Turns, LeftOf, Places,
         Owing, Claiming, Taken
<1>10. CASE Here(q, createContainerOnNode, "create", r_start)
  <2>1. r \in {r_start, One("setRunning")}
    BY <1>1, <1>3, <1>10 DEF Here, Is, Follow
  <2>2. QED  BY <2>1, <1>10, RebuildChain DEF Here, Is, Turns, LeftOf, Places,
         Owing, Claiming, Taken
<1>11. CASE Here(q, r_start, "start", r_forward)
  <2>1. r \in {r_forward, r_giveUp}
    BY <1>1, <1>3, <1>11 DEF Here, Is, Follow
  <2>2. QED  BY <2>1, <1>11, RebuildChain DEF Here, Is, Turns, LeftOf, Places,
         Owing, Claiming, Taken
<1>12. CASE Here(q, r_forward, "forward", One("created"))
  <2>1. r \in {One("created")}
    BY <1>1, <1>3, <1>12 DEF Here, Is, Follow
  <2>2. QED  BY <2>1, <1>12, RebuildChain DEF Here, Is, Turns, LeftOf, Places,
         Owing, Claiming, Taken
<1>13. CASE Here(q, One("created"), "created", <<>>)
  <2>1. r \in {<<>>}
    BY <1>1, <1>3, <1>13 DEF Here, Is, Follow
  <2>2. QED  BY <2>1, <1>13, RebuildChain DEF Here, Is, Turns, LeftOf, Places,
         Owing, Claiming, Taken
<1>14. CASE Here(q, r_giveUp, "delete", One("setRunning"))
  <2>1. r \in {One("setRunning")}
    BY <1>1, <1>3, <1>14 DEF Here, Is, Follow
  <2>2. QED  BY <2>1, <1>14, RebuildChain DEF Here, Is, Turns, LeftOf, Places,
         Owing, Claiming, Taken
<1>15. CASE Here(q, One("setRunning"), "setRunning", <<>>)
  <2>1. r \in {<<>>}
    BY <1>1, <1>3, <1>15 DEF Here, Is, Follow
  <2>2. QED  BY <2>1, <1>15, RebuildChain DEF Here, Is, Turns, LeftOf, Places,
         Owing, Claiming, Taken
<1>16. QED  BY <1>4, <1>5, <1>6, <1>7, <1>8, <1>9, <1>10, <1>11, <1>12, <1>13,
       <1>14, <1>15, RebuildPlaces

LEMMA DeleteTurns ==
  ASSUME NEW q \in Places("delete"), NEW r \in Follow("delete", q)
  PROVE  Turns("delete", q, r)
<1>1. /\ \A rest : OnError("delete", "client", rest) = One("unregister")
      /\ \A rest : OnError("delete", "findOld", rest) = One("unregister")
      /\ \A rest : OnError("delete", "stop", rest) = <<>>
      /\ \A rest : OnError("delete", "delete", rest) = <<>>
      /\ \A s, rest : s \notin {"client", "findOld", "stop", "delete"} =>
            OnError("delete", s, rest) = rest
  BY DEF OnError, One
<1>2. FoundStopped("delete", d_unforward) = d_stoppedUnforward
  BY DeleteChain DEF FoundStopped, Is, d_stoppedUnforward
<1>3. r \in Follow("delete", q)
  OBVIOUS
<1>4. CASE Here(q, handleDelete, "client", d_findOld)
  <2>1. r \in {d_findOld, One("unregister")}
    BY <1>1, <1>3, <1>4 DEF Here, Is, Follow
  <2>2. QED  BY <2>1, <1>4, DeleteChain DEF Here, Is, Turns, LeftOf, Places,
         Owing, Claiming, Taken
<1>5. CASE Here(q, d_findOld, "findOld", d_unforward)
  <2>1. r \in {d_unforward, One("unregister"), d_stoppedUnforward}
    BY <1>1, <1>2, <1>3, <1>5 DEF Here, Is, Follow
  <2>2. QED  BY <2>1, <1>5, DeleteChain DEF Here, Is, Turns, LeftOf, Places,
         Owing, Claiming, Taken
<1>6. CASE Here(q, d_unforward, "unforward", d_unregister)
  <2>1. r \in {d_unregister}
    BY <1>1, <1>3, <1>6 DEF Here, Is, Follow
  <2>2. QED  BY <2>1, <1>6, DeleteChain DEF Here, Is, Turns, LeftOf, Places,
         Owing, Claiming, Taken
<1>7. CASE Here(q, d_unregister, "unregister", d_stop)
  <2>1. r \in {d_stop}
    BY <1>1, <1>3, <1>7 DEF Here, Is, Follow
  <2>2. QED  BY <2>1, <1>7, DeleteChain DEF Here, Is, Turns, LeftOf, Places,
         Owing, Claiming, Taken
<1>8. CASE Here(q, d_stop, "stop", One("delete"))
  <2>1. r \in {One("delete"), <<>>}
    BY <1>1, <1>3, <1>8 DEF Here, Is, Follow
  <2>2. QED  BY <2>1, <1>8, DeleteChain DEF Here, Is, Turns, LeftOf, Places,
         Owing, Claiming, Taken
<1>9. CASE Here(q, d_stoppedUnforward, "unforward", d_stoppedUnregister)
  <2>1. r \in {d_stoppedUnregister}
    BY <1>1, <1>3, <1>9 DEF Here, Is, Follow
  <2>2. QED  BY <2>1, <1>9, DeleteChain DEF Here, Is, Turns, LeftOf, Places,
         Owing, Claiming, Taken
<1>10. CASE Here(q, d_stoppedUnregister, "unregister", One("delete"))
  <2>1. r \in {One("delete")}
    BY <1>1, <1>3, <1>10 DEF Here, Is, Follow
  <2>2. QED  BY <2>1, <1>10, DeleteChain DEF Here, Is, Turns, LeftOf, Places,
         Owing, Claiming, Taken
<1>11. CASE Here(q, One("unregister"), "unregister", <<>>)
  <2>1. r \in {<<>>}
    BY <1>1, <1>3, <1>11 DEF Here, Is, Follow
  <2>2. QED  BY <2>1, <1>11, DeleteChain DEF Here, Is, Turns, LeftOf, Places,
         Owing, Claiming, Taken
<1>12. CASE Here(q, One("delete"), "delete", <<>>)
  <2>1. r \in {<<>>}
    BY <1>1, <1>3, <1>12 DEF Here, Is, Follow
  <2>2. QED  BY <2>1, <1>12, DeleteChain DEF Here, Is, Turns, LeftOf, Places,
         Owing, Claiming, Taken
<1>13. QED  BY <1>4, <1>5, <1>6, <1>7, <1>8, <1>9, <1>10, <1>11, <1>12,
       DeletePlaces

LEMMA DestroyTurns ==
  ASSUME NEW q \in Places("destroy"), NEW r \in Follow("destroy", q)
  PROVE  Turns("destroy", q, r)
<1>1. /\ \A rest : OnError("destroy", "client", rest) = One("unregister")
      /\ \A rest : OnError("destroy", "findOld", rest) = One("unregister")
      /\ \A s, rest : s \notin {"client", "findOld"} =>
            OnError("destroy", s, rest) = rest
  BY DEF OnError, One
<1>2. FoundStopped("destroy", x_unforward) = x_stoppedUnforward
  BY DEF FoundStopped, x_stoppedUnforward
<1>3. r \in Follow("destroy", q)
  OBVIOUS
<1>4. CASE Here(q, destroyContainer, "client", x_findOld)
  <2>1. r \in {x_findOld, One("unregister")}
    BY <1>1, <1>3, <1>4 DEF Here, Is, Follow
  <2>2. QED  BY <2>1, <1>4, DestroyChain DEF Here, Is, Turns, LeftOf, Places,
         Owing, Claiming, Taken, Wiping, One
<1>5. CASE Here(q, x_findOld, "findOld", x_unforward)
  <2>1. r \in {x_unforward, One("unregister"), x_stoppedUnforward}
    BY <1>1, <1>2, <1>3, <1>5 DEF Here, Is, Follow
  <2>2. QED  BY <2>1, <1>5, DestroyChain DEF Here, Is, Turns, LeftOf, Places,
         Owing, Claiming, Taken, Wiping, One
<1>6. CASE Here(q, x_unforward, "unforward", x_stop)
  <2>1. r \in {x_stop}
    BY <1>1, <1>3, <1>6 DEF Here, Is, Follow
  <2>2. QED  BY <2>1, <1>6, DestroyChain DEF Here, Is, Turns, LeftOf, Places,
         Owing, Claiming, Taken, Wiping, One
<1>7. CASE Here(q, x_stop, "stop", x_delete)
  <2>1. r \in {x_delete}
    BY <1>1, <1>3, <1>7 DEF Here, Is, Follow
  <2>2. QED  BY <2>1, <1>7, DestroyChain DEF Here, Is, Turns, LeftOf, Places,
         Owing, Claiming, Taken, Wiping, One
<1>8. CASE Here(q, x_delete, "delete", One("unregister"))
  <2>1. r \in {One("unregister")}
    BY <1>1, <1>3, <1>8 DEF Here, Is, Follow
  <2>2. QED  BY <2>1, <1>8, DestroyChain DEF Here, Is, Turns, LeftOf, Places,
         Owing, Claiming, Taken, Wiping, One
<1>9. CASE Here(q, x_stoppedUnforward, "unforward", x_delete)
  <2>1. r \in {x_delete}
    BY <1>1, <1>3, <1>9 DEF Here, Is, Follow
  <2>2. QED  BY <2>1, <1>9, DestroyChain DEF Here, Is, Turns, LeftOf, Places,
         Owing, Claiming, Taken, Wiping, One
<1>10. CASE Here(q, One("unregister"), "unregister", <<>>)
  <2>1. r \in {<<>>}
    BY <1>1, <1>3, <1>10 DEF Here, Is, Follow
  <2>2. QED  BY <2>1, <1>10, DestroyChain DEF Here, Is, Turns, LeftOf, Places,
         Owing, Claiming, Taken, Wiping, One
<1>11. QED  BY <1>4, <1>5, <1>6, <1>7, <1>8, <1>9, <1>10, DestroyPlaces

LEMMA StartTurns ==
  ASSUME NEW q \in Places("start"), NEW r \in Follow("start", q)
  PROVE  Turns("start", q, r)
<1>1. /\ \A s, rest : OnError("start", s, rest) = <<>>
  BY DEF OnError
<1>2. r \in Follow("start", q)
  OBVIOUS
<1>3. CASE Here(q, Script("start"), "client", start_setRunning)
  <2>1. r \in {start_setRunning, <<>>}
    BY <1>1, <1>2, <1>3 DEF Here, Is, Follow
  <2>2. QED  BY <2>1, <1>3, StartChain DEF Here, Is, Turns, LeftOf, Places,
         Owing, Claiming, Taken
<1>4. CASE Here(q, start_setRunning, "start", One("setRunning"))
  <2>1. r \in {One("setRunning"), <<>>}
    BY <1>1, <1>2, <1>4 DEF Here, Is, Follow
  <2>2. QED  BY <2>1, <1>4, StartChain DEF Here, Is, Turns, LeftOf, Places,
         Owing, Claiming, Taken
<1>5. CASE Here(q, One("setRunning"), "setRunning", <<>>)
  <2>1. r \in {<<>>}
    BY <1>1, <1>2, <1>5 DEF Here, Is, Follow
  <2>2. QED  BY <2>1, <1>5, StartChain DEF Here, Is, Turns, LeftOf, Places,
         Owing, Claiming, Taken
<1>6. QED  BY <1>3, <1>4, <1>5, StartPlaces

LEMMA StopTurns ==
  ASSUME NEW q \in Places("stop"), NEW r \in Follow("stop", q)
  PROVE  Turns("stop", q, r)
<1>1. /\ \A s, rest : OnError("stop", s, rest) = <<>>
  BY DEF OnError
<1>2. r \in Follow("stop", q)
  OBVIOUS
<1>3. CASE Here(q, Script("stop"), "client", stop_setStopped)
  <2>1. r \in {stop_setStopped, <<>>}
    BY <1>1, <1>2, <1>3 DEF Here, Is, Follow
  <2>2. QED  BY <2>1, <1>3, StopChain DEF Here, Is, Turns, LeftOf, Places,
         Owing, Claiming, Taken
<1>4. CASE Here(q, stop_setStopped, "stop", One("setStopped"))
  <2>1. r \in {One("setStopped"), <<>>}
    BY <1>1, <1>2, <1>4 DEF Here, Is, Follow
  <2>2. QED  BY <2>1, <1>4, StopChain DEF Here, Is, Turns, LeftOf, Places,
         Owing, Claiming, Taken
<1>5. CASE Here(q, One("setStopped"), "setStopped", <<>>)
  <2>1. r \in {<<>>}
    BY <1>1, <1>2, <1>5 DEF Here, Is, Follow
  <2>2. QED  BY <2>1, <1>5, StopChain DEF Here, Is, Turns, LeftOf, Places,
         Owing, Claiming, Taken
<1>6. QED  BY <1>3, <1>4, <1>5, StopPlaces

LEMMA CheckTurns ==
  ASSUME NEW q \in Places("check"), NEW r \in Follow("check", q)
  PROVE  Turns("check", q, r)
<1>1. /\ \A s, rest : OnError("check", s, rest) = <<>>
  BY DEF OnError
<1>2. r \in Follow("check", q)
  OBVIOUS
<1>3. CASE Here(q, Script("check"), "client", One("inspect"))
  <2>1. r \in {One("inspect"), <<>>}
    BY <1>1, <1>2, <1>3 DEF Here, Is, Follow
  <2>2. QED  BY <2>1, <1>3, CheckChain DEF Here, Is, Turns, LeftOf, Places,
         Owing, Claiming, Taken
<1>4. CASE Here(q, One("inspect"), "inspect", <<>>)
  <2>1. r \in {<<>>, One("setStopped")}
    BY <1>1, <1>2, <1>4 DEF Here, Is, Follow
  <2>2. QED  BY <2>1, <1>4, CheckChain DEF Here, Is, Turns, LeftOf, Places,
         Owing, Claiming, Taken
<1>5. CASE Here(q, One("setStopped"), "setStopped", <<>>)
  <2>1. r \in {<<>>}
    BY <1>1, <1>2, <1>5 DEF Here, Is, Follow
  <2>2. QED  BY <2>1, <1>5, CheckChain DEF Here, Is, Turns, LeftOf, Places,
         Owing, Claiming, Taken
<1>6. QED  BY <1>3, <1>4, <1>5, CheckPlaces


LEMMA AllTurns ==
  ASSUME NEW op, NEW q \in Places(op), NEW r \in Follow(op, q)
  PROVE  Turns(op, q, r)
<1>1. op \in {"migrate", "rebuild", "delete", "destroy", "start", "stop", "check"}
  BY DEF Places
<1>2. QED
  BY <1>1, MigrateTurns, RebuildTurns, DeleteTurns, DestroyTurns, StartTurns,
     StopTurns, CheckTurns

\* Every place is a sequence of calls, and a call is next.
LEMMA PlaceIs ==
  ASSUME NEW op, NEW q \in Places(op)
  PROVE  q \in Seq(Steps) /\ q # <<>> /\ op \in Requests
<1>1. op \in {"migrate", "rebuild", "delete", "destroy", "start", "stop", "check"}
  BY DEF Places
<1>2. CASE op = "migrate"
  BY <1>2, MigratePlaces DEF Here, Is, Requests
<1>3. CASE op = "rebuild"
  BY <1>3, RebuildPlaces DEF Here, Is, Requests
<1>4. CASE op = "delete"
  BY <1>4, DeletePlaces DEF Here, Is, Requests
<1>5. CASE op = "destroy"
  BY <1>5, DestroyPlaces DEF Here, Is, Requests
<1>6. CASE op \in {"start", "stop", "check"}
  BY <1>6, StartPlaces, StopPlaces, CheckPlaces DEF Here, Is, Requests
<1>7. QED  BY <1>1, <1>2, <1>3, <1>4, <1>5, <1>6

LEMMA ScriptPlaces ==
  ASSUME NEW op \in Requests
  PROVE  Script(op) \in Places(op)
BY DEF Requests, Script, Places

(***************************************************************************)
(* The invariant: types, and the counts of ports and of containers         *)
(***************************************************************************)
RecordTypes ==
  /\ registered \in BOOLEAN /\ rec \in Record
  /\ disk \in [registered : BOOLEAN, rec : Record]
  /\ disk.registered = registered
HostTypes ==
  /\ body \in [Nodes -> {"none", "Stopped", "Running"}]
  /\ rule \subseteq Nodes \X (1 .. MaxPort)
WorkerTypes ==
  /\ scenario \in Scenarios
  /\ todo \in [Workers -> Seq(Steps)] /\ job \in [Workers -> Job]
  /\ \A w \in Workers :
       IF todo[w] = <<>> THEN job[w] = InitialJob
       ELSE todo[w] \in Places(job[w].op) /\ job[w].op \in scenario.ops

\* Every migration that has yet to draw a port will find one.
Claimers == {w \in Workers : Claiming(job[w].op, todo[w])}
PortsLeft ==
  /\ lastPort \in 1 .. MaxPort
  /\ IsFiniteSet(Migrations)
  /\ lastPort + Cardinality(Claimers) <= MaxPort

\* A deletion removes the container when the record is gone.
TakenAway ==
  \A w \in Workers : Taken(job[w].op, todo[w]) => ~registered

\* A migration removes one container after it has made one: there is always
\* one more than the migrations that have still to remove one, until
\* destroyContainer has removed one and goes to drop the record.
Bodies == {n \in Nodes : body[n] # "none"}
Owers == {w \in Workers : Owing(job[w].op, todo[w])}
Pending == \E w \in Workers : Wiping(job[w].op, todo[w])
Counted ==
  /\ IsFiniteSet(Bodies) /\ IsFiniteSet(Owers)
  /\ Cardinality(Owers) < Cardinality(Bodies)
OneMore ==
  "rebuild" \notin scenario.ops /\ DestroyEnds /\ registered
    => Pending \/ Counted

Types == RecordTypes /\ HostTypes /\ WorkerTypes /\ PortsLeft
SurvivalInv == Types /\ TakenAway /\ OneMore

LEMMA TypesImply == Types => TypeOK
BY DEF Types, RecordTypes, HostTypes, WorkerTypes, PortsLeft, TypeOK

LEMMA FirstNodeIs == FirstNode \in Nodes
BY BoundAssumption DEF FirstNode

LEMMA InitialJobIs == InitialJob \in Job
BY FirstNodeIs, BoundAssumption DEF InitialJob, Job

(***************************************************************************)
(* A worker goes on                                                        *)
(***************************************************************************)
\* What changes of the workers when w goes from a place to the next.
Onward(w) ==
  /\ todo[w] \in Places(job[w].op)
  /\ \E r \in Follow(job[w].op, todo[w]), j \in Job :
        j.op = job[w].op /\ Goes(w, r, j)

\* Worker w is at call s, and goes on.
LEMMA GoesOnward ==
  ASSUME WorkerTypes, NEW w \in Workers, todo[w] # <<>>, NEW r, NEW j \in Job,
         j.op = job[w].op, Goes(w, r, j), r \in Follow(job[w].op, todo[w])
  PROVE  Onward(w)
BY DEF Onward, WorkerTypes

LEMMA ContinueOnward ==
  ASSUME WorkerTypes, NEW w \in Workers, todo[w] # <<>>, Continue(w)
  PROVE  Onward(w)
<1>1. job[w] \in Job
  BY DEF WorkerTypes
<1>2. QED  BY <1>1, GoesOnward DEF Continue, Follow

LEMMA FailOnward ==
  ASSUME WorkerTypes, NEW w \in Workers, todo[w] # <<>>, Fail(w)
  PROVE  Onward(w)
<1>1. job[w] \in Job
  BY DEF WorkerTypes
<1>2. QED  BY <1>1, GoesOnward DEF Fail, Follow

\* What the steps of the scripts mean for the invariant.
LEMMA OnwardKeeps ==
  ASSUME WorkerTypes, NEW w \in Workers, Onward(w)
  PROVE  /\ WorkerTypes'
         /\ Migrations' \subseteq Migrations
         /\ Claimers' \subseteq Claimers
         /\ At(w, "claim") => w \notin Claimers'
         /\ \A v \in Workers :
              Taken(job[v].op, todo[v])' =>
                Taken(job[v].op, todo[v]) \/ (v = w /\ At(w, "unregister"))
         /\ \/ Owers' \subseteq Owers
            \/ At(w, "create") /\ todo'[w] = Tail(todo[w])
         /\ Owers' \subseteq Owers \cup {w}
         /\ At(w, "delete") => w \notin Owers'
         /\ Pending /\ ~At(w, "unregister") => Pending'
         /\ job[w].op = "destroy" /\ At(w, "delete") => Pending'
<1> DEFINE op == job[w].op
           q == todo[w]
<1>1. PICK r \in Follow(op, q), j \in Job : j.op = op /\ Goes(w, r, j)
  BY DEF Onward
<1>2. q \in Places(op) /\ q # <<>> /\ q \in Seq(Steps) /\ op \in Requests
  BY PlaceIs DEF Onward
<1>3. Turns(op, q, r)
  BY <1>1, <1>2, AllTurns
<1>4. r = <<>> \/ r \in Places(op)
  BY <1>3 DEF Turns, LeftOf
<1>5. r \in Seq(Steps)
  <2>1. CASE r = <<>>
    BY <2>1
  <2>2. CASE r \in Places(op)
    BY <2>2, PlaceIs
  <2>3. QED  BY <1>4, <2>1, <2>2
<1>6. /\ todo' = [todo EXCEPT ![w] = r]
      /\ job' = [job EXCEPT ![w] = IF r = <<>> THEN InitialJob ELSE j]
      /\ scenario' = scenario
  BY <1>1 DEF Goes
<1>7. op \in scenario.ops
  BY <1>2 DEF WorkerTypes
<1>8. WorkerTypes'
  <2>1. todo' \in [Workers -> Seq(Steps)] /\ job' \in [Workers -> Job]
    BY <1>1, <1>5, <1>6, InitialJobIs DEF WorkerTypes
  <2>2. ASSUME NEW v \in Workers
        PROVE  IF todo'[v] = <<>> THEN job'[v] = InitialJob
               ELSE todo'[v] \in Places(job'[v].op) /\ job'[v].op \in scenario.ops
    BY <1>1, <1>4, <1>6, <1>7 DEF WorkerTypes
  <2>3. QED  BY <1>6, <2>1, <2>2 DEF WorkerTypes, InitialJob, FirstNode
<1>9. \A v \in Workers \ {w} : todo'[v] = todo[v] /\ job'[v] = job[v]
  BY <1>6 DEF WorkerTypes
<1>10. todo'[w] = r /\ (r # <<>> => job'[w].op = op)
  BY <1>1, <1>6 DEF WorkerTypes
<1>11. Migrations' \subseteq Migrations
  BY <1>2, <1>9, <1>10 DEF Migrations
<1>12. Claiming(job'[w].op, r) =>
         Claiming(op, q) /\ Head(q) # "claim"
  BY <1>3, <1>10 DEF Turns, Claiming
<1>13. Claimers' \subseteq Claimers /\ (At(w, "claim") => w \notin Claimers')
  BY <1>9, <1>10, <1>12 DEF Claimers, At, Claiming
<1>14. Taken(job'[w].op, r) => Taken(op, q) \/ Head(q) = "unregister"
  BY <1>3, <1>10 DEF Turns, Taken
<1>15. \A v \in Workers :
         Taken(job[v].op, todo[v])' =>
           Taken(job[v].op, todo[v]) \/ (v = w /\ At(w, "unregister"))
  BY <1>2, <1>9, <1>10, <1>14 DEF At, Taken
<1>16. Owing(job'[w].op, r) =>
         /\ Owing(op, q) \/ (Head(q) = "create" /\ r = Tail(q))
         /\ Head(q) # "delete"
  BY <1>3, <1>10 DEF Turns, Owing
<1>17. /\ \/ Owers' \subseteq Owers
          \/ At(w, "create") /\ todo'[w] = Tail(todo[w])
       /\ Owers' \subseteq Owers \cup {w}
       /\ At(w, "delete") => w \notin Owers'
  BY <1>2, <1>9, <1>10, <1>16 DEF At, Owers, Owing
<1>18. ASSUME Pending, ~At(w, "unregister") PROVE Pending'
  <2>1. PICK v \in Workers : Wiping(job[v].op, todo[v])
    BY <1>18 DEF Pending
  <2>2. v # w
    <3> SUFFICES ASSUME q = <<"unregister">> PROVE FALSE
      BY <2>1 DEF Wiping
    <3>1. Head(q) = "unregister" /\ q # <<>>
      OBVIOUS
    <3>2. QED  BY <1>18, <3>1 DEF At
  <2>3. Wiping(job[v].op, todo[v])'
    BY <1>9, <2>1, <2>2 DEF Wiping
  <2>4. QED  BY <2>3 DEF Pending
<1>19. ASSUME op = "destroy", At(w, "delete") PROVE Pending'
  <2>1. Wiping(op, r)
    BY <1>3, <1>19 DEF Turns, At
  <2>2. r # <<>>
    BY <2>1 DEF Wiping
  <2>3. Wiping(job[w].op, todo[w])'
    BY <1>10, <2>1, <2>2 DEF Wiping
  <2>4. QED  BY <2>3 DEF Pending
<1>20. QED  BY <1>8, <1>11, <1>13, <1>15, <1>17, <1>18, <1>19

\* The scenario is the same from beginning to end.
LEMMA OnwardScenario ==
  ASSUME NEW w, Onward(w)
  PROVE  scenario' = scenario
BY DEF Onward, Goes

\* A step that draws no port leaves enough of them.
LEMMA PortsKept ==
  ASSUME WorkerTypes, PortsLeft, NEW w \in Workers, Onward(w),
         lastPort' = lastPort
  PROVE  PortsLeft'
<1>1. Claimers' \subseteq Claimers /\ Migrations' \subseteq Migrations
  BY OnwardKeeps
<1>2. IsFiniteSet(Migrations) /\ Claimers \subseteq Migrations
  BY DEF PortsLeft, Claimers, Claiming, Migrations
<1>3. IsFiniteSet(Claimers)
  BY <1>2, FS_Subset
<1>4. /\ IsFiniteSet(Migrations')
      /\ Cardinality(Claimers') \in Nat /\ Cardinality(Claimers) \in Nat
      /\ Cardinality(Claimers') <= Cardinality(Claimers)
  BY <1>1, <1>2, <1>3, FS_Subset, FS_CardinalityType
<1>5. QED  BY <1>4, BoundAssumption DEF PortsLeft

\* The containers are as many, and no more are owed.
LEMMA OneMoreKept ==
  ASSUME OneMore, scenario' = scenario, registered' => registered,
         Bodies' = Bodies, Owers' \subseteq Owers,
         DestroyEnds /\ Pending => Pending' \/ ~registered'
  PROVE  OneMore'
<1>1. SUFFICES ASSUME "rebuild" \notin scenario.ops, DestroyEnds, registered',
                      ~Pending'
               PROVE  Counted'
  BY DEF OneMore, DestroyEnds
<1>2. Counted
  BY <1>1 DEF OneMore
<1>3. /\ IsFiniteSet(Owers') /\ Cardinality(Owers') <= Cardinality(Owers)
      /\ Cardinality(Owers') \in Nat /\ Cardinality(Owers) \in Nat
      /\ Cardinality(Bodies) \in Nat
  BY <1>2, FS_Subset, FS_CardinalityType DEF Counted
<1>4. QED  BY <1>2, <1>3 DEF Counted

\* A step that neither makes nor removes a container, nor draws a port.
LEMMA OtherStepKeeps ==
  ASSUME SurvivalInv, NEW w \in Workers, Onward(w),
         RecordTypes', HostTypes', lastPort' = lastPort, Bodies' = Bodies,
         registered' => registered,
         At(w, "unregister") => ~registered',
         Owers' \subseteq Owers
  PROVE  SurvivalInv'
<1> USE DEF SurvivalInv, Types
<1>1. WorkerTypes' /\ scenario' = scenario
  BY OnwardKeeps, OnwardScenario
<1>2. PortsLeft'
  BY PortsKept
<1>3. TakenAway'
  BY OnwardKeeps DEF TakenAway
<1>4. OneMore'
  BY <1>1, OnwardKeeps, OneMoreKept
<1>5. QED  BY <1>1, <1>2, <1>3, <1>4

\* Where a call that decides over the invariant can be next.
LEMMA CallsOf ==
  ASSUME WorkerTypes, NEW w \in Workers
  PROVE  /\ At(w, "create") => job[w].op \in {"migrate", "rebuild"}
         /\ At(w, "delete") =>
              job[w].op \in {"migrate", "rebuild", "delete", "destroy"}
         /\ At(w, "claim") => job[w].op = "migrate"
         /\ At(w, "unregister") => job[w].op \in {"delete", "destroy"}
<1> DEFINE op == job[w].op
           q == todo[w]
<1>1. CASE q = <<>>
  BY <1>1 DEF At
<1>2. CASE q # <<>>
  <2>1. q \in Places(op)
    BY <1>2 DEF WorkerTypes
  <2>2. op \in {"migrate", "rebuild", "delete", "destroy", "start", "stop",
                "check"}
    BY <2>1 DEF Places
  <2>3. CASE op = "migrate"
    <3>1. Head(q) # "unregister"
      BY <2>1, <2>3, MigratePlaces DEF Here, Is
    <3>2. QED  BY <2>3, <3>1 DEF At
  <2>4. CASE op = "rebuild"
    <3>1. Head(q) \notin {"unregister", "claim"}
      BY <2>1, <2>4, RebuildPlaces DEF Here, Is
    <3>2. QED  BY <2>4, <3>1 DEF At
  <2>5. CASE op = "delete"
    <3>1. Head(q) \notin {"create", "claim"}
      BY <2>1, <2>5, DeletePlaces DEF Here, Is
    <3>2. QED  BY <2>5, <3>1 DEF At
  <2>6. CASE op = "destroy"
    <3>1. Head(q) \notin {"create", "claim"}
      BY <2>1, <2>6, DestroyPlaces DEF Here, Is
    <3>2. QED  BY <2>6, <3>1 DEF At
  <2>7. CASE op \in {"start", "stop", "check"}
    <3>1. Head(q) \notin {"create", "delete", "claim", "unregister"}
      BY <2>1, <2>7, StartPlaces, StopPlaces, CheckPlaces DEF Here, Is
    <3>2. QED  BY <3>1 DEF At
  <2>8. QED  BY <2>2, <2>3, <2>4, <2>5, <2>6, <2>7
<1>3. QED  BY <1>1, <1>2

\* One call at a time.
LEMMA OneCall ==
  ASSUME NEW w, NEW s, At(w, s), NEW t, t # s
  PROVE  ~At(w, t)
BY DEF At

(***************************************************************************)
(* The steps, one by one                                                   *)
(***************************************************************************)
LEMMA SaveTypes ==
  ASSUME NEW reg \in BOOLEAN, NEW r \in Record, Save(reg, r)
  PROVE  RecordTypes' /\ registered' = reg
BY DEF Save, RecordTypes

LEMMA SetStateKeeps ==
  ASSUME SurvivalInv, NEW w \in Workers, SetState(w)
  PROVE  SurvivalInv'
<1>1. PICK s \in {"setRunning", "setStopped", "setCreating", "setMigrating"},
           new \in States : setState(w, s, new)
  BY DEF SetState, States
<1>2. todo[w] # <<>> /\ Continue(w) /\ At(w, s)
  BY <1>1 DEF setState, At
<1>3. Onward(w)
  BY <1>2, ContinueOnward DEF SurvivalInv, Types
<1>4. RecordTypes' /\ (registered' => registered)
  <2>1. [rec EXCEPT !.state = new] \in Record /\ registered \in BOOLEAN
    BY DEF SurvivalInv, Types, RecordTypes, Record
  <2>2. CASE registered
    BY <1>1, <2>1, <2>2, SaveTypes DEF setState, IfRegistered
  <2>3. CASE ~registered
    BY <1>1, <2>3 DEF setState, IfRegistered, RecordTypes, SurvivalInv, Types
  <2>4. QED  BY <2>1, <2>2, <2>3
<1>5. HostTypes' /\ lastPort' = lastPort /\ Bodies' = Bodies
  BY <1>1 DEF setState, HostTypes, Bodies, SurvivalInv, Types
<1>6. Owers' \subseteq Owers
  BY <1>2, <1>3, OnwardKeeps, OneCall DEF SurvivalInv, Types
<1>7. ~At(w, "unregister")
  BY <1>2, OneCall
<1>8. QED  BY <1>3, <1>4, <1>5, <1>6, <1>7, OtherStepKeeps

LEMMA RestoreKeeps ==
  ASSUME SurvivalInv, NEW w \in Workers, Restore(w)
  PROVE  SurvivalInv'
<1>1. todo[w] # <<>> /\ Continue(w) /\ At(w, "restore")
  BY DEF Restore, At
<1>2. Onward(w)
  BY <1>1, ContinueOnward DEF SurvivalInv, Types
<1>3. job[w].old \in 1 .. MaxPort
  BY DEF SurvivalInv, Types, WorkerTypes, Job
<1>4. RecordTypes' /\ (registered' => registered)
  BY <1>3 DEF Restore, RecordTypes, Record, SurvivalInv, Types
<1>5. HostTypes' /\ lastPort' = lastPort /\ Bodies' = Bodies
  BY DEF Restore, HostTypes, Bodies, SurvivalInv, Types
<1>6. Owers' \subseteq Owers
  BY <1>1, <1>2, OnwardKeeps, OneCall DEF SurvivalInv, Types
<1>7. ~At(w, "unregister")
  BY <1>1, OneCall
<1>8. QED  BY <1>2, <1>4, <1>5, <1>6, <1>7, OtherStepKeeps

LEMMA CreatedKeeps ==
  ASSUME SurvivalInv, NEW w \in Workers, Created(w)
  PROVE  SurvivalInv'
<1>1. todo[w] # <<>> /\ Continue(w) /\ At(w, "created")
  BY DEF Created, At
<1>2. Onward(w)
  BY <1>1, ContinueOnward DEF SurvivalInv, Types
<1>3. RecordTypes' /\ (registered' => registered)
  BY DEF Created, Save, RecordTypes, Record, States, SurvivalInv, Types
<1>4. HostTypes' /\ lastPort' = lastPort /\ Bodies' = Bodies
  BY DEF Created, HostTypes, Bodies, SurvivalInv, Types
<1>5. Owers' \subseteq Owers
  BY <1>1, <1>2, OnwardKeeps, OneCall DEF SurvivalInv, Types
<1>6. ~At(w, "unregister")
  BY <1>1, OneCall
<1>7. QED  BY <1>2, <1>3, <1>4, <1>5, <1>6, OtherStepKeeps

LEMMA MovedKeeps ==
  ASSUME SurvivalInv, NEW w \in Workers, Moved(w)
  PROVE  SurvivalInv'
<1>1. todo[w] # <<>> /\ Continue(w) /\ At(w, "moved")
  BY DEF Moved, At
<1>2. Onward(w)
  BY <1>1, ContinueOnward DEF SurvivalInv, Types
<1>3. job[w].to \in Nodes /\ job[w].new \in 1 .. MaxPort
  BY DEF SurvivalInv, Types, WorkerTypes, Job
<1>4. RecordTypes' /\ (registered' => registered)
  <2>1. [node |-> job[w].to, port |-> job[w].new, state |-> "running"] \in Record
    BY <1>3 DEF Record, States
  <2>2. rec \in Record /\ registered \in BOOLEAN
    BY DEF SurvivalInv, Types, RecordTypes
  <2>3. QED  BY <2>1, <2>2, SaveTypes DEF Moved
<1>5. HostTypes' /\ lastPort' = lastPort /\ Bodies' = Bodies
  BY DEF Moved, HostTypes, Bodies, SurvivalInv, Types
<1>6. Owers' \subseteq Owers
  BY <1>1, <1>2, OnwardKeeps, OneCall DEF SurvivalInv, Types
<1>7. ~At(w, "unregister")
  BY <1>1, OneCall
<1>8. QED  BY <1>2, <1>4, <1>5, <1>6, <1>7, OtherStepKeeps

LEMMA UnregisterKeeps ==
  ASSUME SurvivalInv, NEW w \in Workers, Unregister(w)
  PROVE  SurvivalInv'
<1>1. todo[w] # <<>> /\ Continue(w) /\ At(w, "unregister")
  BY DEF Unregister, At
<1>2. Onward(w)
  BY <1>1, ContinueOnward DEF SurvivalInv, Types
<1>3. RecordTypes' /\ ~registered'
  <2>1. RecordTypes
    BY DEF SurvivalInv, Types
  <2>2. CASE registered
    BY <2>1, <2>2, SaveTypes DEF Unregister, RecordTypes
  <2>3. CASE ~registered
    BY <2>1, <2>3 DEF Unregister, RecordTypes
  <2>4. QED  BY <2>2, <2>3
<1>4. HostTypes' /\ lastPort' = lastPort /\ Bodies' = Bodies
  BY DEF Unregister, HostTypes, Bodies, SurvivalInv, Types
<1>5. Owers' \subseteq Owers
  BY <1>1, <1>2, OnwardKeeps, OneCall DEF SurvivalInv, Types
<1>6. QED  BY <1>2, <1>3, <1>4, <1>5, OtherStepKeeps

\* Calls that leave the record, the ports and the containers there are.
LEMMA QuietStepKeeps ==
  ASSUME SurvivalInv, NEW w \in Workers, Onward(w),
         UNCHANGED <<registered, rec, disk, lastPort>>,
         HostTypes', Bodies' = Bodies,
         ~At(w, "unregister"), ~At(w, "create")
  PROVE  SurvivalInv'
<1>1. RecordTypes'
  BY DEF RecordTypes, Record, SurvivalInv, Types
<1>2. Owers' \subseteq Owers
  BY OnwardKeeps DEF SurvivalInv, Types
<1>3. QED  BY <1>1, <1>2, OtherStepKeeps

LEMMA ClientKeeps ==
  ASSUME SurvivalInv, NEW w \in Workers, Client(w)
  PROVE  SurvivalInv'
<1>1. todo[w] # <<>> /\ At(w, "client")
  BY DEF Client, At
<1>2. ~At(w, "unregister") /\ ~At(w, "create")
  BY <1>1, OneCall
<1>3. UNCHANGED <<registered, rec, disk, lastPort, body, rule>>
  BY DEF Client
<1>4. HostTypes' /\ Bodies' = Bodies
  BY <1>3 DEF HostTypes, Bodies, SurvivalInv, Types
<1>5. Onward(w)
  <2>1. CASE Fail(w)
    BY <1>1, <2>1, FailOnward DEF SurvivalInv, Types
  <2>2. CASE ~Fail(w)
    <3> DEFINE j == [job[w] EXCEPT !.at = rec.node,
                       !.old = IF job[w].op = "rebuild" THEN rec.port ELSE @]
    <3>1. Goes(w, Tail(todo[w]), j)
      BY <2>2 DEF Client
    <3>2. j \in Job /\ j.op = job[w].op
      <4>1. job[w] \in Job /\ rec.node \in Nodes /\ rec.port \in 1 .. MaxPort
        BY DEF SurvivalInv, Types, WorkerTypes, RecordTypes, Record
      <4>2. QED  BY <4>1 DEF Job
    <3>3. Tail(todo[w]) \in Follow(job[w].op, todo[w])
      BY DEF Follow
    <3> HIDE DEF j
    <3>4. QED  BY <1>1, <3>1, <3>2, <3>3, GoesOnward DEF SurvivalInv, Types
  <2>3. QED  BY <2>1, <2>2
<1>6. QED  BY <1>2, <1>3, <1>4, <1>5, QuietStepKeeps

LEMMA StatusKeeps ==
  ASSUME SurvivalInv, NEW w \in Workers,
         StartContainer(w) \/ StopContainer(w)
  PROVE  SurvivalInv'
<1>1. todo[w] # <<>> /\ (At(w, "start") \/ At(w, "stop"))
  BY DEF StartContainer, StopContainer, LxdCall, At
<1>2. ~At(w, "unregister") /\ ~At(w, "create")
  BY <1>1, OneCall
<1>3. UNCHANGED <<registered, rec, disk, lastPort, rule>>
  BY DEF StartContainer, StopContainer, LxdCall
<1>4. Goes(w, Tail(todo[w]), job[w]) \/ Fail(w)
  BY DEF StartContainer, StopContainer, LxdCall
<1>5. Onward(w)
  BY <1>1, <1>4, ContinueOnward, FailOnward DEF Continue, SurvivalInv, Types
<1>6. job[w].at \in Nodes
  BY DEF SurvivalInv, Types, WorkerTypes, Job
<1>7. \/ body' = body
      \/ /\ body[job[w].at] # "none"
         /\ \E to \in {"Stopped", "Running"} :
              body' = [body EXCEPT ![job[w].at] = to]
  BY DEF StartContainer, StopContainer, LxdCall
<1>8. HostTypes' /\ Bodies' = Bodies
  BY <1>3, <1>6, <1>7 DEF HostTypes, Bodies, SurvivalInv, Types
<1>9. QED  BY <1>2, <1>3, <1>5, <1>8, QuietStepKeeps

LEMMA LooksKeep ==
  ASSUME SurvivalInv, NEW w \in Workers, FindOld(w) \/ Inspect(w)
  PROVE  SurvivalInv'
<1>1. todo[w] # <<>> /\ (At(w, "findOld") \/ At(w, "inspect"))
  BY DEF FindOld, Inspect, At
<1>2. ~At(w, "unregister") /\ ~At(w, "create")
  BY <1>1, OneCall
<1>3. UNCHANGED <<registered, rec, disk, lastPort, body, rule>>
  BY DEF FindOld, Inspect
<1>4. HostTypes' /\ Bodies' = Bodies
  BY <1>3 DEF HostTypes, Bodies, SurvivalInv, Types
<1>5. \E r \in Follow(job[w].op, todo[w]) : Goes(w, r, job[w])
  <2>1. CASE FindOld(w)
    BY <2>1 DEF FindOld, At, Fail, Follow
  <2>2. CASE Inspect(w)
    BY <2>2 DEF Inspect, At, Follow, One
  <2>3. QED  BY <2>1, <2>2
<1>6. job[w] \in Job
  BY DEF SurvivalInv, Types, WorkerTypes
<1>7. Onward(w)
  BY <1>1, <1>5, <1>6, GoesOnward DEF SurvivalInv, Types
<1>8. QED  BY <1>2, <1>3, <1>4, <1>7, QuietStepKeeps

LEMMA RulesKeep ==
  ASSUME SurvivalInv, NEW w \in Workers, Forward(w) \/ Unforward(w)
  PROVE  SurvivalInv'
<1>1. todo[w] # <<>> /\ (At(w, "forward") \/ At(w, "unforward")) /\ Continue(w)
  BY DEF Forward, Unforward, At
<1>2. ~At(w, "unregister") /\ ~At(w, "create")
  BY <1>1, OneCall
<1>3. UNCHANGED <<registered, rec, disk, lastPort, body>>
  BY DEF Forward, Unforward
<1>4. rule' \subseteq rule \cup {<<job[w].to, job[w].new>>}
  BY DEF Forward, Unforward
<1>5. job[w].to \in Nodes /\ job[w].new \in 1 .. MaxPort
  BY DEF SurvivalInv, Types, WorkerTypes, Job
<1>6. HostTypes' /\ Bodies' = Bodies
  BY <1>3, <1>4, <1>5 DEF HostTypes, Bodies, SurvivalInv, Types
<1>7. Onward(w)
  BY <1>1, ContinueOnward DEF SurvivalInv, Types
<1>8. QED  BY <1>2, <1>3, <1>6, <1>7, QuietStepKeeps

LEMMA CreateKeeps ==
  ASSUME SurvivalInv, NEW w \in Workers, CreateContainer(w)
  PROVE  SurvivalInv'
<1> DEFINE n == job[w].at
<1>1. todo[w] # <<>> /\ At(w, "create") /\ ~At(w, "unregister")
  BY OneCall DEF CreateContainer, LxdCall, At
<1>2. job[w] \in Job /\ n \in Nodes /\ rec.node \in Nodes /\ rec.port \in 1 .. MaxPort
  BY DEF SurvivalInv, Types, WorkerTypes, Job, RecordTypes, Record
<1>3. UNCHANGED <<registered, rec, disk, lastPort, rule>>
  BY DEF CreateContainer, LxdCall
<1>4. RecordTypes'
  BY <1>3 DEF RecordTypes, SurvivalInv, Types
<1>5. CASE body' = body /\ Fail(w)
  <2>1. Onward(w)
    BY <1>1, <1>5, FailOnward DEF SurvivalInv, Types
  <2>2. HostTypes' /\ Bodies' = Bodies
    BY <1>3, <1>5 DEF HostTypes, Bodies, SurvivalInv, Types
  <2>3. ~Owing(job[w].op, OnError(job[w].op, "create", Tail(todo[w])))
    <3>1. CASE job[w].op = "migrate"
      <4>1. OnError("migrate", "create", Tail(todo[w])) = MigrateFailed
        BY DEF OnError
      <4>2. Head(MigrateFailed) = "restore"
        BY MigrateChain DEF Is
      <4>3. QED  BY <3>1, <4>1, <4>2 DEF Owing
    <3>2. CASE job[w].op # "migrate"
      BY <3>2 DEF Owing
    <3>3. QED  BY <3>1, <3>2
  <2>4. /\ todo'[w] = OnError(job[w].op, "create", Tail(todo[w]))
        /\ todo'[w] # <<>> => job'[w].op = job[w].op
    BY <1>1, <1>5 DEF Fail, Goes, At, SurvivalInv, Types, WorkerTypes
  <2>5. w \notin Owers'
    BY <2>3, <2>4 DEF Owers, Owing
  <2>6. Owers' \subseteq Owers \cup {w}
    BY <2>1, OnwardKeeps DEF SurvivalInv, Types
  <2>7. Owers' \subseteq Owers
    BY <2>5, <2>6
  <2>8. QED  BY <1>1, <1>3, <1>4, <2>1, <2>2, <2>7, OtherStepKeeps
<1>6. CASE ~(body' = body /\ Fail(w))
  <2> DEFINE j == IF job[w].op = "rebuild"
                  THEN [job[w] EXCEPT !.to = rec.node, !.new = rec.port]
                  ELSE job[w]
  <2>1. /\ body[n] = "none" /\ body' = [body EXCEPT ![n] = "Stopped"]
        /\ Goes(w, Tail(todo[w]), j) \/ Fail(w)
    BY <1>6 DEF CreateContainer, LxdCall
  <2>2. j \in Job /\ j.op = job[w].op
    BY <1>2 DEF Job
  <2>3. Tail(todo[w]) \in Follow(job[w].op, todo[w])
    BY DEF Follow
  <2> HIDE DEF j
  <2>4. Onward(w)
    BY <1>1, <2>1, <2>2, <2>3, GoesOnward, FailOnward DEF SurvivalInv, Types
  <2>5. HostTypes'
    BY <1>2, <1>3, <2>1 DEF HostTypes, SurvivalInv, Types
  <2>6. Bodies' = Bodies \cup {n} /\ n \notin Bodies
    BY <1>2, <2>1 DEF Bodies, HostTypes, SurvivalInv, Types
  <2>7. WorkerTypes' /\ scenario' = scenario
    BY <2>4, OnwardKeeps, OnwardScenario DEF SurvivalInv, Types
  <2>8. PortsLeft'
    BY <1>3, <2>4, PortsKept DEF SurvivalInv, Types
  <2>9. TakenAway'
    BY <1>1, <1>3, <2>4, OnwardKeeps DEF TakenAway, SurvivalInv, Types
  <2>10. OneMore'
    <3>0. Pending => Pending'
      BY <1>1, <2>4, OnwardKeeps DEF SurvivalInv, Types
    <3>1. SUFFICES ASSUME "rebuild" \notin scenario.ops, DestroyEnds, registered,
                          ~Pending'
                   PROVE  Counted'
      BY <1>3, <2>7 DEF OneMore, DestroyEnds
    <3>2. Counted
      BY <3>0, <3>1 DEF OneMore, SurvivalInv
    <3> USE DEF Counted
    <3>3. /\ IsFiniteSet(Bodies')
          /\ Cardinality(Bodies') = Cardinality(Bodies) + 1
          /\ Cardinality(Bodies) \in Nat
      BY <2>6, <3>2, FS_AddElement, FS_CardinalityType
    <3>4. Owers' \subseteq Owers \cup {w}
      BY <2>4, OnwardKeeps DEF SurvivalInv, Types
    <3>5. /\ IsFiniteSet(Owers \cup {w})
          /\ Cardinality(Owers \cup {w}) <= Cardinality(Owers) + 1
          /\ Cardinality(Owers) \in Nat
      <4>1. Cardinality(Owers) \in Nat
        BY <3>2, FS_CardinalityType
      <4>2. /\ IsFiniteSet(Owers \cup {w})
            /\ Cardinality(Owers \cup {w}) =
                 IF w \in Owers THEN Cardinality(Owers)
                 ELSE Cardinality(Owers) + 1
        BY <3>2, FS_AddElement
      <4>3. QED  BY <4>1, <4>2
    <3>6. /\ IsFiniteSet(Owers')
          /\ Cardinality(Owers') <= Cardinality(Owers \cup {w})
          /\ Cardinality(Owers') \in Nat
          /\ Cardinality(Owers \cup {w}) \in Nat
      BY <3>4, <3>5, FS_Subset, FS_CardinalityType
    <3>7. QED  BY <3>2, <3>3, <3>5, <3>6
  <2>11. QED  BY <1>4, <2>5, <2>7, <2>8, <2>9, <2>10 DEF SurvivalInv, Types
<1>7. QED  BY <1>5, <1>6

LEMMA DeleteKeeps ==
  ASSUME SurvivalInv, NEW w \in Workers, DeleteContainer(w)
  PROVE  SurvivalInv'
<1> DEFINE n == job[w].at
<1>1. /\ todo[w] # <<>> /\ At(w, "delete") /\ ~At(w, "unregister")
      /\ ~At(w, "create")
  BY OneCall DEF DeleteContainer, LxdCall, At
<1>2. job[w] \in Job /\ n \in Nodes
  BY DEF SurvivalInv, Types, WorkerTypes, Job
<1>3. UNCHANGED <<registered, rec, disk, lastPort, rule>>
  BY DEF DeleteContainer, LxdCall
<1>4. Goes(w, Tail(todo[w]), job[w]) \/ Fail(w)
  BY DEF DeleteContainer, LxdCall
<1>5. Onward(w)
  BY <1>1, <1>4, ContinueOnward, FailOnward DEF Continue, SurvivalInv, Types
<1>6. CASE body' = body
  <2>1. HostTypes' /\ Bodies' = Bodies
    BY <1>3, <1>6 DEF HostTypes, Bodies, SurvivalInv, Types
  <2>2. QED  BY <1>1, <1>3, <1>5, <2>1, QuietStepKeeps
<1>7. CASE body' # body
  <2>1. body[n] # "none" /\ body' = [body EXCEPT ![n] = "none"]
    BY <1>7 DEF DeleteContainer, LxdCall
  <2>2. HostTypes'
    BY <1>2, <1>3, <2>1 DEF HostTypes, SurvivalInv, Types
  <2>3. Bodies' = Bodies \ {n} /\ n \in Bodies
    BY <1>2, <2>1 DEF Bodies, HostTypes, SurvivalInv, Types
  <2>4. WorkerTypes' /\ scenario' = scenario
    BY <1>5, OnwardKeeps, OnwardScenario DEF SurvivalInv, Types
  <2>5. PortsLeft'
    BY <1>3, <1>5, PortsKept DEF SurvivalInv, Types
  <2>6. TakenAway'
    BY <1>1, <1>3, <1>5, OnwardKeeps DEF TakenAway, SurvivalInv, Types
  <2>7. RecordTypes'
    BY <1>3 DEF RecordTypes, SurvivalInv, Types
  <2>8. OneMore'
    <3>0. (Pending => Pending') /\ (job[w].op = "destroy" => Pending')
      BY <1>1, <1>5, OnwardKeeps DEF SurvivalInv, Types
    <3>1. SUFFICES ASSUME "rebuild" \notin scenario.ops, DestroyEnds, registered,
                          ~Pending'
                   PROVE  Counted'
      BY <1>3, <2>4 DEF OneMore, DestroyEnds
    <3>2. Counted
      BY <3>0, <3>1 DEF OneMore, SurvivalInv
    <3> USE DEF Counted
    <3>3. job[w].op = "migrate"
      <4>1. job[w].op \in {"migrate", "rebuild", "delete", "destroy"}
        BY <1>1, CallsOf DEF SurvivalInv, Types
      <4>2. job[w].op # "rebuild"
        BY <1>1, <3>1 DEF SurvivalInv, Types, WorkerTypes
      <4>3. job[w].op # "delete"
        BY <1>1, <3>1 DEF SurvivalInv, TakenAway, Taken, At
      <4>4. QED  BY <3>0, <3>1, <4>1, <4>2, <4>3
    <3>4. w \in Owers
      BY <1>1, <3>3 DEF Owers, Owing, At
    <3>5. Owers' \subseteq Owers \ {w}
      BY <1>1, <1>5, OnwardKeeps DEF SurvivalInv, Types
    <3>6. /\ IsFiniteSet(Owers \ {w})
          /\ Cardinality(Owers \ {w}) = Cardinality(Owers) - 1
          /\ Cardinality(Owers) \in Nat
      BY <3>2, <3>4, FS_RemoveElement, FS_CardinalityType
    <3>7. /\ IsFiniteSet(Owers')
          /\ Cardinality(Owers') <= Cardinality(Owers \ {w})
          /\ Cardinality(Owers') \in Nat
      BY <3>5, <3>6, FS_Subset, FS_CardinalityType
    <3>8. /\ IsFiniteSet(Bodies')
          /\ Cardinality(Bodies') = Cardinality(Bodies) - 1
          /\ Cardinality(Bodies) \in Nat
      BY <2>3, <3>2, FS_RemoveElement, FS_CardinalityType
    <3>9. QED  BY <3>2, <3>6, <3>7, <3>8
  <2>9. QED  BY <2>2, <2>4, <2>5, <2>6, <2>7, <2>8 DEF SurvivalInv, Types
<1>8. QED  BY <1>6, <1>7

LEMMA ClaimKeeps ==
  ASSUME SurvivalInv, NEW w \in Workers, Claim(w)
  PROVE  SurvivalInv'
<1> USE DEF SurvivalInv, Types
<1>1. todo[w] # <<>> /\ At(w, "claim")
  BY DEF Claim, At
<1>2. job[w].op = "migrate"
  BY <1>1, CallsOf
<1>3. w \in Claimers
  BY <1>1, <1>2 DEF Claimers, Claiming, At
<1>4. IsFiniteSet(Claimers)
  <2>1. IsFiniteSet(Migrations) /\ Claimers \subseteq Migrations
    BY DEF PortsLeft, Claimers, Claiming, Migrations
  <2>2. QED  BY <2>1, FS_Subset
<1>5. /\ Cardinality(Claimers \ {w}) = Cardinality(Claimers) - 1
      /\ IsFiniteSet(Claimers \ {w})
      /\ Cardinality(Claimers) \in Nat /\ Cardinality(Claimers \ {w}) \in Nat
  BY <1>3, <1>4, FS_RemoveElement, FS_CardinalityType
<1>6. lastPort + 1 \in 1 .. MaxPort
  BY <1>5, BoundAssumption DEF PortsLeft
<1> DEFINE j == [job[w] EXCEPT !.at = job[w].to, !.old = rec.port,
                               !.new = lastPort + 1]
<1>7. Goes(w, Tail(todo[w]), j)
  BY DEF Claim
<1>8. j \in Job /\ j.op = job[w].op
  <2>1. job[w] \in Job /\ rec.port \in 1 .. MaxPort
    BY DEF WorkerTypes, RecordTypes, Record
  <2>2. QED  BY <1>6, <2>1 DEF Job
<1>9. Tail(todo[w]) \in Follow(job[w].op, todo[w])
  BY DEF Follow
<1> HIDE DEF j
<1>10. Onward(w)
  BY <1>1, <1>7, <1>8, <1>9, GoesOnward
<1>11. WorkerTypes' /\ scenario' = scenario
  BY <1>10, OnwardKeeps, OnwardScenario
<1>12. RecordTypes'
  BY <1>6 DEF Claim, RecordTypes, Record
<1>13. HostTypes' /\ Bodies' = Bodies
  BY DEF Claim, HostTypes, Bodies
<1>14. PortsLeft'
  <2>1. Claimers' \subseteq Claimers \ {w} /\ Migrations' \subseteq Migrations
    BY <1>1, <1>10, OnwardKeeps
  <2>2. /\ Cardinality(Claimers') <= Cardinality(Claimers \ {w})
        /\ IsFiniteSet(Migrations') /\ Cardinality(Claimers') \in Nat
    BY <1>5, <2>1, FS_Subset, FS_CardinalityType DEF PortsLeft
  <2>3. lastPort' = lastPort + 1
    BY DEF Claim
  <2>4. QED  BY <1>5, <1>6, <2>2, <2>3, BoundAssumption DEF PortsLeft
<1>15. registered' = registered /\ ~At(w, "create") /\ ~At(w, "unregister")
  BY <1>1, OneCall DEF Claim
<1>16. TakenAway'
  BY <1>10, <1>15, OnwardKeeps DEF TakenAway
<1>17. OneMore'
  BY <1>10, <1>11, <1>13, <1>15, OnwardKeeps, OneMoreKept
<1>18. QED  BY <1>11, <1>12, <1>13, <1>14, <1>16, <1>17

LEMMA StepKeeps ==
  ASSUME SurvivalInv, NEW w \in Workers, Step(w)
  PROVE  SurvivalInv'
BY SetStateKeeps, ClaimKeeps, RestoreKeeps, CreatedKeeps, MovedKeeps,
   UnregisterKeeps, ClientKeeps, CreateKeeps, StatusKeeps, DeleteKeeps,
   LooksKeep, RulesKeep DEF Step

\* What a request adds: a worker with a script, and for a migration one that
\* will draw a port.
LEMMA BeginWorkers ==
  ASSUME SurvivalInv, NEW w \in Workers, NEW op \in scenario.ops,
         op \in Requests, NEW to \in Nodes, Begin(w, op, to)
  PROVE  /\ WorkerTypes' /\ RecordTypes' /\ HostTypes'
         /\ TakenAway' /\ OneMore'
         /\ Migrations' \subseteq Migrations \cup {w} /\ w \notin Migrations
         /\ Claimers' \subseteq Claimers \cup {w}
         /\ op # "migrate" => Migrations' = Migrations /\ Claimers' = Claimers
<1> USE DEF SurvivalInv, Types
<1> DEFINE j == [InitialJob EXCEPT !.op = op, !.to = to]
<1>1. Script(op) \in Places(op) /\ Script(op) # <<>> /\ Script(op) \in Seq(Steps)
  BY ScriptPlaces, PlaceIs
<1>2. j \in Job /\ j.op = op
  <2>1. InitialJob \in Job
    BY InitialJobIs
  <2>2. QED  BY <2>1 DEF Job
<1> HIDE DEF j
<1>3. /\ todo' = [todo EXCEPT ![w] = Script(op)] /\ job' = [job EXCEPT ![w] = j]
      /\ todo[w] = <<>> /\ registered
      /\ UNCHANGED <<scenario, registered, rec, disk, body, rule, lastPort>>
  BY DEF Begin, j
<1>4. WorkerTypes'
  <2>1. todo' \in [Workers -> Seq(Steps)] /\ job' \in [Workers -> Job]
    BY <1>1, <1>2, <1>3 DEF WorkerTypes
  <2>2. ASSUME NEW v \in Workers
        PROVE  IF todo'[v] = <<>> THEN job'[v] = InitialJob
               ELSE todo'[v] \in Places(job'[v].op) /\ job'[v].op \in scenario.ops
    BY <1>1, <1>2, <1>3 DEF WorkerTypes
  <2>3. QED  BY <1>3, <2>1, <2>2 DEF WorkerTypes, InitialJob, FirstNode
<1>5. RecordTypes' /\ HostTypes'
  BY <1>3 DEF RecordTypes, HostTypes
<1>6. /\ \A v \in Workers \ {w} : todo'[v] = todo[v] /\ job'[v] = job[v]
      /\ todo'[w] = Script(op) /\ job'[w].op = op
  BY <1>2, <1>3 DEF WorkerTypes
<1>7. ~Taken(op, Script(op)) /\ ~Owing(op, Script(op))
  <2>1. CASE op = "migrate"
    BY <2>1, MigrateChain DEF Script, Is, Taken, Owing
  <2>2. CASE op = "delete"
    BY <2>2, DeleteChain DEF Script, Is, Taken, Owing
  <2>3. CASE op \notin {"migrate", "delete"}
    BY <2>3 DEF Taken, Owing
  <2>4. QED  BY <2>1, <2>2, <2>3
<1>8. TakenAway'
  BY <1>3, <1>6, <1>7 DEF TakenAway
<1>9. Owers' \subseteq Owers
  BY <1>6, <1>7 DEF Owers
<1>10. OneMore'
  <2>1. Bodies' = Bodies
    BY <1>3 DEF Bodies
  <2>2. Pending => Pending'
    <3> SUFFICES ASSUME NEW v \in Workers, Wiping(job[v].op, todo[v])
                 PROVE  Pending'
      BY DEF Pending
    <3>1. todo[w] = <<>> /\ todo[v] = <<"unregister">>
      BY <1>3 DEF Wiping
    <3>2. todo[v] # <<>>
      <4>1. Len(<<"unregister">>) = 1 /\ Len(<<>>) = 0
        OBVIOUS
      <4>2. QED  BY <3>1, <4>1
    <3>3. v # w
      BY <3>1, <3>2
    <3>4. QED  BY <1>6, <3>3 DEF Pending, Wiping
  <2>3. QED  BY <1>3, <1>9, <2>1, <2>2, OneMoreKept
<1>11. Migrations' \subseteq Migrations \cup {w} /\ w \notin Migrations
  BY <1>3, <1>6 DEF Migrations
<1>12. Claimers' \subseteq Claimers \cup {w}
  BY <1>6 DEF Claimers
<1>13. op # "migrate" => Migrations' = Migrations /\ Claimers' = Claimers
  BY <1>3, <1>6 DEF Migrations, Claimers, Claiming
<1>14. QED  BY <1>4, <1>5, <1>8, <1>10, <1>11, <1>12, <1>13

LEMMA MigrateKeeps ==
  ASSUME SurvivalInv, NEW w \in Workers, NEW to \in Nodes, Migrate(w, to)
  PROVE  SurvivalInv'
<1> USE DEF SurvivalInv, Types
<1>1. /\ "migrate" \in scenario.ops /\ "migrate" \in Requests
      /\ Begin(w, "migrate", to)
      /\ lastPort + Cardinality(Migrations) < MaxPort
  BY DEF Migrate, Requests
<1>2. /\ WorkerTypes' /\ RecordTypes' /\ HostTypes' /\ TakenAway' /\ OneMore'
      /\ Migrations' \subseteq Migrations \cup {w} /\ w \notin Migrations
      /\ Claimers' \subseteq Claimers \cup {w}
  BY <1>1, BeginWorkers
<1>3. IsFiniteSet(Migrations) /\ lastPort \in 1 .. MaxPort
  BY DEF PortsLeft
<1>4. /\ IsFiniteSet(Migrations \cup {w})
      /\ Cardinality(Migrations \cup {w}) = Cardinality(Migrations) + 1
      /\ Cardinality(Migrations) \in Nat
  BY <1>2, <1>3, FS_AddElement, FS_CardinalityType
<1>5. Claimers' \subseteq Migrations \cup {w}
  BY <1>2 DEF Claimers, Claiming, Migrations
<1>6. /\ IsFiniteSet(Migrations') /\ IsFiniteSet(Claimers')
      /\ Cardinality(Claimers') <= Cardinality(Migrations \cup {w})
      /\ Cardinality(Claimers') \in Nat
  BY <1>2, <1>4, <1>5, FS_Subset, FS_CardinalityType
<1>7. lastPort' = lastPort
  BY <1>1 DEF Begin
<1>8. PortsLeft'
  BY <1>1, <1>3, <1>4, <1>6, <1>7, BoundAssumption DEF PortsLeft
<1>9. QED  BY <1>2, <1>8

LEMMA RequestKeeps ==
  ASSUME SurvivalInv, NEW w \in Workers, NEW op \in Requests,
         Request(w, op) \/ Check(w)
  PROVE  SurvivalInv'
<1> USE DEF SurvivalInv, Types
<1>1. PICK o \in Requests :
        o \in scenario.ops /\ o # "migrate" /\ Begin(w, o, InitialJob.to)
  BY DEF Request, Check, Requests
<1>2. InitialJob.to \in Nodes
  BY FirstNodeIs DEF InitialJob
<1>3. /\ WorkerTypes' /\ RecordTypes' /\ HostTypes' /\ TakenAway' /\ OneMore'
      /\ Migrations' = Migrations /\ Claimers' = Claimers
  BY <1>1, <1>2, BeginWorkers
<1>4. lastPort' = lastPort
  BY <1>1 DEF Begin
<1>5. PortsLeft'
  BY <1>3, <1>4 DEF PortsLeft
<1>6. QED  BY <1>3, <1>5

\* The process forgets its requests, and keeps the record that is in the file.
LEMMA CrashKeeps ==
  ASSUME SurvivalInv, Crash
  PROVE  SurvivalInv'
<1> USE DEF SurvivalInv, Types
<1>1. /\ todo' = [w \in Workers |-> <<>>] /\ job' = [w \in Workers |-> InitialJob]
      /\ registered' = disk.registered /\ rec' = disk.rec
      /\ UNCHANGED <<scenario, disk, body, rule, lastPort>>
  BY DEF Crash
<1>2. RecordTypes' /\ registered' = registered
  BY <1>1 DEF RecordTypes
<1>3. HostTypes' /\ Bodies' = Bodies
  BY <1>1 DEF HostTypes, Bodies
<1>4. WorkerTypes'
  <2>1. todo' \in [Workers -> Seq(Steps)] /\ job' \in [Workers -> Job]
    BY <1>1, InitialJobIs
  <2>2. \A w \in Workers : todo'[w] = <<>> /\ job'[w] = InitialJob
    BY <1>1
  <2>3. QED  BY <1>1, <2>1, <2>2 DEF WorkerTypes, InitialJob, FirstNode
<1>5. Migrations' = {} /\ Claimers' = {} /\ Owers' = {}
  BY <1>1 DEF Migrations, Claimers, Claiming, Owers, Owing
<1>6. PortsLeft'
  <2>1. lastPort' + 0 <= MaxPort
    BY <1>1, BoundAssumption DEF PortsLeft
  <2>2. QED  BY <1>1, <1>5, <2>1, FS_EmptySet DEF PortsLeft
<1>7. TakenAway'
  BY <1>1 DEF TakenAway, Taken
<1>8. OneMore'
  <2>1. DestroyEnds => ~Pending
    <3> SUFFICES ASSUME DestroyEnds, NEW w \in Workers,
                        Wiping(job[w].op, todo[w])
                 PROVE  FALSE
      BY DEF Pending
    <3>1. todo[w] # <<>> /\ job[w].op = "destroy"
      BY DEF Wiping
    <3>2. "destroy" \in scenario.ops
      BY <3>1 DEF WorkerTypes
    <3>3. QED  BY <3>2 DEF DestroyEnds, Crash
  <2>2. QED  BY <1>1, <1>2, <1>3, <1>5, <2>1, OneMoreKept
<1>9. QED  BY <1>2, <1>3, <1>4, <1>6, <1>7, <1>8

LEMMA NextKeeps == SurvivalInv /\ [Next]_vars => SurvivalInv'
<1> SUFFICES ASSUME SurvivalInv, [Next]_vars PROVE SurvivalInv'
  OBVIOUS
<1>1. ASSUME NEW w \in Workers, Step(w) \/ Check(w) PROVE SurvivalInv'
  <2>1. "check" \in Requests
    BY DEF Requests
  <2>2. QED  BY <1>1, <2>1, StepKeeps, RequestKeeps
<1>2. ASSUME NEW w \in Workers, NEW n \in Nodes, Migrate(w, n) PROVE SurvivalInv'
  BY <1>2, MigrateKeeps
<1>3. ASSUME NEW w \in Workers, NEW op \in Requests, Request(w, op)
      PROVE  SurvivalInv'
  BY <1>3, RequestKeeps
<1>4. ASSUME Crash PROVE SurvivalInv'
  BY <1>4, CrashKeeps
<1>5. ASSUME UNCHANGED vars PROVE SurvivalInv'
  <2>1. Types'
    BY <1>5 DEF vars, SurvivalInv, Types, RecordTypes, HostTypes, WorkerTypes,
       PortsLeft, Migrations, Claimers, InitialJob, FirstNode
  <2>2. TakenAway' /\ OneMore'
    BY <1>5 DEF vars, SurvivalInv, TakenAway, OneMore, DestroyEnds, Pending,
       Counted, Bodies, Owers
  <2>3. QED  BY <2>1, <2>2 DEF SurvivalInv
<1>6. QED  BY <1>1, <1>2, <1>3, <1>4, <1>5 DEF Next

LEMMA InitKeeps == Init => SurvivalInv
<1> SUFFICES ASSUME Init PROVE SurvivalInv
  OBVIOUS
<1>1. InitialJob \in Job /\ InitialJob.to \in Nodes
  BY InitialJobIs, FirstNodeIs DEF InitialJob
<1>2. RecordTypes
  BY <1>1, BoundAssumption DEF Init, RecordTypes, Record, States
<1>3. HostTypes
  BY <1>1, BoundAssumption DEF Init, HostTypes
<1>4. WorkerTypes
  BY <1>1 DEF Init, WorkerTypes
<1>5. Migrations = {} /\ Claimers = {} /\ Owers = {}
  BY DEF Init, Migrations, Claimers, Claiming, Owers, Owing
<1>6. PortsLeft
  BY <1>5, FS_EmptySet, BoundAssumption DEF Init, PortsLeft
<1>7. TakenAway
  BY DEF Init, TakenAway, Taken
<1>8. OneMore
  <2>1. Bodies = {rec.node}
    BY <1>1 DEF Init, Bodies
  <2>2. IsFiniteSet(Bodies) /\ Cardinality(Bodies) = 1
    BY <2>1, FS_Singleton
  <2>3. QED  BY <1>5, <2>2, FS_EmptySet DEF OneMore, Counted
<1>9. QED  BY <1>2, <1>3, <1>4, <1>6, <1>7, <1>8 DEF SurvivalInv, Types

\* One more than those that are owed is at least one.
LEMMA SurvivalImplies == SurvivalInv => MigrationInv
<1> SUFFICES ASSUME SurvivalInv PROVE MigrationInv
  OBVIOUS
<1>1. TypeOK
  BY TypesImply DEF SurvivalInv
<1>2. ASSUME "rebuild" \notin scenario.ops, DestroyEnds, registered, ~Pending
      PROVE  \E n \in Nodes : body[n] # "none"
  <2>1. Counted
    BY <1>2 DEF SurvivalInv, OneMore
  <2>2. Bodies # {}
    BY <2>1, FS_EmptySet, FS_CardinalityType DEF Counted
  <2>3. QED  BY <2>2 DEF Bodies
<1>3. QED  BY <1>1, <1>2 DEF MigrationInv, Survives, Pending, Wiping

\* A container that is not rebuilt exists on some node as long as it has a
\* record, until destroyContainer is about to drop the record: for any number of
\* migrations, deletions of both kinds, starts, stops and checks at once,
\* whatever calls fail, before or after they took effect, and whenever the
\* process crashes, unless it may crash with a destroyContainer under way
\* (migrateContainer, handleDelete, destroyContainer).
THEOREM ContainerSurvives == Spec => []MigrationInv
<1>1. Init => SurvivalInv
  BY InitKeeps
<1>2. SurvivalInv /\ [Next]_vars => SurvivalInv'
  BY NextKeeps
<1>3. SurvivalInv => MigrationInv
  BY SurvivalImplies
<1>4. QED  BY <1>1, <1>2, <1>3, PTL DEF Spec

(***************************************************************************)
(* One request at a time, and no call fails                                *)
(***************************************************************************)
\* The containers there are and the rules that lead to them.
Holds(B, R) ==
  /\ \A n \in Nodes : body[n] # "none" <=> n \in B
  /\ rule = R
Tidy ==
  /\ registered
  /\ Holds({rec.node}, {<<rec.node, rec.port>>})
  /\ rec.state = "running" => body[rec.node] = "Running"
Gone == ~registered /\ Holds({}, {})

Doing(w, op, q) == job[w].op = op /\ todo[w] = q

\* A migration: the container is where the record says, then on both nodes,
\* then on the new one.
Moving(w) == registered /\ job[w].to \in Nodes \ {rec.node}
OldRule(w) == <<rec.node, job[w].old>>
NewRule(w) == <<job[w].to, job[w].new>>
On2(w, R) ==
  /\ Moving(w) /\ Holds({rec.node, job[w].to}, R)
M_mark(w) == Doing(w, "migrate", migrateContainer) /\ Moving(w) /\ Tidy
M_claim(w) == Doing(w, "migrate", m_claim) /\ Moving(w) /\ Tidy
M_create(w) ==
  /\ Doing(w, "migrate", m_create) /\ Moving(w) /\ job[w].at = job[w].to
  /\ Holds({rec.node}, {OldRule(w)})
M_start(w) ==
  /\ Doing(w, "migrate", m_start) /\ job[w].at = job[w].to
  /\ On2(w, {OldRule(w)}) /\ body[job[w].to] = "Stopped"
M_forward(w) ==
  /\ Doing(w, "migrate", m_forward)
  /\ On2(w, {OldRule(w)}) /\ body[job[w].to] = "Running"
M_created(w) ==
  /\ Doing(w, "migrate", m_created)
  /\ On2(w, {OldRule(w), NewRule(w)}) /\ body[job[w].to] = "Running"
M_client(w) ==
  /\ Doing(w, "migrate", m_client)
  /\ On2(w, {OldRule(w), NewRule(w)}) /\ body[job[w].to] = "Running"
M_unforward(w) ==
  /\ Doing(w, "migrate", m_unforward) /\ job[w].at = rec.node
  /\ On2(w, {OldRule(w), NewRule(w)}) /\ body[job[w].to] = "Running"
M_findOld(w) ==
  /\ Doing(w, "migrate", m_findOld) /\ job[w].at = rec.node
  /\ On2(w, {NewRule(w)}) /\ body[job[w].to] = "Running"
M_stop(w) ==
  /\ Doing(w, "migrate", m_stop) /\ job[w].at = rec.node
  /\ On2(w, {NewRule(w)}) /\ body[job[w].to] = "Running"
  /\ body[rec.node] = "Running"
M_delete(w) ==
  /\ Doing(w, "migrate", m_delete) /\ job[w].at = rec.node
  /\ On2(w, {NewRule(w)}) /\ body[job[w].to] = "Running"
M_moved(w) ==
  /\ Doing(w, "migrate", One("moved")) /\ Moving(w)
  /\ Holds({job[w].to}, {NewRule(w)}) /\ body[job[w].to] = "Running"
MigratePhase(w) ==
  \/ M_mark(w) \/ M_claim(w) \/ M_create(w) \/ M_start(w) \/ M_forward(w)
  \/ M_created(w) \/ M_client(w) \/ M_unforward(w) \/ M_findOld(w)
  \/ M_stop(w) \/ M_delete(w) \/ M_moved(w)

\* A rebuild: the container and its rules go, and come again.
Here1(w, R) ==
  registered /\ job[w].at = rec.node /\ Holds({rec.node}, R)
Port == <<rec.node, rec.port>>
SamePort(w) == job[w].to = rec.node /\ job[w].new = rec.port
R_mark(w) == Doing(w, "rebuild", handleRebuild) /\ Tidy
R_client(w) == Doing(w, "rebuild", r_client) /\ Tidy
R_unforward(w) ==
  /\ Doing(w, "rebuild", r_unforward)
  /\ Here1(w, {Port}) /\ job[w].old = rec.port
R_findOld(w) == Doing(w, "rebuild", r_findOld) /\ Here1(w, {})
R_stop(w) ==
  /\ Doing(w, "rebuild", r_stop)
  /\ Here1(w, {}) /\ body[rec.node] = "Running"
R_delete(w) == Doing(w, "rebuild", r_delete) /\ Here1(w, {})
R_create(w) ==
  /\ Doing(w, "rebuild", createContainerOnNode)
  /\ registered /\ job[w].at = rec.node /\ Holds({}, {})
R_start(w) ==
  /\ Doing(w, "rebuild", r_start) /\ SamePort(w)
  /\ Here1(w, {}) /\ body[rec.node] = "Stopped"
R_forward(w) ==
  /\ Doing(w, "rebuild", r_forward) /\ SamePort(w)
  /\ Here1(w, {}) /\ body[rec.node] = "Running"
R_created(w) ==
  /\ Doing(w, "rebuild", One("created"))
  /\ Here1(w, {Port}) /\ body[rec.node] = "Running"
RebuildPhase(w) ==
  \/ R_mark(w) \/ R_client(w) \/ R_unforward(w) \/ R_findOld(w) \/ R_stop(w)
  \/ R_delete(w) \/ R_create(w) \/ R_start(w) \/ R_forward(w) \/ R_created(w)

\* A deletion: the rules go, then the record, then the container.
D_client(w) == Doing(w, "delete", handleDelete) /\ Tidy
D_findOld(w) == Doing(w, "delete", d_findOld) /\ Tidy /\ job[w].at = rec.node
D_unforward(w) ==
  /\ Doing(w, "delete", d_unforward)
  /\ Here1(w, {Port}) /\ body[rec.node] = "Running"
D_unregister(w) ==
  /\ Doing(w, "delete", d_unregister)
  /\ Here1(w, {}) /\ body[rec.node] = "Running"
D_stoppedUnforward(w) ==
  Doing(w, "delete", d_stoppedUnforward) /\ Here1(w, {Port})
D_stoppedUnregister(w) ==
  Doing(w, "delete", d_stoppedUnregister) /\ Here1(w, {})
D_stop(w) ==
  /\ Doing(w, "delete", d_stop) /\ ~registered /\ job[w].at = rec.node
  /\ Holds({rec.node}, {}) /\ body[rec.node] = "Running"
D_delete(w) ==
  /\ Doing(w, "delete", One("delete")) /\ ~registered /\ job[w].at = rec.node
  /\ Holds({rec.node}, {})
DeletePhase(w) ==
  \/ D_client(w) \/ D_findOld(w) \/ D_unforward(w) \/ D_unregister(w)
  \/ D_stoppedUnforward(w) \/ D_stoppedUnregister(w) \/ D_stop(w) \/ D_delete(w)

\* A deletion by destroyContainer: the record goes last.
X_client(w) == Doing(w, "destroy", destroyContainer) /\ Tidy
X_findOld(w) == Doing(w, "destroy", x_findOld) /\ Tidy /\ job[w].at = rec.node
X_unforward(w) ==
  /\ Doing(w, "destroy", x_unforward)
  /\ Here1(w, {Port}) /\ body[rec.node] = "Running"
X_stoppedUnforward(w) ==
  Doing(w, "destroy", x_stoppedUnforward) /\ Here1(w, {Port})
X_stop(w) ==
  /\ Doing(w, "destroy", x_stop)
  /\ Here1(w, {}) /\ body[rec.node] = "Running"
X_delete(w) == Doing(w, "destroy", x_delete) /\ Here1(w, {})
X_unregister(w) ==
  /\ Doing(w, "destroy", One("unregister"))
  /\ registered /\ Holds({}, {})
DestroyPhase(w) ==
  \/ X_client(w) \/ X_findOld(w) \/ X_unforward(w) \/ X_stoppedUnforward(w)
  \/ X_stop(w) \/ X_delete(w) \/ X_unregister(w)

\* A start and a stop.
S_client(w) ==
  /\ \/ Doing(w, "start", Script("start")) \/ Doing(w, "stop", Script("stop"))
  /\ Tidy
S_start(w) ==
  Doing(w, "start", start_setRunning) /\ Tidy /\ job[w].at = rec.node
S_setRunning(w) ==
  Doing(w, "start", One("setRunning")) /\ Tidy /\ body[rec.node] = "Running"
S_stop(w) ==
  Doing(w, "stop", stop_setStopped) /\ Tidy /\ job[w].at = rec.node
S_setStopped(w) ==
  /\ Doing(w, "stop", One("setStopped")) /\ registered
  /\ Holds({rec.node}, {Port})
StatusPhase(w) ==
  S_client(w) \/ S_start(w) \/ S_setRunning(w) \/ S_stop(w) \/ S_setStopped(w)

Phase(w) ==
  \/ MigratePhase(w) \/ RebuildPhase(w) \/ DeletePhase(w) \/ DestroyPhase(w)
  \/ StatusPhase(w)

NoFaults == scenario.serial /\ scenario.faults = {}
WholeInv ==
  NoFaults =>
    /\ \A v, w \in Workers : Busy(v) /\ Busy(w) => v = w
    /\ \A w \in Workers : Busy(w) => Phase(w)
    /\ Settled => Tidy \/ Gone

LEMMA WholeImplies == Types /\ WholeInv => MovedWhole
<1> SUFFICES ASSUME Types, WholeInv, NoFaults, Settled
             PROVE  /\ {n \in Nodes : body[n] # "none"}
                         = IF registered THEN {rec.node} ELSE {}
                    /\ rule = IF registered THEN {<<rec.node, rec.port>>} ELSE {}
                    /\ registered /\ rec.state = "running"
                         => body[rec.node] = "Running"
  BY DEF MovedWhole, NoFaults
<1>1. Tidy \/ Gone
  BY DEF WholeInv
<1>2. rec.node \in Nodes
  BY DEF Types, RecordTypes, Record
<1>3. CASE Tidy
  <2>1. {n \in Nodes : body[n] # "none"} = {rec.node}
    BY <1>2, <1>3 DEF Tidy, Holds
  <2>2. QED  BY <1>3, <2>1 DEF Tidy, Holds
<1>4. CASE Gone
  BY <1>4 DEF Gone, Holds
<1>5. QED  BY <1>1, <1>3, <1>4

\* Which call a step makes.
LEMMA StepIs ==
  ASSUME NEW w \in Workers, Step(w)
  PROVE  /\ At(w, "setRunning") => setState(w, "setRunning", "running")
         /\ At(w, "setStopped") => setState(w, "setStopped", "stopped")
         /\ At(w, "setCreating") => setState(w, "setCreating", "creating")
         /\ At(w, "setMigrating") => setState(w, "setMigrating", "migrating")
         /\ At(w, "claim") => Claim(w)
         /\ At(w, "created") => Created(w)
         /\ At(w, "moved") => Moved(w)
         /\ At(w, "unregister") => Unregister(w)
         /\ At(w, "client") => Client(w)
         /\ At(w, "create") => CreateContainer(w)
         /\ At(w, "start") => StartContainer(w)
         /\ At(w, "stop") => StopContainer(w)
         /\ At(w, "delete") => DeleteContainer(w)
         /\ At(w, "findOld") => FindOld(w)
         /\ At(w, "inspect") => Inspect(w)
         /\ At(w, "forward") => Forward(w)
         /\ At(w, "unforward") => Unforward(w)
<1> DEFINE h == Head(todo[w])
<1>1. /\ SetState(w) => \/ setState(w, "setRunning", "running")
                        \/ setState(w, "setStopped", "stopped")
                        \/ setState(w, "setCreating", "creating")
                        \/ setState(w, "setMigrating", "migrating")
      /\ \A s, new : setState(w, s, new) => h = s
  BY DEF SetState, setState, At
<1>2. /\ (Claim(w) => h = "claim") /\ (Restore(w) => h = "restore")
      /\ (Created(w) => h = "created") /\ (Moved(w) => h = "moved")
      /\ (Unregister(w) => h = "unregister") /\ (Client(w) => h = "client")
      /\ (CreateContainer(w) => h = "create")
      /\ (StartContainer(w) => h = "start")
      /\ (StopContainer(w) => h = "stop")
      /\ (DeleteContainer(w) => h = "delete")
      /\ (FindOld(w) => h = "findOld") /\ (Inspect(w) => h = "inspect")
      /\ (Forward(w) => h = "forward") /\ (Unforward(w) => h = "unforward")
  BY DEF Claim, Restore, Created, Moved, Unregister, Client, CreateContainer,
     StartContainer, StopContainer, DeleteContainer, LxdCall, FindOld, Inspect,
     Forward, Unforward, At
<1>3. \A s : At(w, s) => h = s
  BY DEF At
<1> HIDE DEF h
<1>4. QED  BY <1>1, <1>2, <1>3 DEF Step

(***************************************************************************)
(* What the calls do when none fails                                       *)
(***************************************************************************)
LEMMA GoesTo ==
  ASSUME WorkerTypes, NEW w \in Workers, NEW rest, NEW j, Goes(w, rest, j)
  PROVE  todo'[w] = rest /\ (rest # <<>> => job'[w] = j)
BY DEF Goes, WorkerTypes

LEMMA SetEffect ==
  ASSUME registered, NEW w, NEW s, NEW new, setState(w, s, new)
  PROVE  /\ Goes(w, Tail(todo[w]), job[w])
         /\ registered' /\ rec' = [rec EXCEPT !.state = new]
         /\ UNCHANGED <<body, rule>>
BY DEF setState, IfRegistered, Save, Continue

LEMMA LxdEffect ==
  ASSUME ~MayFail, NEW w, NEW s, NEW n, NEW from, NEW to, NEW j,
         LxdCall(w, s, n, from, to, j), body[n] \in from
  PROVE  /\ Goes(w, Tail(todo[w]), j)
         /\ body' = [body EXCEPT ![n] = to]
         /\ UNCHANGED <<registered, rec, rule>>
BY DEF LxdCall

LEMMA ForwardEffect ==
  ASSUME ~MayFail, NEW w, Forward(w)
  PROVE  /\ Goes(w, Tail(todo[w]), job[w])
         /\ rule' = rule \cup {NewRule(w)}
         /\ UNCHANGED <<registered, rec, body>>
BY DEF Forward, Continue, NewRule

LEMMA UnforwardEffect ==
  ASSUME ~MayFail, registered, NEW w, Unforward(w)
  PROVE  /\ Goes(w, Tail(todo[w]), job[w])
         /\ rule' = rule \ {IF job[w].op \in {"delete", "destroy"} THEN Port
                            ELSE <<job[w].at, job[w].old>>}
         /\ UNCHANGED <<registered, rec, body>>
BY DEF Unforward, Continue, Port

LEMMA FindEffect ==
  ASSUME ~MayFail, NEW w, FindOld(w), body[job[w].at] # "none"
  PROVE  /\ Goes(w, IF body[job[w].at] = "Stopped"
                    THEN FoundStopped(job[w].op, Tail(todo[w]))
                    ELSE Tail(todo[w]), job[w])
         /\ UNCHANGED <<registered, rec, body, rule>>
BY DEF FindOld

LEMMA ClientEffect ==
  ASSUME ~MayFail, registered, NEW w, Client(w)
  PROVE  /\ Goes(w, Tail(todo[w]),
                 [job[w] EXCEPT !.at = rec.node,
                    !.old = IF job[w].op = "rebuild" THEN rec.port ELSE @])
         /\ UNCHANGED <<registered, rec, body, rule>>
BY DEF Client

LEMMA MigrateMoves ==
  ASSUME Types, NoFaults, NEW w \in Workers, Step(w), MigratePhase(w)
  PROVE  MigratePhase(w)' \/ (todo'[w] = <<>> /\ (Tidy \/ Gone)')
<1>1. /\ rec \in Record /\ rec.node \in Nodes
      /\ body \in [Nodes -> {"none", "Stopped", "Running"}]
      /\ job[w] \in Job /\ job[w].at \in Nodes /\ job[w].to \in Nodes
      /\ WorkerTypes
  BY DEF Types, RecordTypes, Record, HostTypes, WorkerTypes, Job
<1>2. ~MayFail
  BY DEF MayFail, NoFaults
<1>3. CASE M_mark(w)
  <2>1. At(w, "setMigrating") /\ Tail(todo[w]) = m_claim /\ m_claim # <<>>
    BY <1>3, MigrateChain DEF M_mark, Doing, At, Is
  <2>2. setState(w, "setMigrating", "migrating")
    BY <2>1, StepIs
  <2>3. /\ Goes(w, Tail(todo[w]), job[w])
        /\ registered' /\ rec' = [rec EXCEPT !.state = "migrating"]
        /\ UNCHANGED <<body, rule>>
    BY <1>3, <2>2, SetEffect DEF M_mark, Moving, Tidy
  <2>4. todo'[w] = m_claim
    BY <1>1, <2>1, <2>2, <2>3, GoesTo
  <2>5. M_claim(w)'
    BY <1>1, <1>3, <2>1, <2>2, <2>3, <2>4, GoesTo DEF M_mark, M_claim, Doing,
       Moving, Holds, On2, OldRule, NewRule, Tidy, Gone, Here1, Port, SamePort
  <2>6. QED  BY <2>5 DEF MigratePhase
<1>4. CASE M_claim(w)
  <2>1. At(w, "claim") /\ Tail(todo[w]) = m_create /\ m_create # <<>>
    BY <1>4, MigrateChain DEF M_claim, Doing, At, Is
  <2>2. Claim(w)
    BY <2>1, StepIs
  <2>3. /\ Goes(w, Tail(todo[w]), [job[w] EXCEPT !.at = job[w].to, !.old = rec.port,
                                         !.new = lastPort + 1])
        /\ rec' = [rec EXCEPT !.port = lastPort + 1]
        /\ UNCHANGED <<registered, body, rule>>
    BY <2>2 DEF Claim
  <2>4. todo'[w] = m_create
    BY <1>1, <2>1, <2>2, <2>3, GoesTo
  <2>5. job'[w] = [job[w] EXCEPT !.at = job[w].to, !.old = rec.port,
                                         !.new = lastPort + 1]
    BY <1>1, <2>1, <2>3 DEF Goes, WorkerTypes
  <2>6. /\ job'[w].op = job[w].op /\ job'[w].to = job[w].to /\ job'[w].at = job[w].to
        /\ job'[w].old = rec.port /\ job'[w].new = lastPort + 1
    BY <1>1, <2>5 DEF Job
  <2>7. rec'.node = rec.node
    BY <1>1, <2>3 DEF Record
  <2>8. M_create(w)'
    BY <1>1, <1>4, <2>3, <2>4, <2>6, <2>7 DEF M_claim, M_create, Doing, Moving,
       Holds, On2, OldRule, NewRule, Tidy, Gone, Here1, Port, SamePort
  <2>9. QED  BY <2>8 DEF MigratePhase
<1>5. CASE M_create(w)
  <2>1. At(w, "create") /\ Tail(todo[w]) = m_start /\ m_start # <<>>
    BY <1>5, MigrateChain DEF M_create, Doing, At, Is
  <2>2. CreateContainer(w)
    BY <2>1, StepIs
  <2>3. body[job[w].at] \in {"none"} /\ job[w].op = "migrate"
    BY <1>1, <1>5 DEF M_create, Doing, Moving, Holds, On2, OldRule, NewRule,
       Tidy, Gone, Here1, Port, SamePort
  <2>4. /\ Goes(w, Tail(todo[w]), job[w])
        /\ body' = [body EXCEPT ![job[w].at] = "Stopped"]
        /\ UNCHANGED <<registered, rec, rule>>
    BY <1>2, <2>2, <2>3, LxdEffect DEF CreateContainer
  <2>5. todo'[w] = m_start
    BY <1>1, <2>1, <2>2, <2>3, <2>4, GoesTo
  <2>6. M_start(w)'
    BY <1>1, <1>5, <2>1, <2>2, <2>3, <2>4, <2>5, GoesTo DEF M_create, M_start,
       Doing, Moving, Holds, On2, OldRule, NewRule, Tidy, Gone, Here1, Port,
       SamePort
  <2>7. QED  BY <2>6 DEF MigratePhase
<1>6. CASE M_start(w)
  <2>1. At(w, "start") /\ Tail(todo[w]) = m_forward /\ m_forward # <<>>
    BY <1>6, MigrateChain DEF M_start, Doing, At, Is
  <2>2. StartContainer(w)
    BY <2>1, StepIs
  <2>3. body[job[w].at] \in {"Stopped"}
    BY <1>1, <1>6 DEF M_start, Doing, Moving, Holds, On2, OldRule, NewRule,
       Tidy, Gone, Here1, Port, SamePort
  <2>4. /\ Goes(w, Tail(todo[w]), job[w])
        /\ body' = [body EXCEPT ![job[w].at] = "Running"]
        /\ UNCHANGED <<registered, rec, rule>>
    BY <1>2, <2>2, <2>3, LxdEffect DEF StartContainer
  <2>5. todo'[w] = m_forward
    BY <1>1, <2>1, <2>2, <2>3, <2>4, GoesTo
  <2>6. M_forward(w)'
    BY <1>1, <1>6, <2>1, <2>2, <2>3, <2>4, <2>5, GoesTo DEF M_start, M_forward,
       Doing, Moving, Holds, On2, OldRule, NewRule, Tidy, Gone, Here1, Port,
       SamePort
  <2>7. QED  BY <2>6 DEF MigratePhase
<1>7. CASE M_forward(w)
  <2>1. At(w, "forward") /\ Tail(todo[w]) = m_created /\ m_created # <<>>
    BY <1>7, MigrateChain DEF M_forward, Doing, At, Is
  <2>2. Forward(w)
    BY <2>1, StepIs
  <2>3. /\ Goes(w, Tail(todo[w]), job[w])
        /\ rule' = rule \cup {NewRule(w)}
        /\ UNCHANGED <<registered, rec, body>>
    BY <1>2, <2>2, ForwardEffect
  <2>4. todo'[w] = m_created
    BY <1>1, <2>1, <2>2, <2>3, GoesTo
  <2>5. M_created(w)'
    BY <1>1, <1>7, <2>1, <2>2, <2>3, <2>4, GoesTo DEF M_forward, M_created,
       Doing, Moving, Holds, On2, OldRule, NewRule, Tidy, Gone, Here1, Port,
       SamePort
  <2>6. QED  BY <2>5 DEF MigratePhase
<1>8. CASE M_created(w)
  <2>1. At(w, "created") /\ Tail(todo[w]) = m_client /\ m_client # <<>>
    BY <1>8, MigrateChain DEF M_created, Doing, At, Is
  <2>2. Created(w)
    BY <2>1, StepIs
  <2>3. /\ Goes(w, Tail(todo[w]), job[w])
        /\ rec' = [rec EXCEPT !.state = "running"]
        /\ UNCHANGED <<registered, body, rule>>
    BY <2>2 DEF Created, Save, Continue
  <2>4. todo'[w] = m_client
    BY <1>1, <2>1, <2>2, <2>3, GoesTo
  <2>5. M_client(w)'
    BY <1>1, <1>8, <2>1, <2>2, <2>3, <2>4, GoesTo DEF M_created, M_client,
       Doing, Moving, Holds, On2, OldRule, NewRule, Tidy, Gone, Here1, Port,
       SamePort
  <2>6. QED  BY <2>5 DEF MigratePhase
<1>9. CASE M_client(w)
  <2>1. At(w, "client") /\ Tail(todo[w]) = m_unforward /\ m_unforward # <<>>
    BY <1>9, MigrateChain DEF M_client, Doing, At, Is
  <2>2. Client(w)
    BY <2>1, StepIs
  <2>3. /\ Goes(w, Tail(todo[w]),
                [job[w] EXCEPT !.at = rec.node, !.old = job[w].old])
        /\ UNCHANGED <<registered, rec, body, rule>>
    BY <1>2, <1>9, <2>2, ClientEffect DEF M_client, Doing, Moving, Holds, On2,
       OldRule, NewRule, Tidy, Gone, Here1, Port, SamePort
  <2>4. todo'[w] = m_unforward
    BY <1>1, <2>1, <2>2, <2>3, GoesTo
  <2>5. job'[w] = [job[w] EXCEPT !.at = rec.node, !.old = job[w].old]
    BY <1>1, <2>1, <2>3 DEF Goes, WorkerTypes
  <2>6. /\ job'[w].op = job[w].op /\ job'[w].to = job[w].to /\ job'[w].at = rec.node
        /\ job'[w].old = job[w].old /\ job'[w].new = job[w].new
    BY <1>1, <2>5 DEF Job
  <2>7. M_unforward(w)'
    BY <1>1, <1>9, <2>3, <2>4, <2>6 DEF M_client, M_unforward, Doing, Moving,
       Holds, On2, OldRule, NewRule, Tidy, Gone, Here1, Port, SamePort
  <2>8. QED  BY <2>7 DEF MigratePhase
<1>10. CASE M_unforward(w)
  <2>1. At(w, "unforward") /\ Tail(todo[w]) = m_findOld /\ m_findOld # <<>>
    BY <1>10, MigrateChain DEF M_unforward, Doing, At, Is
  <2>2. Unforward(w)
    BY <2>1, StepIs
  <2>3. /\ Goes(w, Tail(todo[w]), job[w])
        /\ rule' = rule \ {OldRule(w)}
        /\ UNCHANGED <<registered, rec, body>>
    BY <1>2, <1>10, <2>2, UnforwardEffect DEF M_unforward, Doing, Moving, Holds,
       On2, OldRule, NewRule, Tidy, Gone, Here1, Port, SamePort
  <2>4. todo'[w] = m_findOld
    BY <1>1, <2>1, <2>2, <2>3, GoesTo
  <2>5. M_findOld(w)'
    BY <1>1, <1>10, <2>1, <2>2, <2>3, <2>4, GoesTo DEF M_unforward, M_findOld,
       Doing, Moving, Holds, On2, OldRule, NewRule, Tidy, Gone, Here1, Port,
       SamePort
  <2>6. QED  BY <2>5 DEF MigratePhase
<1>11. CASE M_findOld(w)
  <2>1. At(w, "findOld") /\ Tail(todo[w]) = m_stop /\ job[w].op = "migrate"
    BY <1>11, MigrateChain DEF M_findOld, Doing, At, Is
  <2>2. FindOld(w)
    BY <2>1, StepIs
  <2>3. body[job[w].at] # "none"
    BY <1>1, <1>11 DEF M_findOld, Doing, Moving, Holds, On2, OldRule, NewRule,
       Tidy, Gone, Here1, Port, SamePort
  <2>4. UNCHANGED <<registered, rec, body, rule>>
    BY <1>2, <2>2, <2>3, FindEffect
  <2>5. CASE body[job[w].at] = "Stopped"
    <3>1. FoundStopped("migrate", m_stop) = m_delete /\ m_delete # <<>>
      BY MigrateChain DEF FoundStopped, Is, d_stoppedUnforward
    <3>2. Goes(w, m_delete, job[w])
      BY <1>2, <2>1, <2>2, <2>3, <2>5, <3>1, FindEffect
    <3>3. todo'[w] = m_delete /\ job'[w] = job[w]
      BY <1>1, <3>1, <3>2, GoesTo
    <3>4. M_delete(w)'
      BY <1>1, <1>11, <2>3, <2>4, <2>5, <3>3 DEF M_findOld, M_delete, Doing,
         Moving, Holds, On2, OldRule, NewRule, Tidy, Gone, Here1, Port, SamePort
    <3>5. QED  BY <3>4 DEF MigratePhase
  <2>6. CASE body[job[w].at] # "Stopped"
    <3>1. Goes(w, m_stop, job[w]) /\ m_stop # <<>>
      BY <1>2, <2>1, <2>2, <2>3, <2>6, FindEffect, MigrateChain DEF Is
    <3>2. todo'[w] = m_stop /\ job'[w] = job[w]
      BY <1>1, <3>1, GoesTo
    <3>3. M_stop(w)'
      BY <1>1, <1>11, <2>3, <2>4, <2>6, <3>2 DEF M_findOld, M_stop, Doing,
         Moving, Holds, On2, OldRule, NewRule, Tidy, Gone, Here1, Port, SamePort
    <3>4. QED  BY <3>3 DEF MigratePhase
  <2>7. QED  BY <2>5, <2>6
<1>12. CASE M_stop(w)
  <2>1. At(w, "stop") /\ Tail(todo[w]) = m_delete /\ m_delete # <<>>
    BY <1>12, MigrateChain DEF M_stop, Doing, At, Is
  <2>2. StopContainer(w)
    BY <2>1, StepIs
  <2>3. body[job[w].at] \in {"Running"}
    BY <1>1, <1>12 DEF M_stop, Doing, Moving, Holds, On2, OldRule, NewRule,
       Tidy, Gone, Here1, Port, SamePort
  <2>4. /\ Goes(w, Tail(todo[w]), job[w])
        /\ body' = [body EXCEPT ![job[w].at] = "Stopped"]
        /\ UNCHANGED <<registered, rec, rule>>
    BY <1>2, <2>2, <2>3, LxdEffect DEF StopContainer
  <2>5. todo'[w] = m_delete
    BY <1>1, <2>1, <2>2, <2>3, <2>4, GoesTo
  <2>6. M_delete(w)'
    BY <1>1, <1>12, <2>1, <2>2, <2>3, <2>4, <2>5, GoesTo DEF M_stop, M_delete,
       Doing, Moving, Holds, On2, OldRule, NewRule, Tidy, Gone, Here1, Port,
       SamePort
  <2>7. QED  BY <2>6 DEF MigratePhase
<1>13. CASE M_delete(w)
  <2>1. At(w, "delete") /\ Tail(todo[w]) = One("moved") /\ One("moved") # <<>>
    BY <1>13, MigrateChain DEF M_delete, Doing, At, Is
  <2>2. DeleteContainer(w)
    BY <2>1, StepIs
  <2>3. body[job[w].at] \in {"Stopped", "Running"}
    BY <1>1, <1>13 DEF M_delete, Doing, Moving, Holds, On2, OldRule, NewRule,
       Tidy, Gone, Here1, Port, SamePort
  <2>4. /\ Goes(w, Tail(todo[w]), job[w])
        /\ body' = [body EXCEPT ![job[w].at] = "none"]
        /\ UNCHANGED <<registered, rec, rule>>
    BY <1>2, <2>2, <2>3, LxdEffect DEF DeleteContainer
  <2>5. todo'[w] = One("moved")
    BY <1>1, <2>1, <2>2, <2>3, <2>4, GoesTo
  <2>6. M_moved(w)'
    BY <1>1, <1>13, <2>1, <2>2, <2>3, <2>4, <2>5, GoesTo DEF M_delete, M_moved,
       Doing, Moving, Holds, On2, OldRule, NewRule, Tidy, Gone, Here1, Port,
       SamePort
  <2>7. QED  BY <2>6 DEF MigratePhase
<1>14. CASE M_moved(w)
  <2>1. At(w, "moved") /\ Tail(todo[w]) = <<>>
    BY <1>14, Singles DEF M_moved, Doing, At, Is, Steps
  <2>2. Moved(w)
    BY <2>1, StepIs
  <2>3. /\ Goes(w, Tail(todo[w]), job[w]) /\ registered'
        /\ rec' = [node |-> job[w].to, port |-> job[w].new, state |-> "running"]
        /\ UNCHANGED <<body, rule>>
    BY <1>14, <2>2 DEF M_moved, Moving, Moved, Save, Continue
  <2>4. todo'[w] = <<>>
    BY <1>1, <2>1, <2>2, <2>3, GoesTo
  <2>5. (Tidy \/ Gone)'
    BY <1>1, <1>14, <2>1, <2>2, <2>3 DEF M_moved, Doing, Moving, Holds, On2,
       OldRule, NewRule, Tidy, Gone, Here1, Port, SamePort
  <2>6. QED  BY <2>4, <2>5
<1>15. QED  BY <1>3, <1>4, <1>5, <1>6, <1>7, <1>8, <1>9, <1>10, <1>11, <1>12,
       <1>13, <1>14 DEF MigratePhase

LEMMA RebuildMoves ==
  ASSUME Types, NoFaults, NEW w \in Workers, Step(w), RebuildPhase(w)
  PROVE  RebuildPhase(w)' \/ (todo'[w] = <<>> /\ (Tidy \/ Gone)')
<1>1. /\ rec \in Record /\ rec.node \in Nodes
      /\ body \in [Nodes -> {"none", "Stopped", "Running"}]
      /\ job[w] \in Job /\ job[w].at \in Nodes /\ job[w].to \in Nodes
      /\ WorkerTypes
  BY DEF Types, RecordTypes, Record, HostTypes, WorkerTypes, Job
<1>2. ~MayFail
  BY DEF MayFail, NoFaults
<1>3. CASE R_mark(w)
  <2>1. At(w, "setCreating") /\ Tail(todo[w]) = r_client /\ r_client # <<>>
    BY <1>3, RebuildChain DEF R_mark, Doing, At, Is
  <2>2. setState(w, "setCreating", "creating")
    BY <2>1, StepIs
  <2>3. /\ Goes(w, Tail(todo[w]), job[w])
        /\ registered' /\ rec' = [rec EXCEPT !.state = "creating"]
        /\ UNCHANGED <<body, rule>>
    BY <1>3, <2>2, SetEffect DEF R_mark, Moving, Tidy
  <2>4. todo'[w] = r_client
    BY <1>1, <2>1, <2>2, <2>3, GoesTo
  <2>5. R_client(w)'
    BY <1>1, <1>3, <2>1, <2>2, <2>3, <2>4, GoesTo DEF R_mark, R_client, Doing,
       Moving, Holds, On2, OldRule, NewRule, Tidy, Gone, Here1, Port, SamePort
  <2>6. QED  BY <2>5 DEF RebuildPhase
<1>4. CASE R_client(w)
  <2>1. At(w, "client") /\ Tail(todo[w]) = r_unforward /\ r_unforward # <<>>
    BY <1>4, RebuildChain DEF R_client, Doing, At, Is
  <2>2. Client(w)
    BY <2>1, StepIs
  <2>3. /\ Goes(w, Tail(todo[w]),
                [job[w] EXCEPT !.at = rec.node, !.old = rec.port])
        /\ UNCHANGED <<registered, rec, body, rule>>
    BY <1>2, <1>4, <2>2, ClientEffect DEF R_client, Doing, Moving, Holds, On2,
       OldRule, NewRule, Tidy, Gone, Here1, Port, SamePort
  <2>4. todo'[w] = r_unforward
    BY <1>1, <2>1, <2>2, <2>3, GoesTo
  <2>5. job'[w] = [job[w] EXCEPT !.at = rec.node, !.old = rec.port]
    BY <1>1, <2>1, <2>3 DEF Goes, WorkerTypes
  <2>6. /\ job'[w].op = job[w].op /\ job'[w].to = job[w].to /\ job'[w].at = rec.node
        /\ job'[w].old = rec.port /\ job'[w].new = job[w].new
    BY <1>1, <2>5 DEF Job
  <2>7. R_unforward(w)'
    BY <1>1, <1>4, <2>3, <2>4, <2>6 DEF R_client, R_unforward, Doing, Moving,
       Holds, On2, OldRule, NewRule, Tidy, Gone, Here1, Port, SamePort
  <2>8. QED  BY <2>7 DEF RebuildPhase
<1>5. CASE R_unforward(w)
  <2>1. At(w, "unforward") /\ Tail(todo[w]) = r_findOld /\ r_findOld # <<>>
    BY <1>5, RebuildChain DEF R_unforward, Doing, At, Is
  <2>2. Unforward(w)
    BY <2>1, StepIs
  <2>3. /\ Goes(w, Tail(todo[w]), job[w])
        /\ rule' = rule \ {Port}
        /\ UNCHANGED <<registered, rec, body>>
    BY <1>2, <1>5, <2>2, UnforwardEffect DEF R_unforward, Doing, Moving, Holds,
       On2, OldRule, NewRule, Tidy, Gone, Here1, Port, SamePort
  <2>4. todo'[w] = r_findOld
    BY <1>1, <2>1, <2>2, <2>3, GoesTo
  <2>5. R_findOld(w)'
    BY <1>1, <1>5, <2>1, <2>2, <2>3, <2>4, GoesTo DEF R_unforward, R_findOld,
       Doing, Moving, Holds, On2, OldRule, NewRule, Tidy, Gone, Here1, Port,
       SamePort
  <2>6. QED  BY <2>5 DEF RebuildPhase
<1>6. CASE R_findOld(w)
  <2>1. At(w, "findOld") /\ Tail(todo[w]) = r_stop /\ job[w].op = "rebuild"
    BY <1>6, RebuildChain DEF R_findOld, Doing, At, Is
  <2>2. FindOld(w)
    BY <2>1, StepIs
  <2>3. body[job[w].at] # "none"
    BY <1>1, <1>6 DEF R_findOld, Doing, Moving, Holds, On2, OldRule, NewRule,
       Tidy, Gone, Here1, Port, SamePort
  <2>4. UNCHANGED <<registered, rec, body, rule>>
    BY <1>2, <2>2, <2>3, FindEffect
  <2>5. CASE body[job[w].at] = "Stopped"
    <3>1. FoundStopped("rebuild", r_stop) = r_delete /\ r_delete # <<>>
      BY RebuildChain DEF FoundStopped, Is, d_stoppedUnforward
    <3>2. Goes(w, r_delete, job[w])
      BY <1>2, <2>1, <2>2, <2>3, <2>5, <3>1, FindEffect
    <3>3. todo'[w] = r_delete /\ job'[w] = job[w]
      BY <1>1, <3>1, <3>2, GoesTo
    <3>4. R_delete(w)'
      BY <1>1, <1>6, <2>3, <2>4, <2>5, <3>3 DEF R_findOld, R_delete, Doing,
         Moving, Holds, On2, OldRule, NewRule, Tidy, Gone, Here1, Port, SamePort
    <3>5. QED  BY <3>4 DEF RebuildPhase
  <2>6. CASE body[job[w].at] # "Stopped"
    <3>1. Goes(w, r_stop, job[w]) /\ r_stop # <<>>
      BY <1>2, <2>1, <2>2, <2>3, <2>6, FindEffect, RebuildChain DEF Is
    <3>2. todo'[w] = r_stop /\ job'[w] = job[w]
      BY <1>1, <3>1, GoesTo
    <3>3. R_stop(w)'
      BY <1>1, <1>6, <2>3, <2>4, <2>6, <3>2 DEF R_findOld, R_stop, Doing,
         Moving, Holds, On2, OldRule, NewRule, Tidy, Gone, Here1, Port, SamePort
    <3>4. QED  BY <3>3 DEF RebuildPhase
  <2>7. QED  BY <2>5, <2>6
<1>7. CASE R_stop(w)
  <2>1. At(w, "stop") /\ Tail(todo[w]) = r_delete /\ r_delete # <<>>
    BY <1>7, RebuildChain DEF R_stop, Doing, At, Is
  <2>2. StopContainer(w)
    BY <2>1, StepIs
  <2>3. body[job[w].at] \in {"Running"}
    BY <1>1, <1>7 DEF R_stop, Doing, Moving, Holds, On2, OldRule, NewRule, Tidy,
       Gone, Here1, Port, SamePort
  <2>4. /\ Goes(w, Tail(todo[w]), job[w])
        /\ body' = [body EXCEPT ![job[w].at] = "Stopped"]
        /\ UNCHANGED <<registered, rec, rule>>
    BY <1>2, <2>2, <2>3, LxdEffect DEF StopContainer
  <2>5. todo'[w] = r_delete
    BY <1>1, <2>1, <2>2, <2>3, <2>4, GoesTo
  <2>6. R_delete(w)'
    BY <1>1, <1>7, <2>1, <2>2, <2>3, <2>4, <2>5, GoesTo DEF R_stop, R_delete,
       Doing, Moving, Holds, On2, OldRule, NewRule, Tidy, Gone, Here1, Port,
       SamePort
  <2>7. QED  BY <2>6 DEF RebuildPhase
<1>8. CASE R_delete(w)
  <2>1. At(w, "delete") /\ Tail(todo[w]) = createContainerOnNode
        /\ createContainerOnNode # <<>>
    BY <1>8, RebuildChain DEF R_delete, Doing, At, Is
  <2>2. DeleteContainer(w)
    BY <2>1, StepIs
  <2>3. body[job[w].at] \in {"Stopped", "Running"}
    BY <1>1, <1>8 DEF R_delete, Doing, Moving, Holds, On2, OldRule, NewRule,
       Tidy, Gone, Here1, Port, SamePort
  <2>4. /\ Goes(w, Tail(todo[w]), job[w])
        /\ body' = [body EXCEPT ![job[w].at] = "none"]
        /\ UNCHANGED <<registered, rec, rule>>
    BY <1>2, <2>2, <2>3, LxdEffect DEF DeleteContainer
  <2>5. todo'[w] = createContainerOnNode
    BY <1>1, <2>1, <2>2, <2>3, <2>4, GoesTo
  <2>6. R_create(w)'
    BY <1>1, <1>8, <2>1, <2>2, <2>3, <2>4, <2>5, GoesTo DEF R_delete, R_create,
       Doing, Moving, Holds, On2, OldRule, NewRule, Tidy, Gone, Here1, Port,
       SamePort
  <2>7. QED  BY <2>6 DEF RebuildPhase
<1>9. CASE R_create(w)
  <2>1. At(w, "create") /\ Tail(todo[w]) = r_start /\ r_start # <<>>
    BY <1>9, RebuildChain DEF R_create, Doing, At, Is
  <2>2. CreateContainer(w)
    BY <2>1, StepIs
  <2>3. body[job[w].at] \in {"none"} /\ job[w].op = "rebuild"
    BY <1>1, <1>9 DEF R_create, Doing, Moving, Holds, On2, OldRule, NewRule,
       Tidy, Gone, Here1, Port, SamePort
  <2>4. /\ Goes(w, Tail(todo[w]), [job[w] EXCEPT !.to = rec.node, !.new = rec.port])
        /\ body' = [body EXCEPT ![job[w].at] = "Stopped"]
        /\ UNCHANGED <<registered, rec, rule>>
    BY <1>2, <2>2, <2>3, LxdEffect DEF CreateContainer
  <2>5. todo'[w] = r_start
    BY <1>1, <2>1, <2>2, <2>3, <2>4, GoesTo
  <2>6. job'[w] = [job[w] EXCEPT !.to = rec.node, !.new = rec.port]
    BY <1>1, <2>1, <2>4 DEF Goes, WorkerTypes
  <2>7. /\ job'[w].op = job[w].op /\ job'[w].to = rec.node /\ job'[w].at = job[w].at
        /\ job'[w].old = job[w].old /\ job'[w].new = rec.port
    BY <1>1, <2>6 DEF Job
  <2>8. R_start(w)'
    BY <1>1, <1>9, <2>4, <2>5, <2>7 DEF R_create, R_start, Doing, Moving, Holds,
       On2, OldRule, NewRule, Tidy, Gone, Here1, Port, SamePort
  <2>9. QED  BY <2>8 DEF RebuildPhase
<1>10. CASE R_start(w)
  <2>1. At(w, "start") /\ Tail(todo[w]) = r_forward /\ r_forward # <<>>
    BY <1>10, RebuildChain DEF R_start, Doing, At, Is
  <2>2. StartContainer(w)
    BY <2>1, StepIs
  <2>3. body[job[w].at] \in {"Stopped"}
    BY <1>1, <1>10 DEF R_start, Doing, Moving, Holds, On2, OldRule, NewRule,
       Tidy, Gone, Here1, Port, SamePort
  <2>4. /\ Goes(w, Tail(todo[w]), job[w])
        /\ body' = [body EXCEPT ![job[w].at] = "Running"]
        /\ UNCHANGED <<registered, rec, rule>>
    BY <1>2, <2>2, <2>3, LxdEffect DEF StartContainer
  <2>5. todo'[w] = r_forward
    BY <1>1, <2>1, <2>2, <2>3, <2>4, GoesTo
  <2>6. R_forward(w)'
    BY <1>1, <1>10, <2>1, <2>2, <2>3, <2>4, <2>5, GoesTo DEF R_start, R_forward,
       Doing, Moving, Holds, On2, OldRule, NewRule, Tidy, Gone, Here1, Port,
       SamePort
  <2>7. QED  BY <2>6 DEF RebuildPhase
<1>11. CASE R_forward(w)
  <2>1. At(w, "forward") /\ Tail(todo[w]) = One("created") /\ One("created") # <<>>
    BY <1>11, RebuildChain DEF R_forward, Doing, At, Is
  <2>2. Forward(w)
    BY <2>1, StepIs
  <2>3. /\ Goes(w, Tail(todo[w]), job[w])
        /\ rule' = rule \cup {NewRule(w)}
        /\ UNCHANGED <<registered, rec, body>>
    BY <1>2, <2>2, ForwardEffect
  <2>4. todo'[w] = One("created")
    BY <1>1, <2>1, <2>2, <2>3, GoesTo
  <2>5. R_created(w)'
    BY <1>1, <1>11, <2>1, <2>2, <2>3, <2>4, GoesTo DEF R_forward, R_created,
       Doing, Moving, Holds, On2, OldRule, NewRule, Tidy, Gone, Here1, Port,
       SamePort
  <2>6. QED  BY <2>5 DEF RebuildPhase
<1>12. CASE R_created(w)
  <2>1. At(w, "created") /\ Tail(todo[w]) = <<>>
    BY <1>12, RebuildChain DEF R_created, Doing, At, Is
  <2>2. Created(w)
    BY <2>1, StepIs
  <2>3. /\ Goes(w, Tail(todo[w]), job[w])
        /\ rec' = [rec EXCEPT !.state = "running"]
        /\ UNCHANGED <<registered, body, rule>>
    BY <2>2 DEF Created, Save, Continue
  <2>4. todo'[w] = <<>>
    BY <1>1, <2>1, <2>2, <2>3, GoesTo
  <2>5. (Tidy \/ Gone)'
    BY <1>1, <1>12, <2>1, <2>2, <2>3 DEF R_created, Doing, Moving, Holds, On2,
       OldRule, NewRule, Tidy, Gone, Here1, Port, SamePort
  <2>6. QED  BY <2>4, <2>5
<1>13. QED  BY <1>3, <1>4, <1>5, <1>6, <1>7, <1>8, <1>9, <1>10, <1>11, <1>12 DEF
       RebuildPhase

LEMMA DeleteMoves ==
  ASSUME Types, NoFaults, NEW w \in Workers, Step(w), DeletePhase(w)
  PROVE  DeletePhase(w)' \/ (todo'[w] = <<>> /\ (Tidy \/ Gone)')
<1>1. /\ rec \in Record /\ rec.node \in Nodes
      /\ body \in [Nodes -> {"none", "Stopped", "Running"}]
      /\ job[w] \in Job /\ job[w].at \in Nodes /\ job[w].to \in Nodes
      /\ WorkerTypes
  BY DEF Types, RecordTypes, Record, HostTypes, WorkerTypes, Job
<1>2. ~MayFail
  BY DEF MayFail, NoFaults
<1>3. CASE D_client(w)
  <2>1. At(w, "client") /\ Tail(todo[w]) = d_findOld /\ d_findOld # <<>>
    BY <1>3, DeleteChain DEF D_client, Doing, At, Is
  <2>2. Client(w)
    BY <2>1, StepIs
  <2>3. /\ Goes(w, Tail(todo[w]),
                [job[w] EXCEPT !.at = rec.node, !.old = job[w].old])
        /\ UNCHANGED <<registered, rec, body, rule>>
    BY <1>2, <1>3, <2>2, ClientEffect DEF D_client, Doing, Moving, Holds, On2,
       OldRule, NewRule, Tidy, Gone, Here1, Port, SamePort
  <2>4. todo'[w] = d_findOld
    BY <1>1, <2>1, <2>2, <2>3, GoesTo
  <2>5. job'[w] = [job[w] EXCEPT !.at = rec.node, !.old = job[w].old]
    BY <1>1, <2>1, <2>3 DEF Goes, WorkerTypes
  <2>6. /\ job'[w].op = job[w].op /\ job'[w].to = job[w].to /\ job'[w].at = rec.node
        /\ job'[w].old = job[w].old /\ job'[w].new = job[w].new
    BY <1>1, <2>5 DEF Job
  <2>7. D_findOld(w)'
    BY <1>1, <1>3, <2>3, <2>4, <2>6 DEF D_client, D_findOld, Doing, Moving,
       Holds, On2, OldRule, NewRule, Tidy, Gone, Here1, Port, SamePort
  <2>8. QED  BY <2>7 DEF DeletePhase
<1>4. CASE D_findOld(w)
  <2>1. At(w, "findOld") /\ Tail(todo[w]) = d_unforward /\ job[w].op = "delete"
    BY <1>4, DeleteChain DEF D_findOld, Doing, At, Is
  <2>2. FindOld(w)
    BY <2>1, StepIs
  <2>3. body[job[w].at] # "none"
    BY <1>1, <1>4 DEF D_findOld, Doing, Moving, Holds, On2, OldRule, NewRule,
       Tidy, Gone, Here1, Port, SamePort
  <2>4. UNCHANGED <<registered, rec, body, rule>>
    BY <1>2, <2>2, <2>3, FindEffect
  <2>5. CASE body[job[w].at] = "Stopped"
    <3>1. FoundStopped("delete", d_unforward) = d_stoppedUnforward
          /\ d_stoppedUnforward # <<>>
      BY DeleteChain DEF FoundStopped, Is, d_stoppedUnforward
    <3>2. Goes(w, d_stoppedUnforward, job[w])
      BY <1>2, <2>1, <2>2, <2>3, <2>5, <3>1, FindEffect
    <3>3. todo'[w] = d_stoppedUnforward /\ job'[w] = job[w]
      BY <1>1, <3>1, <3>2, GoesTo
    <3>4. D_stoppedUnforward(w)'
      BY <1>1, <1>4, <2>3, <2>4, <2>5, <3>3 DEF D_findOld, D_stoppedUnforward,
         Doing, Moving, Holds, On2, OldRule, NewRule, Tidy, Gone, Here1, Port,
         SamePort
    <3>5. QED  BY <3>4 DEF DeletePhase
  <2>6. CASE body[job[w].at] # "Stopped"
    <3>1. Goes(w, d_unforward, job[w]) /\ d_unforward # <<>>
      BY <1>2, <2>1, <2>2, <2>3, <2>6, FindEffect, DeleteChain DEF Is
    <3>2. todo'[w] = d_unforward /\ job'[w] = job[w]
      BY <1>1, <3>1, GoesTo
    <3>3. D_unforward(w)'
      BY <1>1, <1>4, <2>3, <2>4, <2>6, <3>2 DEF D_findOld, D_unforward, Doing,
         Moving, Holds, On2, OldRule, NewRule, Tidy, Gone, Here1, Port, SamePort
    <3>4. QED  BY <3>3 DEF DeletePhase
  <2>7. QED  BY <2>5, <2>6
<1>5. CASE D_unforward(w)
  <2>1. At(w, "unforward") /\ Tail(todo[w]) = d_unregister /\ d_unregister # <<>>
    BY <1>5, DeleteChain DEF D_unforward, Doing, At, Is
  <2>2. Unforward(w)
    BY <2>1, StepIs
  <2>3. /\ Goes(w, Tail(todo[w]), job[w])
        /\ rule' = rule \ {Port}
        /\ UNCHANGED <<registered, rec, body>>
    BY <1>2, <1>5, <2>2, UnforwardEffect DEF D_unforward, Doing, Moving, Holds,
       On2, OldRule, NewRule, Tidy, Gone, Here1, Port, SamePort
  <2>4. todo'[w] = d_unregister
    BY <1>1, <2>1, <2>2, <2>3, GoesTo
  <2>5. D_unregister(w)'
    BY <1>1, <1>5, <2>1, <2>2, <2>3, <2>4, GoesTo DEF D_unforward, D_unregister,
       Doing, Moving, Holds, On2, OldRule, NewRule, Tidy, Gone, Here1, Port,
       SamePort
  <2>6. QED  BY <2>5 DEF DeletePhase
<1>6. CASE D_unregister(w)
  <2>1. At(w, "unregister") /\ Tail(todo[w]) = d_stop /\ d_stop # <<>>
    BY <1>6, DeleteChain DEF D_unregister, Doing, At, Is
  <2>2. Unregister(w)
    BY <2>1, StepIs
  <2>3. /\ Goes(w, Tail(todo[w]), job[w])
        /\ ~registered' /\ UNCHANGED <<rec, body, rule>>
    BY <1>6, <2>2 DEF D_unregister, Here1, Unregister, Save, Continue
  <2>4. todo'[w] = d_stop
    BY <1>1, <2>1, <2>2, <2>3, GoesTo
  <2>5. D_stop(w)'
    BY <1>1, <1>6, <2>1, <2>2, <2>3, <2>4, GoesTo DEF D_unregister, D_stop,
       Doing, Moving, Holds, On2, OldRule, NewRule, Tidy, Gone, Here1, Port,
       SamePort
  <2>6. QED  BY <2>5 DEF DeletePhase
<1>7. CASE D_stoppedUnforward(w)
  <2>1. At(w, "unforward") /\ Tail(todo[w]) = d_stoppedUnregister
        /\ d_stoppedUnregister # <<>>
    BY <1>7, DeleteChain DEF D_stoppedUnforward, Doing, At, Is
  <2>2. Unforward(w)
    BY <2>1, StepIs
  <2>3. /\ Goes(w, Tail(todo[w]), job[w])
        /\ rule' = rule \ {Port}
        /\ UNCHANGED <<registered, rec, body>>
    BY <1>2, <1>7, <2>2, UnforwardEffect DEF D_stoppedUnforward, Doing, Moving,
       Holds, On2, OldRule, NewRule, Tidy, Gone, Here1, Port, SamePort
  <2>4. todo'[w] = d_stoppedUnregister
    BY <1>1, <2>1, <2>2, <2>3, GoesTo
  <2>5. D_stoppedUnregister(w)'
    BY <1>1, <1>7, <2>1, <2>2, <2>3, <2>4, GoesTo DEF D_stoppedUnforward,
       D_stoppedUnregister, Doing, Moving, Holds, On2, OldRule, NewRule, Tidy,
       Gone, Here1, Port, SamePort
  <2>6. QED  BY <2>5 DEF DeletePhase
<1>8. CASE D_stoppedUnregister(w)
  <2>1. At(w, "unregister") /\ Tail(todo[w]) = One("delete") /\ One("delete") # <<>>
    BY <1>8, DeleteChain DEF D_stoppedUnregister, Doing, At, Is
  <2>2. Unregister(w)
    BY <2>1, StepIs
  <2>3. /\ Goes(w, Tail(todo[w]), job[w])
        /\ ~registered' /\ UNCHANGED <<rec, body, rule>>
    BY <1>8, <2>2 DEF D_stoppedUnregister, Here1, Unregister, Save, Continue
  <2>4. todo'[w] = One("delete")
    BY <1>1, <2>1, <2>2, <2>3, GoesTo
  <2>5. D_delete(w)'
    BY <1>1, <1>8, <2>1, <2>2, <2>3, <2>4, GoesTo DEF D_stoppedUnregister,
       D_delete, Doing, Moving, Holds, On2, OldRule, NewRule, Tidy, Gone, Here1,
       Port, SamePort
  <2>6. QED  BY <2>5 DEF DeletePhase
<1>9. CASE D_stop(w)
  <2>1. At(w, "stop") /\ Tail(todo[w]) = One("delete") /\ One("delete") # <<>>
    BY <1>9, DeleteChain DEF D_stop, Doing, At, Is
  <2>2. StopContainer(w)
    BY <2>1, StepIs
  <2>3. body[job[w].at] \in {"Running"}
    BY <1>1, <1>9 DEF D_stop, Doing, Moving, Holds, On2, OldRule, NewRule, Tidy,
       Gone, Here1, Port, SamePort
  <2>4. /\ Goes(w, Tail(todo[w]), job[w])
        /\ body' = [body EXCEPT ![job[w].at] = "Stopped"]
        /\ UNCHANGED <<registered, rec, rule>>
    BY <1>2, <2>2, <2>3, LxdEffect DEF StopContainer
  <2>5. todo'[w] = One("delete")
    BY <1>1, <2>1, <2>2, <2>3, <2>4, GoesTo
  <2>6. D_delete(w)'
    BY <1>1, <1>9, <2>1, <2>2, <2>3, <2>4, <2>5, GoesTo DEF D_stop, D_delete,
       Doing, Moving, Holds, On2, OldRule, NewRule, Tidy, Gone, Here1, Port,
       SamePort
  <2>7. QED  BY <2>6 DEF DeletePhase
<1>10. CASE D_delete(w)
  <2>1. At(w, "delete") /\ Tail(todo[w]) = <<>>
    BY <1>10, DeleteChain DEF D_delete, Doing, At, Is
  <2>2. DeleteContainer(w)
    BY <2>1, StepIs
  <2>3. body[job[w].at] \in {"Stopped", "Running"}
    BY <1>1, <1>10 DEF D_delete, Doing, Moving, Holds, On2, OldRule, NewRule,
       Tidy, Gone, Here1, Port, SamePort
  <2>4. /\ Goes(w, Tail(todo[w]), job[w])
        /\ body' = [body EXCEPT ![job[w].at] = "none"]
        /\ UNCHANGED <<registered, rec, rule>>
    BY <1>2, <2>2, <2>3, LxdEffect DEF DeleteContainer
  <2>5. todo'[w] = <<>>
    BY <1>1, <2>1, <2>2, <2>3, <2>4, GoesTo
  <2>6. (Tidy \/ Gone)'
    BY <1>1, <1>10, <2>1, <2>2, <2>3, <2>4 DEF D_delete, Doing, Moving, Holds,
       On2, OldRule, NewRule, Tidy, Gone, Here1, Port, SamePort
  <2>7. QED  BY <2>5, <2>6
<1>11. QED  BY <1>3, <1>4, <1>5, <1>6, <1>7, <1>8, <1>9, <1>10 DEF DeletePhase

LEMMA DestroyMoves ==
  ASSUME Types, NoFaults, NEW w \in Workers, Step(w), DestroyPhase(w)
  PROVE  DestroyPhase(w)' \/ (todo'[w] = <<>> /\ (Tidy \/ Gone)')
<1>1. /\ rec \in Record /\ rec.node \in Nodes
      /\ body \in [Nodes -> {"none", "Stopped", "Running"}]
      /\ job[w] \in Job /\ job[w].at \in Nodes /\ job[w].to \in Nodes
      /\ WorkerTypes
  BY DEF Types, RecordTypes, Record, HostTypes, WorkerTypes, Job
<1>2. ~MayFail
  BY DEF MayFail, NoFaults
<1>3. CASE X_client(w)
  <2>1. At(w, "client") /\ Tail(todo[w]) = x_findOld /\ x_findOld # <<>>
    BY <1>3, DestroyChain DEF X_client, Doing, At, Is
  <2>2. Client(w)
    BY <2>1, StepIs
  <2>3. /\ Goes(w, Tail(todo[w]),
                [job[w] EXCEPT !.at = rec.node, !.old = job[w].old])
        /\ UNCHANGED <<registered, rec, body, rule>>
    BY <1>2, <1>3, <2>2, ClientEffect DEF X_client, Doing, Moving, Holds, On2,
       OldRule, NewRule, Tidy, Gone, Here1, Port, SamePort
  <2>4. todo'[w] = x_findOld
    BY <1>1, <2>1, <2>2, <2>3, GoesTo
  <2>5. job'[w] = [job[w] EXCEPT !.at = rec.node, !.old = job[w].old]
    BY <1>1, <2>1, <2>3 DEF Goes, WorkerTypes
  <2>6. /\ job'[w].op = job[w].op /\ job'[w].to = job[w].to /\ job'[w].at = rec.node
        /\ job'[w].old = job[w].old /\ job'[w].new = job[w].new
    BY <1>1, <2>5 DEF Job
  <2>7. X_findOld(w)'
    BY <1>1, <1>3, <2>3, <2>4, <2>6 DEF X_client, X_findOld, Doing, Moving,
       Holds, On2, OldRule, NewRule, Tidy, Gone, Here1, Port, SamePort
  <2>8. QED  BY <2>7 DEF DestroyPhase
<1>4. CASE X_findOld(w)
  <2>1. At(w, "findOld") /\ Tail(todo[w]) = x_unforward /\ job[w].op = "destroy"
    BY <1>4, DestroyChain DEF X_findOld, Doing, At, Is
  <2>2. FindOld(w)
    BY <2>1, StepIs
  <2>3. body[job[w].at] # "none"
    BY <1>1, <1>4 DEF X_findOld, Doing, Moving, Holds, On2, OldRule, NewRule,
       Tidy, Gone, Here1, Port, SamePort
  <2>4. UNCHANGED <<registered, rec, body, rule>>
    BY <1>2, <2>2, <2>3, FindEffect
  <2>5. CASE body[job[w].at] = "Stopped"
    <3>1. FoundStopped("destroy", x_unforward) = x_stoppedUnforward
          /\ x_stoppedUnforward # <<>>
      BY DestroyChain DEF FoundStopped, Is, x_stoppedUnforward
    <3>2. Goes(w, x_stoppedUnforward, job[w])
      BY <1>2, <2>1, <2>2, <2>3, <2>5, <3>1, FindEffect
    <3>3. todo'[w] = x_stoppedUnforward /\ job'[w] = job[w]
      BY <1>1, <3>1, <3>2, GoesTo
    <3>4. X_stoppedUnforward(w)'
      BY <1>1, <1>4, <2>3, <2>4, <2>5, <3>3 DEF X_findOld, X_stoppedUnforward,
         Doing, Moving, Holds, On2, OldRule, NewRule, Tidy, Gone, Here1, Port,
         SamePort
    <3>5. QED  BY <3>4 DEF DestroyPhase
  <2>6. CASE body[job[w].at] # "Stopped"
    <3>1. Goes(w, x_unforward, job[w]) /\ x_unforward # <<>>
      BY <1>2, <2>1, <2>2, <2>3, <2>6, FindEffect, DestroyChain DEF Is
    <3>2. todo'[w] = x_unforward /\ job'[w] = job[w]
      BY <1>1, <3>1, GoesTo
    <3>3. X_unforward(w)'
      BY <1>1, <1>4, <2>3, <2>4, <2>6, <3>2 DEF X_findOld, X_unforward, Doing,
         Moving, Holds, On2, OldRule, NewRule, Tidy, Gone, Here1, Port, SamePort
    <3>4. QED  BY <3>3 DEF DestroyPhase
  <2>7. QED  BY <2>5, <2>6
<1>5. CASE X_unforward(w)
  <2>1. At(w, "unforward") /\ Tail(todo[w]) = x_stop /\ x_stop # <<>>
    BY <1>5, DestroyChain DEF X_unforward, Doing, At, Is
  <2>2. Unforward(w)
    BY <2>1, StepIs
  <2>3. /\ Goes(w, Tail(todo[w]), job[w])
        /\ rule' = rule \ {Port}
        /\ UNCHANGED <<registered, rec, body>>
    BY <1>2, <1>5, <2>2, UnforwardEffect DEF X_unforward, Doing, Moving, Holds,
       On2, OldRule, NewRule, Tidy, Gone, Here1, Port, SamePort
  <2>4. todo'[w] = x_stop
    BY <1>1, <2>1, <2>2, <2>3, GoesTo
  <2>5. X_stop(w)'
    BY <1>1, <1>5, <2>1, <2>2, <2>3, <2>4, GoesTo DEF X_unforward, X_stop,
       Doing, Moving, Holds, On2, OldRule, NewRule, Tidy, Gone, Here1, Port,
       SamePort
  <2>6. QED  BY <2>5 DEF DestroyPhase
<1>6. CASE X_stoppedUnforward(w)
  <2>1. At(w, "unforward") /\ Tail(todo[w]) = x_delete
        /\ x_delete # <<>>
    BY <1>6, DestroyChain DEF X_stoppedUnforward, Doing, At, Is
  <2>2. Unforward(w)
    BY <2>1, StepIs
  <2>3. /\ Goes(w, Tail(todo[w]), job[w])
        /\ rule' = rule \ {Port}
        /\ UNCHANGED <<registered, rec, body>>
    BY <1>2, <1>6, <2>2, UnforwardEffect DEF X_stoppedUnforward, Doing, Moving,
       Holds, On2, OldRule, NewRule, Tidy, Gone, Here1, Port, SamePort
  <2>4. todo'[w] = x_delete
    BY <1>1, <2>1, <2>2, <2>3, GoesTo
  <2>5. X_delete(w)'
    BY <1>1, <1>6, <2>1, <2>2, <2>3, <2>4, GoesTo DEF X_stoppedUnforward,
       X_delete, Doing, Moving, Holds, On2, OldRule, NewRule, Tidy,
       Gone, Here1, Port, SamePort
  <2>6. QED  BY <2>5 DEF DestroyPhase
<1>7. CASE X_stop(w)
  <2>1. At(w, "stop") /\ Tail(todo[w]) = x_delete /\ x_delete # <<>>
    BY <1>7, DestroyChain DEF X_stop, Doing, At, Is
  <2>2. StopContainer(w)
    BY <2>1, StepIs
  <2>3. body[job[w].at] \in {"Running"}
    BY <1>1, <1>7 DEF X_stop, Doing, Moving, Holds, On2, OldRule, NewRule, Tidy,
       Gone, Here1, Port, SamePort
  <2>4. /\ Goes(w, Tail(todo[w]), job[w])
        /\ body' = [body EXCEPT ![job[w].at] = "Stopped"]
        /\ UNCHANGED <<registered, rec, rule>>
    BY <1>2, <2>2, <2>3, LxdEffect DEF StopContainer
  <2>5. todo'[w] = x_delete
    BY <1>1, <2>1, <2>2, <2>3, <2>4, GoesTo
  <2>6. X_delete(w)'
    BY <1>1, <1>7, <2>1, <2>2, <2>3, <2>4, <2>5, GoesTo DEF X_stop, X_delete,
       Doing, Moving, Holds, On2, OldRule, NewRule, Tidy, Gone, Here1, Port,
       SamePort
  <2>7. QED  BY <2>6 DEF DestroyPhase
<1>8. CASE X_delete(w)
  <2>1. At(w, "delete") /\ Tail(todo[w]) = One("unregister")
        /\ One("unregister") # <<>>
    BY <1>8, DestroyChain DEF X_delete, Doing, At, Is
  <2>2. DeleteContainer(w)
    BY <2>1, StepIs
  <2>3. body[job[w].at] \in {"Stopped", "Running"}
    BY <1>1, <1>8 DEF X_delete, Doing, Moving, Holds, On2, OldRule, NewRule,
       Tidy, Gone, Here1, Port, SamePort
  <2>4. /\ Goes(w, Tail(todo[w]), job[w])
        /\ body' = [body EXCEPT ![job[w].at] = "none"]
        /\ UNCHANGED <<registered, rec, rule>>
    BY <1>2, <2>2, <2>3, LxdEffect DEF DeleteContainer
  <2>5. todo'[w] = One("unregister")
    BY <1>1, <2>1, <2>2, <2>3, <2>4, GoesTo
  <2>6. X_unregister(w)'
    BY <1>1, <1>8, <2>1, <2>2, <2>3, <2>4, <2>5, GoesTo DEF X_delete,
       X_unregister, Doing, Moving, Holds, On2, OldRule, NewRule, Tidy, Gone,
       Here1, Port, SamePort
  <2>7. QED  BY <2>6 DEF DestroyPhase
<1>9. CASE X_unregister(w)
  <2>1. At(w, "unregister") /\ Tail(todo[w]) = <<>>
    BY <1>9, DestroyChain DEF X_unregister, Doing, At, Is
  <2>2. Unregister(w)
    BY <2>1, StepIs
  <2>3. /\ Goes(w, Tail(todo[w]), job[w])
        /\ ~registered' /\ UNCHANGED <<rec, body, rule>>
    BY <1>9, <2>2 DEF X_unregister, Unregister, Save, Continue
  <2>4. todo'[w] = <<>>
    BY <1>1, <2>1, <2>3, GoesTo
  <2>5. Gone'
    BY <1>9, <2>3 DEF X_unregister, Holds, Gone
  <2>6. QED  BY <2>4, <2>5
<1>10. QED  BY <1>3, <1>4, <1>5, <1>6, <1>7, <1>8, <1>9 DEF DestroyPhase

LEMMA StatusMoves ==
  ASSUME Types, NoFaults, NEW w \in Workers, Step(w), StatusPhase(w)
  PROVE  StatusPhase(w)' \/ (todo'[w] = <<>> /\ (Tidy \/ Gone)')
<1>1. /\ rec \in Record /\ rec.node \in Nodes
      /\ body \in [Nodes -> {"none", "Stopped", "Running"}]
      /\ job[w] \in Job /\ job[w].at \in Nodes
      /\ WorkerTypes
  BY DEF Types, RecordTypes, Record, HostTypes, WorkerTypes, Job
<1>2. ~MayFail
  BY DEF MayFail, NoFaults
<1>3. CASE S_client(w)
  <2>1. PICK q \in {start_setRunning, stop_setStopped} :
          /\ At(w, "client") /\ Tail(todo[w]) = q /\ q # <<>>
          /\ \/ job[w].op = "start" /\ q = start_setRunning
             \/ job[w].op = "stop" /\ q = stop_setStopped
    BY <1>3, StartChain, StopChain DEF S_client, Doing, At, Is
  <2>2. Client(w)
    BY <2>1, StepIs
  <2>3. /\ Goes(w, q, [job[w] EXCEPT !.at = rec.node, !.old = job[w].old])
        /\ UNCHANGED <<registered, rec, body, rule>>
    BY <1>2, <1>3, <2>1, <2>2, ClientEffect DEF S_client, Tidy
  <2>4. /\ todo'[w] = q
        /\ job'[w] = [job[w] EXCEPT !.at = rec.node, !.old = job[w].old]
    BY <1>1, <2>1, <2>3 DEF Goes, WorkerTypes
  <2>5. job'[w].op = job[w].op /\ job'[w].at = rec.node
    BY <1>1, <2>4 DEF Job
  <2>6. Tidy'
    BY <1>3, <2>3 DEF S_client, Tidy, Holds
  <2>7. S_start(w)' \/ S_stop(w)'
    BY <2>1, <2>3, <2>4, <2>5, <2>6 DEF S_start, S_stop, Doing
  <2>8. QED  BY <2>7 DEF StatusPhase
<1>4. CASE S_start(w)
  <2>1. /\ At(w, "start") /\ Tail(todo[w]) = One("setRunning")
        /\ One("setRunning") # <<>>
    BY <1>4, StartChain DEF S_start, Doing, At, Is
  <2>2. StartContainer(w)
    BY <2>1, StepIs
  <2>3. CASE body[rec.node] = "Stopped"
    <3>1. body[job[w].at] \in {"Stopped"}
      BY <1>4, <2>3 DEF S_start
    <3>2. /\ Goes(w, Tail(todo[w]), job[w])
          /\ body' = [body EXCEPT ![job[w].at] = "Running"]
          /\ UNCHANGED <<registered, rec, rule>>
      BY <1>2, <2>2, <3>1, LxdEffect DEF StartContainer
    <3>3. todo'[w] = One("setRunning") /\ job'[w] = job[w]
      BY <1>1, <2>1, <3>2, GoesTo
    <3>4. S_setRunning(w)'
      BY <1>1, <1>4, <3>2, <3>3 DEF S_start, S_setRunning, Doing, Tidy, Holds
    <3>5. QED  BY <3>4 DEF StatusPhase
  <2>4. CASE body[rec.node] # "Stopped"
    <3>1. /\ Goes(w, OnError(job[w].op, Head(todo[w]), Tail(todo[w])), job[w])
          /\ UNCHANGED <<registered, rec, body, rule>>
      BY <1>4, <2>2, <2>4 DEF StartContainer, LxdCall, S_start, Fail
    <3>2. OnError(job[w].op, Head(todo[w]), Tail(todo[w])) = <<>>
      BY <1>4 DEF S_start, Doing, OnError
    <3>3. todo'[w] = <<>>
      BY <1>1, <3>1, <3>2, GoesTo
    <3>4. Tidy'
      BY <1>4, <3>1 DEF S_start, Tidy, Holds
    <3>5. QED  BY <3>3, <3>4
  <2>5. QED  BY <2>3, <2>4
<1>5. CASE S_setRunning(w)
  <2>1. At(w, "setRunning") /\ Tail(todo[w]) = <<>>
    BY <1>5, StartChain DEF S_setRunning, Doing, At, Is
  <2>2. setState(w, "setRunning", "running")
    BY <2>1, StepIs
  <2>3. /\ Goes(w, Tail(todo[w]), job[w])
        /\ registered' /\ rec' = [rec EXCEPT !.state = "running"]
        /\ UNCHANGED <<body, rule>>
    BY <1>5, <2>2, SetEffect DEF S_setRunning, Tidy
  <2>4. todo'[w] = <<>>
    BY <1>1, <2>1, <2>3, GoesTo
  <2>5. rec'.node = rec.node /\ rec'.port = rec.port
    BY <1>1, <2>3 DEF Record
  <2>6. Tidy'
    BY <1>5, <2>3, <2>5 DEF S_setRunning, Tidy, Holds
  <2>7. QED  BY <2>4, <2>6
<1>6. CASE S_stop(w)
  <2>1. /\ At(w, "stop") /\ Tail(todo[w]) = One("setStopped")
        /\ One("setStopped") # <<>>
    BY <1>6, StopChain DEF S_stop, Doing, At, Is
  <2>2. StopContainer(w)
    BY <2>1, StepIs
  <2>3. CASE body[rec.node] = "Running"
    <3>1. body[job[w].at] \in {"Running"}
      BY <1>6, <2>3 DEF S_stop
    <3>2. /\ Goes(w, Tail(todo[w]), job[w])
          /\ body' = [body EXCEPT ![job[w].at] = "Stopped"]
          /\ UNCHANGED <<registered, rec, rule>>
      BY <1>2, <2>2, <3>1, LxdEffect DEF StopContainer
    <3>3. todo'[w] = One("setStopped") /\ job'[w] = job[w]
      BY <1>1, <2>1, <3>2, GoesTo
    <3>4. S_setStopped(w)'
      BY <1>1, <1>6, <3>2, <3>3 DEF S_stop, S_setStopped, Doing, Tidy, Holds,
         Port
    <3>5. QED  BY <3>4 DEF StatusPhase
  <2>4. CASE body[rec.node] # "Running"
    <3>1. /\ Goes(w, OnError(job[w].op, Head(todo[w]), Tail(todo[w])), job[w])
          /\ UNCHANGED <<registered, rec, body, rule>>
      BY <1>6, <2>2, <2>4 DEF StopContainer, LxdCall, S_stop, Fail
    <3>2. OnError(job[w].op, Head(todo[w]), Tail(todo[w])) = <<>>
      BY <1>6 DEF S_stop, Doing, OnError
    <3>3. todo'[w] = <<>>
      BY <1>1, <3>1, <3>2, GoesTo
    <3>4. Tidy'
      BY <1>6, <3>1 DEF S_stop, Tidy, Holds
    <3>5. QED  BY <3>3, <3>4
  <2>5. QED  BY <2>3, <2>4
<1>7. CASE S_setStopped(w)
  <2>1. At(w, "setStopped") /\ Tail(todo[w]) = <<>>
    BY <1>7, StopChain DEF S_setStopped, Doing, At, Is
  <2>2. setState(w, "setStopped", "stopped")
    BY <2>1, StepIs
  <2>3. /\ Goes(w, Tail(todo[w]), job[w])
        /\ registered' /\ rec' = [rec EXCEPT !.state = "stopped"]
        /\ UNCHANGED <<body, rule>>
    BY <1>7, <2>2, SetEffect DEF S_setStopped
  <2>4. todo'[w] = <<>>
    BY <1>1, <2>1, <2>3, GoesTo
  <2>5. rec'.node = rec.node /\ rec'.port = rec.port /\ rec'.state = "stopped"
    BY <1>1, <2>3 DEF Record
  <2>6. Tidy'
    BY <1>7, <2>3, <2>5 DEF S_setStopped, Tidy, Holds, Port
  <2>7. QED  BY <2>4, <2>6
<1>8. QED  BY <1>3, <1>4, <1>5, <1>6, <1>7 DEF StatusPhase

(***************************************************************************)
(* Beside it, the checks                                                   *)
(***************************************************************************)
\* A worker's step is its own.
LEMMA StepAlone ==
  ASSUME WorkerTypes, NEW w \in Workers, Step(w)
  PROVE  /\ \A v \in Workers \ {w} : todo'[v] = todo[v] /\ job'[v] = job[v]
         /\ scenario' = scenario
         /\ todo[w] # <<>>
<1>1. ASSUME NEW rest, NEW j, Goes(w, rest, j)
      PROVE  /\ \A v \in Workers \ {w} : todo'[v] = todo[v] /\ job'[v] = job[v]
             /\ scenario' = scenario
  BY <1>1 DEF Goes, WorkerTypes
<1>2. CASE SetState(w)
  BY <1>1, <1>2 DEF SetState, setState, Continue, At
<1>3. CASE Claim(w) \/ Restore(w) \/ Created(w)
  BY <1>1, <1>3 DEF Claim, Restore, Created, Continue, At
<1>4. CASE Moved(w) \/ Unregister(w)
  BY <1>1, <1>4 DEF Moved, Unregister, Continue, At
<1>5. CASE Client(w)
  BY <1>1, <1>5 DEF Client, Fail, At
<1>6. CASE CreateContainer(w) \/ StartContainer(w)
  BY <1>1, <1>6 DEF CreateContainer, StartContainer, LxdCall, Fail, At
<1>7. CASE StopContainer(w) \/ DeleteContainer(w)
  BY <1>1, <1>7 DEF StopContainer, DeleteContainer, LxdCall, Fail, At
<1>8. CASE FindOld(w) \/ Inspect(w)
  BY <1>1, <1>8 DEF FindOld, Inspect, Fail, At
<1>9. CASE Forward(w) \/ Unforward(w)
  BY <1>1, <1>9 DEF Forward, Unforward, Continue, At
<1>10. QED
  BY <1>2, <1>3, <1>4, <1>5, <1>6, <1>7, <1>8, <1>9 DEF Step

\* Nothing changes, except that a container is found stopped.
SeenStopped ==
  /\ UNCHANGED <<registered, body, rule>>
  /\ rec' = rec \/ rec' = [rec EXCEPT !.state = "stopped"]

\* A check at most marks the container stopped.
LEMMA CheckSees ==
  ASSUME Types, NEW w \in Workers, Step(w), job[w].op = "check"
  PROVE  SeenStopped /\ (todo'[w] = <<>> \/ job'[w].op = "check")
<1>1. WorkerTypes /\ job[w] \in Job /\ registered \in BOOLEAN
  BY DEF Types, WorkerTypes, RecordTypes
<1>2. todo[w] # <<>> /\ todo[w] \in Places("check")
  BY <1>1, StepAlone DEF WorkerTypes
<1>3. At(w, "client") \/ At(w, "inspect") \/ At(w, "setStopped")
  BY <1>2, CheckPlaces DEF Here, Is, At
<1>4. CASE At(w, "client")
  <2>1. Client(w)
    BY <1>4, StepIs
  <2>2. SeenStopped
    BY <2>1 DEF Client, SeenStopped
  <2>3. PICK rest, j : Goes(w, rest, j) /\ j.op = "check"
    <3>1. CASE Fail(w)
      BY <3>1 DEF Fail
    <3>2. CASE ~Fail(w)
      <4> DEFINE j == [job[w] EXCEPT !.at = rec.node,
                         !.old = IF job[w].op = "rebuild" THEN rec.port ELSE @]
      <4>1. Goes(w, Tail(todo[w]), j)
        BY <2>1, <3>2 DEF Client
      <4>2. j.op = "check"
        BY <1>1 DEF Job
      <4> HIDE DEF j
      <4>3. QED  BY <4>1, <4>2
    <3>3. QED  BY <3>1, <3>2
  <2>4. QED  BY <1>1, <2>2, <2>3, GoesTo
<1>5. CASE At(w, "inspect")
  <2>1. Inspect(w)
    BY <1>5, StepIs
  <2>2. SeenStopped
    BY <2>1 DEF Inspect, SeenStopped
  <2>3. PICK rest : Goes(w, rest, job[w])
    BY <2>1 DEF Inspect
  <2>4. QED  BY <1>1, <2>2, <2>3, GoesTo
<1>6. CASE At(w, "setStopped")
  <2>1. setState(w, "setStopped", "stopped")
    BY <1>6, StepIs
  <2>2. SeenStopped
    BY <1>1, <2>1 DEF setState, IfRegistered, Save, SeenStopped
  <2>3. Goes(w, Tail(todo[w]), job[w])
    BY <2>1 DEF setState, Continue
  <2>4. QED  BY <1>1, <2>2, <2>3, GoesTo
<1>7. QED  BY <1>3, <1>4, <1>5, <1>6

\* A container found stopped is where it was.
LEMMA SeenKeeps ==
  ASSUME Types, SeenStopped
  PROVE  /\ rec'.node = rec.node /\ rec'.port = rec.port
         /\ rec'.state \in {rec.state, "stopped"}
         /\ Tidy => Tidy'
         /\ Gone => Gone'
<1>1. /\ rec'.node = rec.node /\ rec'.port = rec.port
      /\ rec'.state \in {rec.state, "stopped"}
  <2>1. rec \in Record
    BY DEF Types, RecordTypes
  <2>2. QED  BY <2>1 DEF SeenStopped, Record
<1>2. Tidy => Tidy'
  BY <1>1 DEF SeenStopped, Tidy, Holds
<1>3. Gone => Gone'
  BY DEF SeenStopped, Gone, Holds
<1>4. QED  BY <1>1, <1>2, <1>3

LEMMA PhaseKept ==
  ASSUME Types, SeenStopped, NEW w \in Workers, Phase(w),
         todo'[w] = todo[w], job'[w] = job[w]
  PROVE  Phase(w)'
<1>1. /\ UNCHANGED <<registered, body, rule>>
      /\ rec'.node = rec.node /\ rec'.port = rec.port
      /\ Tidy => Tidy'
  BY SeenKeeps DEF SeenStopped
<1>2. /\ \A op, q : Doing(w, op, q) => Doing(w, op, q)'
      /\ \A B, R : Holds(B, R) <=> Holds(B, R)'
      /\ Moving(w) => Moving(w)'
      /\ OldRule(w)' = OldRule(w) /\ NewRule(w)' = NewRule(w) /\ Port' = Port
  BY <1>1 DEF Doing, Holds, Moving, OldRule, NewRule, Port
<1>3. CASE MigratePhase(w)
  <2>1. M_mark(w) => M_mark(w)'
    BY <1>1, <1>2 DEF M_mark, On2
  <2>2. M_claim(w) => M_claim(w)'
    BY <1>1, <1>2 DEF M_claim, On2
  <2>3. M_create(w) => M_create(w)'
    BY <1>1, <1>2 DEF M_create, On2
  <2>4. M_start(w) => M_start(w)'
    BY <1>1, <1>2 DEF M_start, On2
  <2>5. M_forward(w) => M_forward(w)'
    BY <1>1, <1>2 DEF M_forward, On2
  <2>6. M_created(w) => M_created(w)'
    BY <1>1, <1>2 DEF M_created, On2
  <2>7. M_client(w) => M_client(w)'
    BY <1>1, <1>2 DEF M_client, On2
  <2>8. M_unforward(w) => M_unforward(w)'
    BY <1>1, <1>2 DEF M_unforward, On2
  <2>9. M_findOld(w) => M_findOld(w)'
    BY <1>1, <1>2 DEF M_findOld, On2
  <2>10. M_stop(w) => M_stop(w)'
    BY <1>1, <1>2 DEF M_stop, On2
  <2>11. M_delete(w) => M_delete(w)'
    BY <1>1, <1>2 DEF M_delete, On2
  <2>12. M_moved(w) => M_moved(w)'
    BY <1>1, <1>2 DEF M_moved, On2
  <2>13. MigratePhase(w)'
    BY <1>3, <2>1, <2>2, <2>3, <2>4, <2>5, <2>6, <2>7, <2>8, <2>9, <2>10, <2>11,
       <2>12 DEF MigratePhase
  <2>14. QED  BY <2>13 DEF Phase
<1>4. CASE RebuildPhase(w)
  <2>1. R_mark(w) => R_mark(w)'
    BY <1>1, <1>2 DEF R_mark, Here1, SamePort
  <2>2. R_client(w) => R_client(w)'
    BY <1>1, <1>2 DEF R_client, Here1, SamePort
  <2>3. R_unforward(w) => R_unforward(w)'
    BY <1>1, <1>2 DEF R_unforward, Here1, SamePort
  <2>4. R_findOld(w) => R_findOld(w)'
    BY <1>1, <1>2 DEF R_findOld, Here1, SamePort
  <2>5. R_stop(w) => R_stop(w)'
    BY <1>1, <1>2 DEF R_stop, Here1, SamePort
  <2>6. R_delete(w) => R_delete(w)'
    BY <1>1, <1>2 DEF R_delete, Here1, SamePort
  <2>7. R_create(w) => R_create(w)'
    BY <1>1, <1>2 DEF R_create, Here1, SamePort
  <2>8. R_start(w) => R_start(w)'
    BY <1>1, <1>2 DEF R_start, Here1, SamePort
  <2>9. R_forward(w) => R_forward(w)'
    BY <1>1, <1>2 DEF R_forward, Here1, SamePort
  <2>10. R_created(w) => R_created(w)'
    BY <1>1, <1>2 DEF R_created, Here1, SamePort
  <2>11. RebuildPhase(w)'
    BY <1>4, <2>1, <2>2, <2>3, <2>4, <2>5, <2>6, <2>7, <2>8, <2>9, <2>10 DEF
       RebuildPhase
  <2>12. QED  BY <2>11 DEF Phase
<1>5. CASE DeletePhase(w)
  <2>1. D_client(w) => D_client(w)'
    BY <1>1, <1>2 DEF D_client, Here1
  <2>2. D_findOld(w) => D_findOld(w)'
    BY <1>1, <1>2 DEF D_findOld, Here1
  <2>3. D_unforward(w) => D_unforward(w)'
    BY <1>1, <1>2 DEF D_unforward, Here1
  <2>4. D_unregister(w) => D_unregister(w)'
    BY <1>1, <1>2 DEF D_unregister, Here1
  <2>5. D_stoppedUnforward(w) => D_stoppedUnforward(w)'
    BY <1>1, <1>2 DEF D_stoppedUnforward, Here1
  <2>6. D_stoppedUnregister(w) => D_stoppedUnregister(w)'
    BY <1>1, <1>2 DEF D_stoppedUnregister, Here1
  <2>7. D_stop(w) => D_stop(w)'
    BY <1>1, <1>2 DEF D_stop, Here1
  <2>8. D_delete(w) => D_delete(w)'
    BY <1>1, <1>2 DEF D_delete, Here1
  <2>9. DeletePhase(w)'
    BY <1>5, <2>1, <2>2, <2>3, <2>4, <2>5, <2>6, <2>7, <2>8 DEF DeletePhase
  <2>10. QED  BY <2>9 DEF Phase
<1>6. CASE DestroyPhase(w)
  <2>1. X_client(w) => X_client(w)'
    BY <1>1, <1>2 DEF X_client, Here1
  <2>2. X_findOld(w) => X_findOld(w)'
    BY <1>1, <1>2 DEF X_findOld, Here1
  <2>3. X_unforward(w) => X_unforward(w)'
    BY <1>1, <1>2 DEF X_unforward, Here1
  <2>4. X_stoppedUnforward(w) => X_stoppedUnforward(w)'
    BY <1>1, <1>2 DEF X_stoppedUnforward, Here1
  <2>5. X_stop(w) => X_stop(w)'
    BY <1>1, <1>2 DEF X_stop, Here1
  <2>6. X_delete(w) => X_delete(w)'
    BY <1>1, <1>2 DEF X_delete, Here1
  <2>7. X_unregister(w) => X_unregister(w)'
    BY <1>1, <1>2 DEF X_unregister, Here1
  <2>8. DestroyPhase(w)'
    BY <1>6, <2>1, <2>2, <2>3, <2>4, <2>5, <2>6, <2>7 DEF DestroyPhase
  <2>9. QED  BY <2>8 DEF Phase
<1>7. CASE StatusPhase(w)
  <2>1. S_client(w) => S_client(w)'
    BY <1>1, <1>2 DEF S_client
  <2>2. S_start(w) => S_start(w)'
    BY <1>1, <1>2 DEF S_start
  <2>3. S_setRunning(w) => S_setRunning(w)'
    BY <1>1, <1>2 DEF S_setRunning
  <2>4. S_stop(w) => S_stop(w)'
    BY <1>1, <1>2 DEF S_stop
  <2>5. S_setStopped(w) => S_setStopped(w)'
    BY <1>1, <1>2 DEF S_setStopped
  <2>6. StatusPhase(w)'
    BY <1>7, <2>1, <2>2, <2>3, <2>4, <2>5 DEF StatusPhase
  <2>7. QED  BY <2>6 DEF Phase
<1>8. QED  BY <1>3, <1>4, <1>5, <1>6, <1>7 DEF Phase

\* In a phase something is left to do.
LEMMA PhaseBusy == \A w \in Workers : Phase(w) => Busy(w)
<1> SUFFICES ASSUME NEW w \in Workers, Phase(w) PROVE Busy(w)
  OBVIOUS
<1>1. \A op, q : Doing(w, op, q) /\ op # "check" /\ q # <<>> => Busy(w)
  BY DEF Doing, Busy
<1> DEFINE IsPlace(q) == \E s, rest : Is(q, s, rest)
<1>2. \A q : IsPlace(q) => q # <<>>
  BY DEF Is
<1>3. CASE MigratePhase(w)
  <2>1. \E q \in {migrateContainer, m_claim, m_create, m_start, m_forward,
                   m_created, m_client, m_unforward, m_findOld, m_stop,
                   m_delete, One("moved")} : Doing(w, "migrate", q)
    BY <1>3 DEF MigratePhase, M_mark, M_claim, M_create, M_start, M_forward,
       M_created, M_client, M_unforward, M_findOld, M_stop, M_delete, M_moved
  <2>2. /\ IsPlace(migrateContainer) /\ IsPlace(m_claim)
        /\ IsPlace(m_create) /\ IsPlace(m_start)
        /\ IsPlace(m_forward) /\ IsPlace(m_created)
        /\ IsPlace(m_client) /\ IsPlace(m_unforward)
        /\ IsPlace(m_findOld) /\ IsPlace(m_stop)
        /\ IsPlace(m_delete) /\ IsPlace(One("moved"))
    BY MigrateChain
  <2> HIDE DEF IsPlace
  <2>3. QED  BY <1>1, <1>2, <2>1, <2>2
<1>4. CASE RebuildPhase(w)
  <2>1. \E q \in {handleRebuild, r_client, r_unforward, r_findOld, r_stop,
                   r_delete, createContainerOnNode, r_start, r_forward,
                   One("created")} : Doing(w, "rebuild", q)
    BY <1>4 DEF RebuildPhase, R_mark, R_client, R_unforward, R_findOld, R_stop,
       R_delete, R_create, R_start, R_forward, R_created
  <2>2. /\ IsPlace(handleRebuild) /\ IsPlace(r_client)
        /\ IsPlace(r_unforward) /\ IsPlace(r_findOld)
        /\ IsPlace(r_stop) /\ IsPlace(r_delete)
        /\ IsPlace(createContainerOnNode) /\ IsPlace(r_start)
        /\ IsPlace(r_forward) /\ IsPlace(One("created"))
    BY RebuildChain
  <2> HIDE DEF IsPlace
  <2>3. QED  BY <1>1, <1>2, <2>1, <2>2
<1>5. CASE DeletePhase(w)
  <2>1. \E q \in {handleDelete, d_findOld, d_unforward, d_unregister,
                   d_stoppedUnforward, d_stoppedUnregister, d_stop,
                   One("delete")} : Doing(w, "delete", q)
    BY <1>5 DEF DeletePhase, D_client, D_findOld, D_unforward, D_unregister,
       D_stoppedUnforward, D_stoppedUnregister, D_stop, D_delete
  <2>2. QED  BY <1>1, <2>1, DeleteChain DEF Is
<1>6. CASE DestroyPhase(w)
  <2>1. \E q \in {destroyContainer, x_findOld, x_unforward,
                   x_stoppedUnforward, x_stop, x_delete, One("unregister")} :
          Doing(w, "destroy", q)
    BY <1>6 DEF DestroyPhase, X_client, X_findOld, X_unforward,
       X_stoppedUnforward, X_stop, X_delete, X_unregister
  <2>2. QED  BY <1>1, <2>1, DestroyChain DEF Is
<1>7. CASE StatusPhase(w)
  <2>1. \/ \E q \in {Script("start"), start_setRunning, One("setRunning")} :
             Doing(w, "start", q)
        \/ \E q \in {Script("stop"), stop_setStopped, One("setStopped")} :
             Doing(w, "stop", q)
    BY <1>7 DEF StatusPhase, S_client, S_start, S_setRunning, S_stop,
       S_setStopped
  <2>2. QED  BY <1>1, <2>1, StartChain, StopChain DEF Is
<1>8. QED  BY <1>3, <1>4, <1>5, <1>6, <1>7 DEF Phase
LEMMA PhaseBusyNext == (\A w \in Workers : Phase(w) => Busy(w))'
BY PhaseBusy, PTL

\* A request comes to the next of its phases, or to its end.
LEMMA PhaseMoves ==
  ASSUME Types, NoFaults, NEW w \in Workers, Step(w), Phase(w)
  PROVE  Phase(w)' \/ (todo'[w] = <<>> /\ (Tidy \/ Gone)')
BY MigrateMoves, RebuildMoves, DeleteMoves, DestroyMoves, StatusMoves DEF Phase

LEMMA StepWhole ==
  ASSUME Types, WholeInv, NEW w \in Workers, Step(w)
  PROVE  WholeInv'
<1>1. /\ \A v \in Workers \ {w} : todo'[v] = todo[v] /\ job'[v] = job[v]
      /\ scenario' = scenario /\ todo[w] # <<>> /\ WorkerTypes
  BY StepAlone DEF Types
<1>2. SUFFICES ASSUME NoFaults
               PROVE  /\ \A u, v \in Workers : Busy(u)' /\ Busy(v)' => u = v
                      /\ \A v \in Workers : Busy(v)' => Phase(v)'
                      /\ Settled' => Tidy' \/ Gone'
  BY <1>1 DEF WholeInv, NoFaults
<1>3. /\ \A u, v \in Workers : Busy(u) /\ Busy(v) => u = v
      /\ \A v \in Workers : Busy(v) => Phase(v)
      /\ Settled => Tidy \/ Gone
  BY <1>2 DEF WholeInv
<1>4. \A v \in Workers \ {w} : Busy(v)' <=> Busy(v)
  BY <1>1 DEF Busy
<1>5. CASE job[w].op = "check"
  <2>1. SeenStopped /\ ~Busy(w)' /\ ~Busy(w)
    BY <1>5, CheckSees DEF Busy
  <2>2. Settled' => Settled
    BY <1>4, <2>1 DEF Settled
  <2>3. ASSUME NEW v \in Workers, Busy(v)' PROVE Phase(v)'
    <3>1. v # w /\ Phase(v)
      BY <1>3, <1>4, <2>1, <2>3
    <3>2. QED  BY <1>1, <2>1, <3>1, PhaseKept
  <2>4. QED  BY <1>3, <1>4, <2>1, <2>2, <2>3, SeenKeeps
<1>6. CASE job[w].op # "check"
  <2>1. Busy(w) /\ Phase(w)
    BY <1>1, <1>3, <1>6 DEF Busy
  <2>2. \A v \in Workers \ {w} : ~Busy(v)'
    BY <1>3, <1>4, <2>1
  <2>3. CASE Phase(w)'
    <3>1. Busy(w)'
      BY <2>3, PhaseBusyNext
    <3>2. QED  BY <2>2, <2>3, <3>1 DEF Settled
  <2>4. CASE todo'[w] = <<>> /\ (Tidy \/ Gone)'
    <3>1. ~Busy(w)'
      BY <2>4 DEF Busy
    <3>2. QED  BY <2>2, <2>4, <3>1
  <2>5. QED  BY <1>2, <2>1, <2>3, <2>4, PhaseMoves
<1>7. QED  BY <1>5, <1>6

\* A request begins when nothing else is done, with its first phase.
LEMMA BeginWhole ==
  ASSUME Types, WholeInv, NEW w \in Workers, NEW op \in Requests,
         NEW to \in Nodes, Begin(w, op, to), op = "migrate" => to # rec.node
  PROVE  WholeInv'
<1>1. /\ todo' = [todo EXCEPT ![w] = Script(op)]
      /\ job' = [job EXCEPT ![w] = [InitialJob EXCEPT !.op = op, !.to = to]]
      /\ UNCHANGED <<scenario, registered, rec, disk, body, rule, lastPort>>
      /\ todo[w] = <<>> /\ registered /\ WorkerTypes
      /\ scenario.serial /\ op # "check" => \A v \in Workers : ~Busy(v)
  BY DEF Begin, Types
<1>2. /\ \A v \in Workers \ {w} : todo'[v] = todo[v] /\ job'[v] = job[v]
      /\ todo'[w] = Script(op) /\ job'[w].op = op /\ job'[w].to = to
  <2>1. /\ InitialJob \in Job
    BY InitialJobIs
  <2>2. job'[w] = [InitialJob EXCEPT !.op = op, !.to = to]
    BY <1>1 DEF WorkerTypes
  <2>3. QED  BY <1>1, <2>1, <2>2 DEF WorkerTypes, Job
<1>3. SUFFICES ASSUME NoFaults
               PROVE  /\ \A u, v \in Workers : Busy(u)' /\ Busy(v)' => u = v
                      /\ \A v \in Workers : Busy(v)' => Phase(v)'
                      /\ Settled' => Tidy' \/ Gone'
  BY <1>1 DEF WholeInv, NoFaults
<1>4. /\ \A u, v \in Workers : Busy(u) /\ Busy(v) => u = v
      /\ \A v \in Workers : Busy(v) => Phase(v)
      /\ Settled => Tidy \/ Gone
  BY <1>3 DEF WholeInv
<1>5. \A v \in Workers \ {w} : Busy(v)' <=> Busy(v)
  BY <1>2 DEF Busy
<1>6. SeenStopped /\ (Tidy => Tidy') /\ (Gone => Gone')
  <2>1. SeenStopped
    BY <1>1 DEF SeenStopped
  <2>2. QED  BY <2>1, SeenKeeps
<1>7. CASE op = "check"
  <2>1. ~Busy(w)' /\ ~Busy(w)
    BY <1>1, <1>2, <1>7 DEF Busy
  <2>2. Settled' => Settled
    BY <1>5, <2>1 DEF Settled
  <2>3. ASSUME NEW v \in Workers, Busy(v)' PROVE Phase(v)'
    <3>1. v # w /\ Phase(v)
      BY <1>4, <1>5, <2>1, <2>3
    <3>2. QED  BY <1>2, <1>6, <3>1, PhaseKept
  <2>4. QED  BY <1>4, <1>5, <1>6, <2>1, <2>2, <2>3
<1>8. CASE op # "check"
  <2>1. Settled /\ Tidy'
    BY <1>1, <1>3, <1>4, <1>6, <1>8 DEF NoFaults, Settled, Gone
  <2>2. \A v \in Workers \ {w} : ~Busy(v)'
    BY <1>5, <2>1 DEF Settled
  <2>3. Doing(w, op, Script(op))'
    <3>1. Script(op)' = Script(op)
      BY DEF Script
    <3>2. QED  BY <1>2 DEF Doing
  <2>4. op = "migrate" => Moving(w)'
    BY <1>1, <1>2 DEF Moving
  <2>5. Phase(w)'
    <3>1. CASE op = "migrate"
      <4>1. M_mark(w)'
        BY <2>1, <2>3, <2>4, <3>1 DEF M_mark, Script, Doing
      <4>2. QED  BY <4>1 DEF MigratePhase, Phase
    <3>2. CASE op = "rebuild"
      <4>1. R_mark(w)'
        BY <2>1, <2>3, <3>2 DEF R_mark, Script, Doing
      <4>2. QED  BY <4>1 DEF RebuildPhase, Phase
    <3>3. CASE op = "delete"
      <4>1. D_client(w)'
        BY <2>1, <2>3, <3>3 DEF D_client, Script, Doing
      <4>2. QED  BY <4>1 DEF DeletePhase, Phase
    <3>4. CASE op = "destroy"
      <4>1. X_client(w)'
        BY <2>1, <2>3, <3>4 DEF X_client, Script, Doing
      <4>2. QED  BY <4>1 DEF DestroyPhase, Phase
    <3>5. CASE op \in {"start", "stop"}
      <4>1. S_client(w)'
        BY <2>1, <2>3, <3>5 DEF S_client, Doing
      <4>2. QED  BY <4>1 DEF StatusPhase, Phase
    <3>6. QED  BY <1>8, <3>1, <3>2, <3>3, <3>4, <3>5 DEF Requests
  <2>6. QED  BY <2>1, <2>2, <2>5
<1>9. QED  BY <1>7, <1>8

LEMMA NextWhole == Types /\ WholeInv /\ [Next]_vars => WholeInv'
<1> SUFFICES ASSUME Types, WholeInv, [Next]_vars PROVE WholeInv'
  OBVIOUS
<1>1. ASSUME NEW w \in Workers, Step(w) PROVE WholeInv'
  BY <1>1, StepWhole
<1>2. FirstNode \in Nodes /\ InitialJob.to = FirstNode
  BY FirstNodeIs DEF InitialJob
<1>3. ASSUME NEW w \in Workers, Check(w) PROVE WholeInv'
  <2>1. Begin(w, "check", InitialJob.to) /\ "check" \in Requests
    BY <1>3 DEF Check, Requests
  <2>2. QED  BY <1>2, <2>1, BeginWhole
<1>4. ASSUME NEW w \in Workers, NEW n \in Nodes, Migrate(w, n) PROVE WholeInv'
  <2>1. Begin(w, "migrate", n) /\ n # rec.node /\ "migrate" \in Requests
    BY <1>4 DEF Migrate, Requests
  <2>2. QED  BY <2>1, BeginWhole
<1>5. ASSUME NEW w \in Workers, NEW op \in Requests, Request(w, op)
      PROVE  WholeInv'
  <2>1. Begin(w, op, InitialJob.to) /\ op # "migrate"
    BY <1>5 DEF Request
  <2>2. QED  BY <1>2, <2>1, BeginWhole
<1>6. ASSUME Crash PROVE WholeInv'
  <2>1. ~NoFaults /\ scenario' = scenario
    BY <1>6 DEF Crash, NoFaults
  <2>2. QED  BY <2>1 DEF WholeInv, NoFaults
<1>7. ASSUME UNCHANGED vars PROVE WholeInv'
  <2>1. /\ UNCHANGED scenario /\ SeenStopped
        /\ \A w \in Workers : todo'[w] = todo[w] /\ job'[w] = job[w]
    BY <1>7 DEF vars, SeenStopped
  <2>2. \A w \in Workers : (Busy(w)' <=> Busy(w)) /\ (Phase(w) => Phase(w)')
    BY <2>1, PhaseKept DEF Busy
  <2>3. (Settled' <=> Settled) /\ (Tidy => Tidy') /\ (Gone => Gone')
    BY <2>1, <2>2, SeenKeeps DEF Settled
  <2>4. QED  BY <2>1, <2>2, <2>3 DEF WholeInv, NoFaults
<1>8. QED  BY <1>1, <1>3, <1>4, <1>5, <1>6, <1>7 DEF Next

LEMMA InitWhole == Init => WholeInv
<1> SUFFICES ASSUME Init PROVE WholeInv
  OBVIOUS
<1>1. \A w \in Workers : ~Busy(w)
  BY DEF Init, Busy
<1>2. Tidy
  <2>1. rec.node \in Nodes /\ rec.port = 1
    BY FirstNodeIs DEF Init, InitialJob
  <2>2. QED  BY <2>1 DEF Init, Tidy, Holds
<1>3. QED  BY <1>1, <1>2 DEF WholeInv

\* When no call fails and requests come one after another, whatever health
\* checks run beside them: between two requests a container is on the node of
\* its record and nowhere else, with the rules of its ports and no others, and a
\* deleted one has left nothing (migrateContainer, handleRebuild, handleDelete,
\* destroyContainer).
THEOREM ContainerMovedWhole == Spec => []MovedWhole
<1>1. Init => SurvivalInv /\ WholeInv
  BY InitKeeps, InitWhole
<1>2. SurvivalInv /\ WholeInv /\ [Next]_vars => SurvivalInv' /\ WholeInv'
  BY NextKeeps, NextWhole DEF SurvivalInv
<1>3. SurvivalInv /\ WholeInv => MovedWhole
  BY WholeImplies DEF SurvivalInv
<1>4. QED  BY <1>1, <1>2, <1>3, PTL DEF Spec

(***************************************************************************)
(* The rebuild of nodes, for any nodes, hosts, containers and goroutines   *)
(***************************************************************************)
\* Everything is of the nodes that there were, and no node is gone that could
\* not be removed.
Placed == \A g \in Goroutines : pc[g] # "idle" => D(g) \in setting.nodes
Held ==
  /\ nodes \subseteq setting.nodes
  /\ "remove" \notin Ops => nodes = setting.nodes
  /\ \A n \in Names : onNode[n] \in setting.nodes

\* Where no node is moved a container stays with its node, and its node with
\* its machine.
Fixed ==
  "migrate" \notin Ops =>
    /\ \A d, e \in NodeIds : sshHost[d] = sshHost[e] => d = e
    /\ \A n \in Names : home[n] = sshHost[onNode[n]]
    /\ \A g \in Goroutines : \A n \in loc[g].left : onNode[n] = D(g)

\* Where machines work, a container that is reported running is in the LXD of
\* its node - or its node was moved, or its machine emptied, and the goroutine
\* that did it is about to mark it.
IsAt(g, place, d) == pc[g] = place /\ D(g) = d
Waits(n) == \E g \in Goroutines : IsAt(g, "mark", onNode[n])
Emptied(n) == \E g \in Goroutines : IsAt(g, "assign", onNode[n])
InPlace ==
  Undisturbed =>
    \A n \in Names :
      /\ onNode[n] \in nodes
      /\ cState[n] = "running" =>
           \/ Waits(n)
           \/ /\ home[n] = sshHost[onNode[n]]
              /\ n \in there[home[n]] \/ Emptied(n)

\* What the only rebuild knows: whether its node has containers, and at the end
\* whether one of them waits.
On(g) == {n \in Names : onNode[n] = D(g)}
JudgedAt(g) ==
  /\ pc[g] \in {"connect", "recreate", "judge"} /\ On(g) # {}
       => loc[g].hasContainers
  /\ pc[g] = "finish" /\ (\E n \in On(g) : cState[n] = "creating")
       => ~loc[g].allHealthy
Judged ==
  OneRebuild /\ "migrate" \notin Ops =>
    \A g \in Goroutines : JudgedAt(g)
RebuildIInv == RebuildTypes /\ Placed /\ Held /\ Fixed /\ InPlace /\ Judged

\* Local variables keep their types when one of them changes, and the others
\* their values.
LEMMA LocalChange ==
  ASSUME RebuildTypes, NEW g \in Goroutines
  PROVE  /\ Idle \in Local
         /\ \A l \in Local :
              /\ [loc EXCEPT ![g] = l] \in [Goroutines -> Local]
              /\ [loc EXCEPT ![g] = l][g] = l
              /\ \A h \in Goroutines \ {g} : [loc EXCEPT ![g] = l][h] = loc[h]
         /\ \A d \in NodeIds : /\ [Idle EXCEPT !.node = d] \in Local
                               /\ [Idle EXCEPT !.node = d].node = d
                               /\ [Idle EXCEPT !.node = d].left = {}
         /\ \A L \in SUBSET Names :
              /\ [loc[g] EXCEPT !.left = L] \in Local
              /\ [loc[g] EXCEPT !.left = L].left = L
              /\ [loc[g] EXCEPT !.left = L].node = loc[g].node
              /\ [loc[g] EXCEPT !.left = L].hasContainers = loc[g].hasContainers
         /\ \A b \in BOOLEAN :
              /\ [loc[g] EXCEPT !.hasContainers = b] \in Local
              /\ [loc[g] EXCEPT !.hasContainers = b].hasContainers = b
              /\ [loc[g] EXCEPT !.hasContainers = b].node = loc[g].node
              /\ [loc[g] EXCEPT !.hasContainers = b].left = loc[g].left
              /\ [loc[g] EXCEPT !.allHealthy = b] \in Local
              /\ [loc[g] EXCEPT !.allHealthy = b].allHealthy = b
              /\ [loc[g] EXCEPT !.allHealthy = b].node = loc[g].node
              /\ [loc[g] EXCEPT !.allHealthy = b].left = loc[g].left
<1>1. loc \in [Goroutines -> Local] /\ loc[g] \in Local
  BY DEF RebuildTypes
<1>2. Idle \in Local
  BY DEF Local, Idle
<1>3. ASSUME NEW l \in Local
      PROVE  /\ [loc EXCEPT ![g] = l] \in [Goroutines -> Local]
             /\ [loc EXCEPT ![g] = l][g] = l
             /\ \A h \in Goroutines \ {g} : [loc EXCEPT ![g] = l][h] = loc[h]
  BY <1>1
<1>4. ASSUME NEW d \in NodeIds
      PROVE  /\ [Idle EXCEPT !.node = d] \in Local
             /\ [Idle EXCEPT !.node = d].node = d
             /\ [Idle EXCEPT !.node = d].left = {}
  BY DEF Local, Idle
<1>5. ASSUME NEW L \in SUBSET Names
      PROVE  /\ [loc[g] EXCEPT !.left = L] \in Local
             /\ [loc[g] EXCEPT !.left = L].left = L
             /\ [loc[g] EXCEPT !.left = L].node = loc[g].node
             /\ [loc[g] EXCEPT !.left = L].hasContainers = loc[g].hasContainers
  BY <1>1 DEF Local
<1>6. ASSUME NEW b \in BOOLEAN
      PROVE  /\ [loc[g] EXCEPT !.hasContainers = b] \in Local
             /\ [loc[g] EXCEPT !.hasContainers = b].hasContainers = b
             /\ [loc[g] EXCEPT !.hasContainers = b].node = loc[g].node
             /\ [loc[g] EXCEPT !.hasContainers = b].left = loc[g].left
  BY <1>1 DEF Local
<1>7. ASSUME NEW b \in BOOLEAN
      PROVE  /\ [loc[g] EXCEPT !.allHealthy = b] \in Local
             /\ [loc[g] EXCEPT !.allHealthy = b].allHealthy = b
             /\ [loc[g] EXCEPT !.allHealthy = b].node = loc[g].node
             /\ [loc[g] EXCEPT !.allHealthy = b].left = loc[g].left
  BY <1>1 DEF Local
<1>8. QED  BY <1>2, <1>3, <1>4, <1>5, <1>6, <1>7

\* The node of a goroutine that is busy.
LEMMA NodeOfBusy ==
  ASSUME RebuildTypes, Placed, NEW g \in Goroutines, pc[g] # "idle"
  PROVE  /\ D(g) \in NodeIds /\ D(g) \in setting.nodes /\ sshHost[D(g)] \in Hosts
BY SettingsAssumption DEF RebuildTypes, Placed

LEMMA RebuildTypesKept ==
  ASSUME RebuildTypes, Placed, RebuildNext
  PROVE  RebuildTypes'
<1>1. ASSUME NEW g \in Goroutines, NEW d \in NodeIds, RebuildRequest(g,
             d) PROVE RebuildTypes'
  BY <1>1, LocalChange, NodeOfBusy DEF RebuildRequest, RebuildTypes, Goto,
     Return, D, PCs, SetNode, nodeVars, instVars, Reloaded, Steady, Homed,
     Lacking
<1>2. ASSUME NEW g \in Goroutines, NEW d \in NodeIds, NEW h \in Hosts,
             MigrateRequest(g, d, h) PROVE RebuildTypes'
  BY <1>2, LocalChange, NodeOfBusy DEF MigrateRequest, RebuildTypes, Goto,
     Return, D, PCs, SetNode, nodeVars, instVars, Reloaded, Steady, Homed,
     Lacking
<1>3. ASSUME NEW g \in Goroutines, MigrateMark(g) PROVE RebuildTypes'
  BY <1>3, LocalChange, NodeOfBusy DEF MigrateMark, RebuildTypes, Goto, Return,
     D, PCs, SetNode, nodeVars, instVars, Reloaded, Steady, Homed, Lacking
<1>4. ASSUME NEW d \in NodeIds, RemoveNode(d) PROVE RebuildTypes'
  BY <1>4, LocalChange, NodeOfBusy DEF RemoveNode, RebuildTypes, Goto, Return,
     D, PCs, SetNode, nodeVars, instVars, Reloaded, Steady, Homed, Lacking
<1>5. ASSUME NEW g \in Goroutines, CheckSteady(g) PROVE RebuildTypes'
  <2>1. CASE Goto(g, "check", "begin") /\ UNCHANGED loc
    BY <1>5, <2>1 DEF CheckSteady, RebuildTypes, Goto, PCs, nodeVars, instVars
  <2>2. CASE Return(g, "check")
    BY <1>5, <2>2, LocalChange DEF CheckSteady, RebuildTypes, Return, Goto, PCs,
       nodeVars, instVars
  <2>3. QED  BY <1>5, <2>1, <2>2 DEF CheckSteady
<1>6. ASSUME NEW g \in Goroutines, BeginRebuild(g) PROVE RebuildTypes'
  BY <1>6, LocalChange, NodeOfBusy DEF BeginRebuild, RebuildTypes, Goto, Return,
     D, PCs, SetNode, nodeVars, instVars, Reloaded, Steady, Homed, Lacking
<1>7. ASSUME NEW g \in Goroutines, Setup(g) PROVE RebuildTypes'
  <2>1. \/ Goto(g, "setup", "assign")
        \/ Goto(g, "setup", "failState")
    BY <1>7 DEF Setup
  <2>2. pc' \in [Goroutines -> PCs] /\ setting' = setting
    BY <2>1 DEF RebuildTypes, Goto, PCs
  <2>3. [there EXCEPT ![sshHost[D(g)]] = {}] \in [Hosts -> SUBSET Names]
    BY DEF RebuildTypes
  <2>4. there' \in [Hosts -> SUBSET Names]
    BY <1>7, <2>3 DEF Setup, RebuildTypes
  <2>5. UNCHANGED <<nodeVars, instVars, loc>>
    BY <1>7 DEF Setup
  <2>6. QED  BY <2>2, <2>4, <2>5 DEF RebuildTypes, nodeVars, instVars
<1>8. ASSUME NEW g \in Goroutines, SetupGone(g) PROVE RebuildTypes'
  BY <1>8, LocalChange, NodeOfBusy DEF SetupGone, RebuildTypes, Goto, Return, D,
     PCs, SetNode, nodeVars, instVars, Reloaded, Steady, Homed, Lacking
<1>9. ASSUME NEW g \in Goroutines, FailState(g) PROVE RebuildTypes'
  BY <1>9, LocalChange, NodeOfBusy DEF FailState, RebuildTypes, Goto, Return, D,
     PCs, SetNode, nodeVars, instVars, Reloaded, Steady, Homed, Lacking
<1>10. ASSUME NEW g \in Goroutines, FailHealth(g) PROVE RebuildTypes'
  BY <1>10, LocalChange, NodeOfBusy DEF FailHealth, RebuildTypes, Goto, Return,
     D, PCs, SetNode, nodeVars, instVars, Reloaded, Steady, Homed, Lacking
<1>11. ASSUME NEW g \in Goroutines, Assign(g) PROVE RebuildTypes'
  BY <1>11, LocalChange, NodeOfBusy DEF Assign, RebuildTypes, Goto, Return, D,
     PCs, SetNode, nodeVars, instVars, Reloaded, Steady, Homed, Lacking
<1>12. ASSUME NEW g \in Goroutines, Connect(g) PROVE RebuildTypes'
  <2>1. Lacking(D(g)) \in SUBSET Names
    BY DEF Lacking
  <2>2. \/ loc' = [loc EXCEPT ![g] = [loc[g] EXCEPT !.left = Lacking(D(g))]]
        \/ loc' = loc
    BY <1>12 DEF Connect
  <2>3. loc' \in [Goroutines -> Local]
    <3>1. [loc[g] EXCEPT !.left = Lacking(D(g))] \in Local
      BY <2>1, LocalChange
    <3>2. loc \in [Goroutines -> Local]
      BY DEF RebuildTypes
    <3>3. QED  BY <2>2, <3>1, <3>2
  <2>4. \/ Goto(g, "connect", "recreate")
        \/ Goto(g, "connect", "judge")
    BY <1>12 DEF Connect
  <2>5. pc' \in [Goroutines -> PCs] /\ setting' = setting
    BY <2>4 DEF RebuildTypes, Goto, PCs
  <2>6. UNCHANGED <<nodeVars, instVars, there>>
    BY <1>12 DEF Connect
  <2>7. QED  BY <2>3, <2>5, <2>6 DEF RebuildTypes, nodeVars, instVars
<1>13. ASSUME NEW g \in Goroutines, NEW n \in Names, RecreateOK(g, n) PROVE RebuildTypes'
  <2>1. sshHost[D(g)] \in Hosts
    BY <1>13, NodeOfBusy DEF RecreateOK
  <2>2. there' \in [Hosts -> SUBSET Names]
    BY <1>13, <2>1 DEF RecreateOK, RebuildTypes
  <2>3. loc[g].left \ {n} \in SUBSET Names
    BY DEF RebuildTypes, Local
  <2>4. loc' = [loc EXCEPT ![g] = [loc[g] EXCEPT !.left = loc[g].left \ {n}]]
    BY <1>13 DEF RecreateOK
  <2>5. loc' \in [Goroutines -> Local]
    BY <2>3, <2>4, LocalChange
  <2>6. /\ cState' \in [Names -> {"running", "creating"}]
        /\ cHealth' \in [Names -> {"", "lost"}]
        /\ home' \in [Names -> Hosts]
    BY <1>13, <2>1 DEF RecreateOK, RebuildTypes
  <2>7. UNCHANGED <<nodeVars, onNode, pc, setting>>
    BY <1>13 DEF RecreateOK
  <2>8. QED  BY <2>2, <2>5, <2>6, <2>7 DEF RebuildTypes, nodeVars
<1>14. ASSUME NEW g \in Goroutines, NEW n \in Names, RecreateFail(g,
              n) PROVE RebuildTypes'
  <2>1. loc[g].left \ {n} \in SUBSET Names
    BY DEF RebuildTypes, Local
  <2>2. loc' = [loc EXCEPT ![g] = [loc[g] EXCEPT !.left = loc[g].left \ {n}]]
    BY <1>14 DEF RecreateFail
  <2>3. loc' \in [Goroutines -> Local]
    BY <2>1, <2>2, LocalChange
  <2>4. UNCHANGED <<nodeVars, instVars, there, pc, setting>>
    BY <1>14 DEF RecreateFail
  <2>5. QED  BY <2>3, <2>4 DEF RebuildTypes, nodeVars, instVars
<1>15. ASSUME NEW g \in Goroutines, RecreateDone(g) PROVE RebuildTypes'
  BY <1>15, LocalChange, NodeOfBusy DEF RecreateDone, RebuildTypes, Goto,
     Return, D, PCs, SetNode, nodeVars, instVars, Reloaded, Steady, Homed,
     Lacking
<1>16. ASSUME NEW g \in Goroutines, Judge(g) PROVE RebuildTypes'
  BY <1>16, LocalChange, NodeOfBusy DEF Judge, RebuildTypes, Goto, Return, D,
     PCs, SetNode, nodeVars, instVars, Reloaded, Steady, Homed, Lacking
<1>17. ASSUME NEW g \in Goroutines, Finish(g) PROVE RebuildTypes'
  <2>1. CASE Return(g, "finish") /\ D(g) \in nodes
    <3>1. loc' \in [Goroutines -> Local]
      BY <2>1, LocalChange DEF Return
    <3>2. pc' \in [Goroutines -> PCs] /\ setting' = setting
      BY <2>1 DEF Return, RebuildTypes, Goto, PCs
    <3>3. /\ SetNode(D(g), "active", IF loc[g].allHealthy THEN nHealth[D(g)]
                                     ELSE "unhealthy")
          /\ UNCHANGED <<instVars, there>>
      BY <1>17, <2>1 DEF Finish
    <3>4. D(g) \in NodeIds
      BY <2>1 DEF RebuildTypes
    <3>5. /\ nState' \in [NodeIds -> {"creating", "active", "rebuilding"}]
          /\ nHealth' \in [NodeIds -> {"", "unhealthy", "lost"}]
      BY <3>3, <3>4 DEF SetNode, RebuildTypes
    <3>6. QED
      BY <3>1, <3>2, <3>3, <3>5 DEF RebuildTypes, SetNode, instVars
  <2>2. CASE Reloaded
    BY <2>2, LocalChange DEF Reloaded, RebuildTypes, PCs, instVars
  <2>3. QED  BY <1>17, <2>1, <2>2 DEF Finish
<1>18. ASSUME NEW d \in NodeIds, checkNodeHealth(d) PROVE RebuildTypes'
  <2>1. nHealth' \in [NodeIds -> {"", "unhealthy", "lost"}]
    BY <1>18 DEF checkNodeHealth, RebuildTypes
  <2>2. UNCHANGED <<nodes, nState, sshHost, instVars, there, pc, loc, setting>>
    BY <1>18 DEF checkNodeHealth
  <2>3. QED  BY <2>1, <2>2 DEF RebuildTypes, instVars
<1>19. ASSUME NEW n \in Names, checkContainer(n) PROVE RebuildTypes'
  BY <1>19, LocalChange, NodeOfBusy DEF checkContainer, RebuildTypes, Goto,
     Return, D, PCs, SetNode, nodeVars, instVars, Reloaded, Steady, Homed,
     Lacking
<1>20. ASSUME CrashProcess PROVE RebuildTypes'
  BY <1>20, LocalChange, NodeOfBusy DEF CrashProcess, RebuildTypes, Goto,
     Return, D, PCs, SetNode, nodeVars, instVars, Reloaded, Steady, Homed,
     Lacking
<1>21. QED
  BY <1>1, <1>2, <1>3, <1>4, <1>5, <1>6, <1>7, <1>8, <1>9, <1>10, <1>11, <1>12,
     <1>13, <1>14, <1>15, <1>16, <1>17, <1>18, <1>19, <1>20 DEF RebuildNext,
     RebuildStep

\* Where only the goroutine g moves, and it is neither about to mark nor to
\* assign the containers, what is true of it is all that matters.
LEMMA RecordsStay ==
  ASSUME RebuildTypes, Placed, Held, Fixed, InPlace, Judged,
         NEW g \in Goroutines, pc[g] \notin {"mark", "assign"},
         UNCHANGED <<setting, nodes, sshHost, home, onNode, cState, there>>,
         \A h \in Goroutines \ {g} : pc'[h] = pc[h] /\ loc'[h] = loc[h],
         pc'[g] # "idle" => D(g)' \in setting.nodes,
         "migrate" \notin Ops => \A n \in loc'[g].left : onNode[n] = D(g)',
         OneRebuild /\ "migrate" \notin Ops => JudgedAt(g)'
  PROVE  (Placed /\ Held /\ Fixed /\ InPlace /\ Judged)'
<1>1. /\ Ops' = Ops /\ Faults' = Faults /\ Undisturbed' = Undisturbed
      /\ \A h \in Goroutines \ {g} : D(h)' = D(h)
  BY DEF Ops, Faults, Undisturbed, D, OneRebuild
<1>2. Placed'
  BY <1>1 DEF Placed
<1>3. Held'
  BY <1>1 DEF Held
<1>4. Fixed'
  BY <1>1 DEF Fixed
<1>5. \A n \in Names : (Waits(n) => Waits(n)') /\ (Emptied(n) => Emptied(n)')
  BY <1>1 DEF Waits, Emptied, IsAt
<1>6. InPlace'
  BY <1>1, <1>5 DEF InPlace
<1>7. ASSUME OneRebuild, "migrate" \notin Ops, NEW h \in Goroutines
      PROVE  JudgedAt(h)'
  BY <1>7 DEF OneRebuild
<1>8. Judged'
  BY <1>1, <1>7 DEF Judged
<1>9. QED  BY <1>2, <1>3, <1>4, <1>6, <1>8

\* What a step does to the goroutine that takes it, if anything.
Moves(g, from, to) ==
  /\ pc[g] = from /\ pc'[g] = to
  /\ \A h \in Goroutines \ {g} : pc'[h] = pc[h] /\ loc'[h] = loc[h]
Keeps(g) == D(g)' = D(g) /\ loc'[g].left = loc[g].left

LEMMA GoesOn ==
  ASSUME RebuildTypes, NEW g \in Goroutines, NEW from, NEW to,
         Goto(g, from, to), UNCHANGED loc
  PROVE  Moves(g, from, to) /\ Keeps(g)
BY DEF Goto, RebuildTypes, Moves, Keeps, D
LEMMA GoesWith ==
  ASSUME RebuildTypes, NEW g \in Goroutines, NEW from, NEW to,
         Goto(g, from, to), NEW l \in Local, loc' = [loc EXCEPT ![g] = l]
  PROVE  Moves(g, from, to) /\ loc'[g] = l
<1>1. loc'[g] = l /\ \A h \in Goroutines \ {g} : loc'[h] = loc[h]
  BY LocalChange
<1>2. QED  BY <1>1 DEF Goto, RebuildTypes, Moves
LEMMA Returns ==
  ASSUME RebuildTypes, NEW g \in Goroutines, NEW from, Return(g, from)
  PROVE  Moves(g, from, "idle") /\ loc'[g].left = {}
<1>1. Goto(g, from, "idle") /\ loc' = [loc EXCEPT ![g] = Idle]
  BY DEF Return
<1>2. Idle \in Local /\ Idle.left = {}
  BY DEF Idle, Local
<1>3. QED  BY <1>1, <1>2, GoesWith

\* The steps that leave alone what InPlace and Fixed are about.
LEMMA NothingMoves ==
  ASSUME RebuildTypes, Placed, Held, Fixed, InPlace, Judged,
         UNCHANGED <<setting, nodes, sshHost, home, onNode, cState, there>>,
         NEW g \in Goroutines,
         \/ \E d \in NodeIds : RebuildRequest(g, d)
         \/ CheckSteady(g) \/ BeginRebuild(g) \/ SetupGone(g) \/ FailState(g)
         \/ FailHealth(g) \/ Connect(g) \/ RecreateDone(g) \/ Judge(g)
         \/ \E n \in Names : RecreateFail(g, n)
         \/ Return(g, "finish")
  PROVE  (Placed /\ Held /\ Fixed /\ InPlace /\ Judged)'
<1>1. pc[g] # "idle" => D(g) \in setting.nodes
  BY DEF Placed
<1>2. "migrate" \notin Ops => \A n \in loc[g].left : onNode[n] = D(g)
  BY DEF Fixed
<1>3. OneRebuild /\ "migrate" \notin Ops => JudgedAt(g)
  BY DEF Judged
<1>4. ASSUME NEW from, NEW to, Moves(g, from, to), Keeps(g),
             from \notin {"idle", "mark", "assign"},
             to \notin {"connect", "recreate", "judge", "finish"}
      PROVE  (Placed /\ Held /\ Fixed /\ InPlace /\ Judged)'
  <2>1. JudgedAt(g)'
    BY <1>4 DEF Moves, JudgedAt
  <2>2. QED  BY <1>1, <1>2, <1>4, <2>1, RecordsStay DEF Moves, Keeps
<1>5. ASSUME NEW from, Return(g, from), from \notin {"mark", "assign"}
      PROVE  (Placed /\ Held /\ Fixed /\ InPlace /\ Judged)'
  <2>1. Moves(g, from, "idle") /\ loc'[g].left = {}
    BY <1>5, Returns
  <2>2. JudgedAt(g)'
    BY <2>1 DEF Moves, JudgedAt
  <2>3. QED  BY <1>5, <2>1, <2>2, RecordsStay DEF Moves
<1>6. ASSUME NEW d \in NodeIds, RebuildRequest(g, d)
      PROVE  (Placed /\ Held /\ Fixed /\ InPlace /\ Judged)'
  <2> DEFINE l == [Idle EXCEPT !.node = d]
  <2>1. l \in Local /\ l.node = d /\ l.left = {}
    BY LocalChange
  <2>2. /\ Goto(g, "idle", "check") /\ loc' = [loc EXCEPT ![g] = l]
        /\ d \in setting.nodes
    BY <1>6 DEF RebuildRequest, Steady, Held
  <2> HIDE DEF l
  <2>3. Moves(g, "idle", "check") /\ loc'[g] = l
    BY <2>1, <2>2, GoesWith
  <2>4. JudgedAt(g)'
    BY <2>3 DEF Moves, JudgedAt
  <2>5. QED  BY <2>1, <2>2, <2>3, <2>4, RecordsStay DEF Moves, D
<1>7. CASE CheckSteady(g)
  BY <1>4, <1>5, <1>7, GoesOn DEF CheckSteady
<1>8. CASE BeginRebuild(g)
  BY <1>4, <1>8, GoesOn DEF BeginRebuild
<1>9. CASE SetupGone(g)
  BY <1>4, <1>9, GoesOn DEF SetupGone
<1>10. CASE FailState(g)
  BY <1>4, <1>10, GoesOn DEF FailState
<1>11. CASE FailHealth(g)
  BY <1>5, <1>11 DEF FailHealth
<1>12. CASE Connect(g)
  <2>1. ASSUME Goto(g, "connect", "judge"), UNCHANGED loc
        PROVE  (Placed /\ Held /\ Fixed /\ InPlace /\ Judged)'
    <3>1. Moves(g, "connect", "judge") /\ Keeps(g)
      BY <2>1, GoesOn
    <3>2. JudgedAt(g) => JudgedAt(g)'
      BY <2>1, <3>1 DEF Moves, Keeps, JudgedAt, On, D
    <3>3. QED
      BY <1>1, <1>2, <1>3, <3>1, <3>2, RecordsStay DEF Moves, Keeps
  <2>2. ASSUME Goto(g, "connect", "recreate"),
               loc' = [loc EXCEPT ![g].left = Lacking(D(g))]
        PROVE  (Placed /\ Held /\ Fixed /\ InPlace /\ Judged)'
    <3> DEFINE l == [loc[g] EXCEPT !.left = Lacking(D(g))]
    <3>1. /\ l \in Local /\ l.left = Lacking(D(g)) /\ l.node = D(g)
          /\ l.hasContainers = loc[g].hasContainers
      <4>1. Lacking(D(g)) \in SUBSET Names
        BY DEF Lacking
      <4>2. QED  BY <4>1, LocalChange DEF D
    <3>2. loc' = [loc EXCEPT ![g] = l]
      BY <2>2
    <3> HIDE DEF l
    <3>3. Moves(g, "connect", "recreate") /\ loc'[g] = l
      BY <2>2, <3>1, <3>2, GoesWith
    <3>4. D(g)' = D(g) /\ \A n \in loc'[g].left : onNode[n] = D(g)
      BY <3>1, <3>3 DEF D, Lacking
    <3>5. JudgedAt(g) => JudgedAt(g)'
      BY <3>1, <3>3, <3>4 DEF Moves, JudgedAt, On
    <3>6. QED  BY <1>1, <1>3, <3>3, <3>4, <3>5, RecordsStay DEF Moves
  <2>3. QED  BY <1>12, <2>1, <2>2 DEF Connect
<1>13. CASE RecreateDone(g)
  <2>1. Moves(g, "recreate", "judge") /\ Keeps(g) /\ UNCHANGED loc
    BY <1>13, GoesOn DEF RecreateDone
  <2>2. JudgedAt(g) => JudgedAt(g)'
    BY <2>1 DEF Moves, Keeps, JudgedAt, On, D
  <2>3. QED  BY <1>1, <1>2, <1>3, <2>1, <2>2, RecordsStay DEF Moves, Keeps
<1>14. CASE Judge(g)
  <2> DEFINE b == ~(loc[g].hasContainers /\ Lacking(D(g)) # {})
             l == [loc[g] EXCEPT !.allHealthy = b]
  <2>1. /\ l \in Local /\ l.allHealthy = b /\ l.node = D(g)
        /\ l.left = loc[g].left
    BY LocalChange DEF D
  <2>2. Goto(g, "judge", "finish") /\ loc' = [loc EXCEPT ![g] = l]
    BY <1>14 DEF Judge
  <2> HIDE DEF l
  <2>3. Moves(g, "judge", "finish") /\ loc'[g] = l
    BY <2>1, <2>2, GoesWith
  <2>4. D(g)' = D(g) /\ loc'[g].left = loc[g].left
    BY <2>1, <2>3 DEF D
  <2>5. ASSUME JudgedAt(g), NEW n \in On(g), cState[n] = "creating" PROVE ~b
    <3>1. loc[g].hasContainers
      BY <2>3, <2>5 DEF Moves, JudgedAt
    <3>2. n \in Lacking(D(g))
      BY <2>5 DEF Lacking, On
    <3>3. QED  BY <3>1, <3>2
  <2> HIDE DEF b
  <2>6. JudgedAt(g) => JudgedAt(g)'
    BY <2>1, <2>3, <2>4, <2>5 DEF Moves, JudgedAt, On
  <2>7. QED  BY <1>1, <1>2, <1>3, <2>3, <2>4, <2>6, RecordsStay DEF Moves
<1>15. ASSUME NEW n \in Names, RecreateFail(g, n)
       PROVE  (Placed /\ Held /\ Fixed /\ InPlace /\ Judged)'
  <2> DEFINE l == [loc[g] EXCEPT !.left = loc[g].left \ {n}]
  <2>1. /\ l \in Local /\ l.left = loc[g].left \ {n} /\ l.node = D(g)
        /\ l.hasContainers = loc[g].hasContainers
    <3>1. loc[g].left \ {n} \in SUBSET Names
      BY DEF RebuildTypes, Local
    <3>2. QED  BY <3>1, LocalChange DEF D
  <2>2. /\ loc' = [loc EXCEPT ![g] = l] /\ pc[g] = "recreate"
        /\ UNCHANGED pc
    BY <1>15 DEF RecreateFail
  <2> HIDE DEF l
  <2>3. loc'[g] = l /\ \A h \in Goroutines \ {g} : loc'[h] = loc[h]
    BY <2>1, <2>2, LocalChange
  <2>4. D(g)' = D(g) /\ loc'[g].left \subseteq loc[g].left
    BY <2>1, <2>3 DEF D
  <2>5. JudgedAt(g) => JudgedAt(g)'
    BY <2>1, <2>2, <2>3, <2>4 DEF JudgedAt, On
  <2>6. QED  BY <1>1, <1>2, <1>3, <2>2, <2>3, <2>4, <2>5, RecordsStay
<1>16. QED
  BY <1>5, <1>6, <1>7, <1>8, <1>9, <1>10, <1>11, <1>12, <1>13, <1>14, <1>15

\* When machines work, and a node is not moved to that of another, all that a
\* goroutine handles is on its node.
LEMMA OfItsNode ==
  ASSUME RebuildTypes, Placed, Held, Fixed, Undisturbed,
         NEW g \in Goroutines, pc[g] # "idle"
  PROVE  /\ \A n \in loc[g].left : onNode[n] = D(g)
         /\ \A n \in Homed(D(g)) :
              home[n] = sshHost[onNode[n]] => onNode[n] = D(g)
<1>1. /\ D(g) \in setting.nodes /\ \A n \in Names : onNode[n] \in setting.nodes
      /\ setting.nodes \subseteq NodeIds /\ loc[g].left \subseteq Names
  BY SettingsAssumption DEF RebuildTypes, Placed, Held, Local
<1>2. CASE \A d, e \in setting.nodes : d = e
  BY <1>1, <1>2 DEF Homed
<1>3. CASE "migrate" \notin Ops
  BY <1>1, <1>3 DEF Fixed, Homed
<1>4. QED  BY <1>2, <1>3 DEF Undisturbed

\* A node is moved: only its own containers, and if they are the only ones
\* their states, are in question.
LEMMA MigrateRequestKeeps ==
  ASSUME RebuildTypes, Placed, Held, Fixed, InPlace, Judged,
         NEW g \in Goroutines, NEW d \in NodeIds, NEW h \in Hosts,
         MigrateRequest(g, d, h)
  PROVE  (Placed /\ Held /\ Fixed /\ InPlace /\ Judged)'
<1> DEFINE l == [Idle EXCEPT !.node = d]
<1>1. l \in Local /\ l.node = d /\ l.left = {}
  BY LocalChange
<1>2. /\ Goto(g, "idle", "mark") /\ loc' = [loc EXCEPT ![g] = l]
      /\ d \in nodes /\ d \in setting.nodes /\ "migrate" \in Ops
      /\ UNCHANGED <<setting, nodes, instVars, there>>
  BY DEF MigrateRequest, Held, Goto
<1> HIDE DEF l
<1>3. Moves(g, "idle", "mark") /\ loc'[g] = l /\ D(g)' = d
  BY <1>1, <1>2, GoesWith DEF D
<1>4. Ops' = Ops /\ Undisturbed' = Undisturbed
  BY <1>2 DEF Ops, Undisturbed, Faults, OneRebuild
<1>5. Placed'
  BY <1>2, <1>3 DEF Placed, Moves, D
<1>6. Held'
  BY <1>2, <1>4 DEF Held, instVars
<1>7. Fixed' /\ Judged'
  BY <1>2, <1>4 DEF Fixed, Judged
<1>8. ASSUME Undisturbed, NEW n \in Names PROVE onNode[n] = d
  BY <1>2, <1>8 DEF Undisturbed, Held
<1>9. ASSUME Undisturbed, NEW n \in Names PROVE Waits(n)'
  BY <1>2, <1>3, <1>8, <1>9 DEF Waits, IsAt, Moves, instVars
<1>10. InPlace'
  BY <1>2, <1>4, <1>9 DEF InPlace, instVars
<1>11. QED  BY <1>5, <1>6, <1>7, <1>10

LEMMA MigrateMarkKeeps ==
  ASSUME RebuildTypes, Placed, Held, Fixed, InPlace, Judged,
         NEW g \in Goroutines, MigrateMark(g)
  PROVE  (Placed /\ Held /\ Fixed /\ InPlace /\ Judged)'
<1>1. /\ Moves(g, "mark", "check") /\ Keeps(g)
      /\ UNCHANGED <<setting, nodes, sshHost, home, onNode, there, loc>>
      /\ cState' = [n \in Names |-> IF onNode[n] = D(g) THEN "creating"
                                    ELSE cState[n]]
  BY GoesOn DEF MigrateMark, nodeVars, Goto
<1>2. Ops' = Ops /\ Undisturbed' = Undisturbed /\ \A h \in Goroutines : D(h)' = D(h)
  BY <1>1 DEF Ops, Undisturbed, Faults, OneRebuild, D
<1>3. Placed'
  BY <1>1, <1>2 DEF Placed, Moves
<1>4. Held'
  BY <1>1, <1>2 DEF Held
<1>5. Fixed'
  BY <1>1, <1>2 DEF Fixed
<1>6. Judged'
  <2>1. ASSUME OneRebuild, NEW h \in Goroutines PROVE JudgedAt(h)'
    BY <1>1, <2>1 DEF OneRebuild, Moves, JudgedAt
  <2>2. QED  BY <1>2, <2>1 DEF Judged
<1>7. ASSUME NEW n \in Names, cState'[n] = "running"
      PROVE  /\ cState[n] = "running" /\ onNode[n] # D(g)
             /\ Waits(n) => Waits(n)'
             /\ Emptied(n) => Emptied(n)'
  <2>1. cState[n] = "running" /\ onNode[n] # D(g)
    BY <1>1, <1>7
  <2>2. QED  BY <1>1, <1>2, <2>1 DEF Waits, Emptied, IsAt, Moves
<1>8. InPlace'
  BY <1>1, <1>2, <1>7 DEF InPlace
<1>9. QED  BY <1>3, <1>4, <1>5, <1>6, <1>8

LEMMA RemoveNodeKeeps ==
  ASSUME RebuildTypes, Placed, Held, Fixed, InPlace, Judged,
         NEW d \in NodeIds, RemoveNode(d)
  PROVE  (Placed /\ Held /\ Fixed /\ InPlace /\ Judged)'
<1>1. /\ UNCHANGED <<setting, sshHost, home, onNode, cState, there, pc, loc>>
      /\ nodes' = nodes \ {d} /\ \A n \in Names : onNode[n] # d
      /\ "remove" \in Ops
  BY DEF RemoveNode, instVars
<1>2. Ops' = Ops /\ Undisturbed' = Undisturbed
  BY <1>1 DEF Ops, Undisturbed, Faults, OneRebuild
<1>3. Placed' /\ Held' /\ Fixed'
  BY <1>1, <1>2 DEF Placed, Held, Fixed, D
<1>4. InPlace'
  BY <1>1, <1>2 DEF InPlace, Waits, Emptied, IsAt, D
<1>5. Judged'
  BY <1>1, <1>2 DEF Judged, JudgedAt, On, D
<1>6. QED  BY <1>3, <1>4, <1>5

\* The machine is emptied: whose host it is waits to be assigned.
LEMMA SetupKeeps ==
  ASSUME RebuildTypes, Placed, Held, Fixed, InPlace, Judged,
         NEW g \in Goroutines, Setup(g)
  PROVE  (Placed /\ Held /\ Fixed /\ InPlace /\ Judged)'
<1>1. PICK to \in {"assign", "failState"} : Goto(g, "setup", to)
  BY DEF Setup
<1>2. /\ Moves(g, "setup", to) /\ Keeps(g)
      /\ UNCHANGED <<setting, nodes, sshHost, home, onNode, cState, loc>>
      /\ \A h \in Goroutines : D(h)' = D(h)
  BY <1>1, GoesOn DEF Setup, nodeVars, instVars, Goto, D
<1>3. Ops' = Ops /\ Undisturbed' = Undisturbed
  BY <1>2 DEF Ops, Undisturbed, Faults, OneRebuild
<1>4. Placed' /\ Held' /\ Fixed'
  BY <1>2, <1>3 DEF Placed, Held, Fixed, Moves
<1>5. Judged'
  <2>1. ASSUME NEW h \in Goroutines, JudgedAt(h) PROVE JudgedAt(h)'
    BY <1>2, <2>1 DEF Moves, JudgedAt, On
  <2>2. QED  BY <1>2, <1>3, <2>1 DEF Judged
<1>6. ASSUME Undisturbed, NEW n \in Names
      PROVE  /\ Waits(n) => Waits(n)'
             /\ Emptied(n) => Emptied(n)'
             /\ home[n] = sshHost[onNode[n]] /\ n \in there[home[n]]
                  => n \in there'[home[n]] \/ Emptied(n)'
  <2>1. (Waits(n) => Waits(n)') /\ (Emptied(n) => Emptied(n)')
    BY <1>2 DEF Waits, Emptied, IsAt, Moves
  <2>2. /\ Goto(g, "setup", "assign") /\ UNCHANGED loc
        /\ there' = [there EXCEPT ![sshHost[D(g)]] = {}]
    BY <1>6 DEF Setup, MachineMayFail, Undisturbed
  <2>3. to = "assign"
    BY <1>2, <2>2, GoesOn DEF Moves
  <2>4. CASE home[n] = sshHost[onNode[n]] /\ home[n] = sshHost[D(g)]
    <3>1. onNode[n] = D(g)
      BY <1>2, <1>6, <2>4, OfItsNode DEF Homed, Moves
    <3>2. QED  BY <1>2, <2>1, <2>3, <3>1 DEF Emptied, IsAt, Moves
  <2>5. CASE home[n] # sshHost[D(g)]
    BY <2>1, <2>2, <2>5 DEF RebuildTypes
  <2>6. QED  BY <2>1, <2>4, <2>5
<1>7. InPlace'
  BY <1>2, <1>3, <1>6 DEF InPlace
<1>8. QED  BY <1>4, <1>5, <1>7

\* The containers of the node's host are assigned to it and marked.
LEMMA AssignKeeps ==
  ASSUME RebuildTypes, Placed, Held, Fixed, InPlace, Judged,
         NEW g \in Goroutines, Assign(g)
  PROVE  (Placed /\ Held /\ Fixed /\ InPlace /\ Judged)'
<1> DEFINE b == Homed(D(g)) # {}
           l == [loc[g] EXCEPT !.hasContainers = b]
<1>1. /\ l \in Local /\ l.hasContainers = b /\ l.node = D(g)
      /\ l.left = loc[g].left
  BY LocalChange DEF D
<1>2. Goto(g, "assign", "connect") /\ loc' = [loc EXCEPT ![g] = l]
  BY DEF Assign
<1> HIDE DEF l, b
<1>3. /\ Moves(g, "assign", "connect") /\ loc'[g] = l
      /\ \A h \in Goroutines : D(h)' = D(h) /\ loc'[h].left = loc[h].left
  <2>1. Moves(g, "assign", "connect") /\ loc'[g] = l
    BY <1>1, <1>2, GoesWith
  <2>2. QED  BY <1>1, <2>1 DEF Moves, D
<1>4. /\ UNCHANGED <<setting, nodes, sshHost, home, there>>
      /\ onNode' = [n \in Names |-> IF n \in Homed(D(g)) THEN D(g)
                                    ELSE onNode[n]]
      /\ cState' = [n \in Names |-> IF n \in Homed(D(g)) THEN "creating"
                                    ELSE cState[n]]
  BY DEF Assign, nodeVars, Goto
<1>5. Ops' = Ops /\ Undisturbed' = Undisturbed
  BY <1>4 DEF Ops, Undisturbed, Faults, OneRebuild
<1>6. D(g) \in setting.nodes /\ D(g) \in NodeIds
  BY <1>3, NodeOfBusy DEF Moves
<1>7. Placed'
  BY <1>3, <1>4 DEF Placed, Moves
<1>8. Held'
  BY <1>4, <1>5, <1>6 DEF Held
<1>9. ASSUME "migrate" \notin Ops
      PROVE  onNode' = onNode /\ \A n \in Names : onNode[n] = D(g) <=> n \in Homed(D(g))
  <2>1. ASSUME NEW n \in Names PROVE onNode[n] = D(g) <=> n \in Homed(D(g))
    <3>1. onNode[n] \in NodeIds /\ home[n] = sshHost[onNode[n]]
      BY <1>9 DEF Fixed, RebuildTypes
    <3>2. sshHost[onNode[n]] = sshHost[D(g)] => onNode[n] = D(g)
      BY <1>6, <1>9, <3>1 DEF Fixed
    <3>3. QED  BY <3>1, <3>2 DEF Homed
  <2>2. QED  BY <1>4, <2>1 DEF RebuildTypes
<1>10. Fixed'
  BY <1>3, <1>4, <1>5, <1>9 DEF Fixed
<1>11. Judged'
  <2>1. ASSUME OneRebuild, "migrate" \notin Ops, NEW h \in Goroutines
        PROVE  JudgedAt(h)'
    <3>1. h = g
      BY <2>1 DEF OneRebuild
    <3>2. On(g)' # {} => b
      BY <1>3, <1>9, <2>1 DEF On, b
    <3>3. QED  BY <1>1, <1>3, <3>1, <3>2 DEF JudgedAt, Moves
  <2>2. QED  BY <1>5, <2>1 DEF Judged, OneRebuild
<1>12. ASSUME Undisturbed, NEW n \in Names, cState'[n] = "running",
              home[n] = sshHost[onNode[n]] \/ Waits(n)
       PROVE  /\ cState[n] = "running" /\ onNode'[n] = onNode[n]
              /\ Waits(n) => Waits(n)'
              /\ home[n] = sshHost[onNode[n]] /\ Emptied(n) => Emptied(n)'
  <2>1. n \notin Homed(D(g)) /\ cState[n] = "running" /\ onNode'[n] = onNode[n]
    BY <1>4, <1>12
  <2>2. Waits(n) => Waits(n)'
    BY <1>3, <2>1 DEF Waits, IsAt, Moves
  <2>3. home[n] = sshHost[onNode[n]] => onNode[n] # D(g)
    BY <2>1 DEF Homed
  <2>4. home[n] = sshHost[onNode[n]] /\ Emptied(n) => Emptied(n)'
    BY <1>3, <2>1, <2>3 DEF Emptied, IsAt, Moves
  <2>5. QED  BY <2>1, <2>2, <2>4
<1>13. ASSUME Undisturbed, NEW n \in Names PROVE onNode'[n] \in nodes
  <2>1. onNode[n] \in nodes
    BY <1>13 DEF InPlace
  <2>2. onNode'[n] = onNode[n]
    <3>1. CASE "migrate" \notin Ops
      BY <1>9, <3>1
    <3>2. CASE \A d, e \in setting.nodes : d = e
      BY <1>4, <1>6, <3>2 DEF Held
    <3>3. QED  BY <1>13, <3>1, <3>2 DEF Undisturbed
  <2>3. QED  BY <2>1, <2>2
<1>14. InPlace'
  <2> SUFFICES ASSUME Undisturbed, NEW n \in Names, cState'[n] = "running"
               PROVE  \/ Waits(n)'
                      \/ /\ home'[n] = sshHost'[onNode'[n]]
                         /\ n \in there'[home'[n]] \/ Emptied(n)'
    BY <1>4, <1>5, <1>13 DEF InPlace
  <2>1. cState[n] = "running"
    BY <1>4
  <2>2. \/ Waits(n)
        \/ home[n] = sshHost[onNode[n]] /\ (n \in there[home[n]] \/ Emptied(n))
    BY <2>1 DEF InPlace
  <2>3. QED  BY <1>4, <1>12, <2>2
<1>15. QED  BY <1>7, <1>8, <1>10, <1>11, <1>14

\* A container runs again, on its node.
LEMMA RecreateKeeps ==
  ASSUME RebuildTypes, Placed, Held, Fixed, InPlace, Judged,
         NEW g \in Goroutines, NEW n \in Names, RecreateOK(g, n)
  PROVE  (Placed /\ Held /\ Fixed /\ InPlace /\ Judged)'
<1> DEFINE l == [loc[g] EXCEPT !.left = loc[g].left \ {n}]
<1>1. /\ l \in Local /\ l.left = loc[g].left \ {n} /\ l.node = D(g)
      /\ l.hasContainers = loc[g].hasContainers
  <2>1. loc[g].left \ {n} \in SUBSET Names
    BY DEF RebuildTypes, Local
  <2>2. QED  BY <2>1, LocalChange DEF D
<1>2. /\ loc' = [loc EXCEPT ![g] = l] /\ pc[g] = "recreate" /\ n \in loc[g].left
      /\ UNCHANGED <<setting, nodes, sshHost, onNode, pc>>
      /\ there' = [there EXCEPT ![sshHost[D(g)]] = @ \cup {n}]
      /\ cState' = [cState EXCEPT ![n] = "running"]
      /\ home' = [home EXCEPT ![n] = IF D(g) \in nodes THEN sshHost[D(g)] ELSE @]
  BY DEF RecreateOK, nodeVars
<1> HIDE DEF l
<1>3. loc'[g] = l /\ \A h \in Goroutines \ {g} : loc'[h] = loc[h]
  BY <1>1, <1>2, LocalChange
<1>4. /\ \A h \in Goroutines : D(h)' = D(h) /\ loc'[h].left \subseteq loc[h].left
      /\ \A h \in Goroutines : loc'[h].hasContainers = loc[h].hasContainers
  BY <1>1, <1>3 DEF D
<1>5. Ops' = Ops /\ Undisturbed' = Undisturbed
  BY <1>2 DEF Ops, Undisturbed, Faults, OneRebuild
<1>6. sshHost[D(g)] \in Hosts
  BY <1>2, NodeOfBusy
<1>7. /\ \A m \in Names \ {n} : home'[m] = home[m] /\ cState'[m] = cState[m]
      /\ home'[n] = IF D(g) \in nodes THEN sshHost[D(g)] ELSE home[n]
      /\ \A h \in Hosts : there[h] \subseteq there'[h]
      /\ n \in there'[sshHost[D(g)]]
  BY <1>2, <1>6 DEF RebuildTypes
<1>8. Placed'
  BY <1>2, <1>4 DEF Placed
<1>9. Held'
  BY <1>2, <1>5 DEF Held
<1>10. Fixed'
  <2>1. ASSUME "migrate" \notin Ops, NEW m \in Names
        PROVE  home'[m] = sshHost[onNode[m]]
    BY <1>2, <1>7, <2>1 DEF Fixed
  <2>2. QED  BY <1>2, <1>4, <1>5, <2>1 DEF Fixed
<1>11. Judged'
  <2>1. ASSUME OneRebuild, "migrate" \notin Ops, NEW h \in Goroutines
        PROVE  JudgedAt(h)'
    <3>1. h = g /\ JudgedAt(h)
      BY <2>1 DEF OneRebuild, Judged
    <3>2. QED  BY <1>2, <1>4, <3>1 DEF JudgedAt, On
  <2>2. QED  BY <1>5, <2>1 DEF Judged, OneRebuild
<1>12. \A m \in Names : (Waits(m) => Waits(m)') /\ (Emptied(m) => Emptied(m)')
  BY <1>2, <1>4 DEF Waits, Emptied, IsAt
<1>13. ASSUME Undisturbed
       PROVE  home'[n] = sshHost[onNode[n]] /\ n \in there'[home'[n]]
  <2>1. onNode[n] = D(g)
    BY <1>2, <1>13, OfItsNode
  <2>2. onNode[n] \in nodes
    BY <1>13 DEF InPlace
  <2>3. QED  BY <1>7, <2>1, <2>2
<1>14. ASSUME Undisturbed, NEW m \in Names \ {n}, cState'[m] = "running"
       PROVE  \/ Waits(m)'
              \/ /\ home'[m] = sshHost'[onNode'[m]]
                 /\ m \in there'[home'[m]] \/ Emptied(m)'
  <2>1. /\ cState[m] = "running" /\ home'[m] = home[m] /\ home[m] \in Hosts
        /\ sshHost' = sshHost /\ onNode' = onNode
    BY <1>2, <1>7, <1>14 DEF RebuildTypes
  <2>2. \/ Waits(m)
        \/ home[m] = sshHost[onNode[m]] /\ (m \in there[home[m]] \/ Emptied(m))
    BY <1>14, <2>1 DEF InPlace
  <2>3. QED  BY <1>7, <1>12, <2>1, <2>2
<1>15. InPlace'
  BY <1>2, <1>5, <1>13, <1>14 DEF InPlace
<1>16. QED  BY <1>8, <1>9, <1>10, <1>11, <1>15

\* The process starts again: after a crash, or when a rebuild ends whose node
\* is gone.
LEMMA ReloadKeeps ==
  ASSUME RebuildTypes, Placed, Held, Fixed, InPlace, Judged, Reloaded,
         \/ "crash" \in Faults
         \/ \E g \in Goroutines : pc[g] = "finish" /\ D(g) \notin nodes
  PROVE  (Placed /\ Held /\ Fixed /\ InPlace /\ Judged)'
<1>1. /\ UNCHANGED <<setting, nodes, sshHost, home, onNode, cState, there>>
      /\ \A g \in Goroutines : pc'[g] = "idle" /\ loc'[g].left = {}
  BY DEF Reloaded, instVars, Idle
<1>2. Ops' = Ops /\ Undisturbed' = Undisturbed
  BY <1>1 DEF Ops, Undisturbed, Faults, OneRebuild
<1>3. Placed' /\ Held' /\ Fixed' /\ Judged'
  BY <1>1, <1>2 DEF Placed, Held, Fixed, Judged, JudgedAt
<1>4. ASSUME Undisturbed, NEW n \in Names, cState[n] = "running"
      PROVE  home[n] = sshHost[onNode[n]] /\ n \in there[home[n]]
  <2>1. PICK g \in Goroutines : pc[g] = "finish" /\ D(g) \notin nodes
    BY <1>4 DEF Undisturbed
  <2>2. D(g) \in setting.nodes /\ onNode[n] \in setting.nodes /\ onNode[n] \in nodes
    BY <1>4, <2>1 DEF Placed, Held, InPlace
  <2>3. "remove" \in Ops /\ OneRebuild
    BY <1>4, <2>1, <2>2 DEF Undisturbed, Held
  <2>4. ~Waits(n) /\ ~Emptied(n)
    BY <2>1, <2>3 DEF OneRebuild, Waits, Emptied, IsAt
  <2>5. QED  BY <1>4, <2>4 DEF InPlace
<1>5. InPlace'
  BY <1>1, <1>2, <1>4 DEF InPlace
<1>6. QED  BY <1>3, <1>5

\* The checks change what is known of a container and of a node.
LEMMA ChecksKeep ==
  ASSUME RebuildTypes, Placed, Held, Fixed, InPlace, Judged,
         UNCHANGED <<setting, nodes, sshHost, home, onNode, cState, there, pc, loc>>
  PROVE  (Placed /\ Held /\ Fixed /\ InPlace /\ Judged)'
<1>1. Ops' = Ops /\ Undisturbed' = Undisturbed
  BY DEF Ops, Undisturbed, Faults, OneRebuild
<1>2. Placed' /\ Held' /\ Fixed'
  BY <1>1 DEF Placed, Held, Fixed, D
<1>3. InPlace'
  BY <1>1 DEF InPlace, Waits, Emptied, IsAt, D
<1>4. Judged'
  BY <1>1 DEF Judged, JudgedAt, On, D
<1>5. QED  BY <1>2, <1>3, <1>4

LEMMA RebuildInitial == RebuildInit => RebuildIInv
<1> SUFFICES ASSUME RebuildInit PROVE RebuildIInv
  OBVIOUS
<1>1. setting.nodes \subseteq NodeIds /\ nodes = setting.nodes
  BY SettingsAssumption DEF RebuildInit
<1>2. RebuildTypes
  BY <1>1 DEF RebuildInit, RebuildTypes, Local, Idle, PCs
<1>3. Placed /\ Held /\ Judged
  BY <1>1 DEF RebuildInit, Placed, Held, Judged, JudgedAt
<1>4. Fixed
  BY DEF RebuildInit, Fixed, Idle
<1>5. InPlace
  <2>1. ASSUME NEW n \in Names
        PROVE  /\ onNode[n] \in nodes /\ home[n] = sshHost[onNode[n]]
               /\ n \in there[home[n]]
    <3>1. onNode[n] \in nodes /\ home[n] = sshHost[onNode[n]]
      BY DEF RebuildInit
    <3>2. home[n] \in Hosts
      BY <1>1, <3>1 DEF RebuildInit
    <3>3. QED  BY <3>1, <3>2 DEF RebuildInit
  <2>2. QED  BY <2>1 DEF InPlace
<1>6. QED  BY <1>2, <1>3, <1>4, <1>5 DEF RebuildIInv

LEMMA RebuildKeeps == RebuildIInv /\ [RebuildNext]_rebuildVars => RebuildIInv'
<1> SUFFICES ASSUME RebuildIInv, [RebuildNext]_rebuildVars PROVE RebuildIInv'
  OBVIOUS
<1>1. RebuildTypes /\ Placed /\ Held /\ Fixed /\ InPlace /\ Judged
  BY DEF RebuildIInv
<1>2. RebuildTypes'
  <2>1. CASE RebuildNext
    BY <1>1, <2>1, RebuildTypesKept
  <2>2. CASE UNCHANGED rebuildVars
    BY <1>1, <2>2 DEF rebuildVars, nodeVars, instVars, RebuildTypes
  <2>3. QED  BY <2>1, <2>2
<1>3. ASSUME NEW g \in Goroutines, RebuildStep(g)
      PROVE  (Placed /\ Held /\ Fixed /\ InPlace /\ Judged)'
  <2>1. CASE MigrateMark(g)
    BY <1>1, <2>1, MigrateMarkKeeps
  <2>2. CASE Setup(g)
    BY <1>1, <2>2, SetupKeeps
  <2>3. CASE Assign(g)
    BY <1>1, <2>3, AssignKeeps
  <2>4. ASSUME NEW n \in Names, RecreateOK(g, n)
        PROVE  (Placed /\ Held /\ Fixed /\ InPlace /\ Judged)'
    BY <1>1, <2>4, RecreateKeeps
  <2>5. CASE \/ CheckSteady(g) \/ SetupGone(g) \/ Connect(g)
             \/ RecreateDone(g) \/ Judge(g)
    <3>1. UNCHANGED <<setting, nodes, sshHost, home, onNode, cState, there>>
      BY <2>5 DEF CheckSteady, SetupGone, Connect, RecreateDone, Judge, Goto,
         Return, nodeVars, instVars
    <3>2. QED  BY <1>1, <2>5, <3>1, NothingMoves
  <2>6. CASE BeginRebuild(g) \/ FailState(g) \/ FailHealth(g)
    <3>1. UNCHANGED <<setting, nodes, sshHost, home, onNode, cState, there>>
      BY <2>6 DEF BeginRebuild, FailState, FailHealth, SetNode, Goto, Return,
         instVars
    <3>2. QED  BY <1>1, <2>6, <3>1, NothingMoves
  <2>7. ASSUME NEW n \in Names, RecreateFail(g, n)
        PROVE  (Placed /\ Held /\ Fixed /\ InPlace /\ Judged)'
    <3>1. UNCHANGED <<setting, nodes, sshHost, home, onNode, cState, there>>
      BY <2>7 DEF RecreateFail, nodeVars, instVars
    <3>2. QED  BY <1>1, <2>7, <3>1, NothingMoves
  <2>8. CASE Finish(g)
    <3>1. CASE Return(g, "finish") /\ SetNode(D(g), "active",
                 IF loc[g].allHealthy THEN nHealth[D(g)] ELSE "unhealthy")
               /\ UNCHANGED <<instVars, there>>
      <4>1. UNCHANGED <<setting, nodes, sshHost, home, onNode, cState, there>>
        BY <3>1 DEF SetNode, Goto, Return, instVars
      <4>2. QED  BY <1>1, <3>1, <4>1, NothingMoves
    <3>2. CASE pc[g] = "finish" /\ D(g) \notin nodes /\ Reloaded
      BY <1>1, <3>2, ReloadKeeps
    <3>3. QED  BY <2>8, <3>1, <3>2 DEF Finish
  <2>9. QED
    BY <1>3, <2>1, <2>2, <2>3, <2>4, <2>5, <2>6, <2>7, <2>8 DEF RebuildStep
<1>4. ASSUME NEW g \in Goroutines, NEW d \in NodeIds, RebuildRequest(g, d)
      PROVE  (Placed /\ Held /\ Fixed /\ InPlace /\ Judged)'
  <2>1. UNCHANGED <<setting, nodes, sshHost, home, onNode, cState, there>>
    BY <1>4 DEF RebuildRequest, Goto, nodeVars, instVars
  <2>2. QED  BY <1>1, <1>4, <2>1, NothingMoves
<1>5. ASSUME NEW g \in Goroutines, NEW d \in NodeIds, NEW h \in Hosts,
             MigrateRequest(g, d, h)
      PROVE  (Placed /\ Held /\ Fixed /\ InPlace /\ Judged)'
  BY <1>1, <1>5, MigrateRequestKeeps
<1>6. ASSUME NEW d \in NodeIds, RemoveNode(d)
      PROVE  (Placed /\ Held /\ Fixed /\ InPlace /\ Judged)'
  BY <1>1, <1>6, RemoveNodeKeeps
<1>7. ASSUME NEW d \in NodeIds, checkNodeHealth(d)
      PROVE  (Placed /\ Held /\ Fixed /\ InPlace /\ Judged)'
  BY <1>1, <1>7, ChecksKeep DEF checkNodeHealth, instVars
<1>8. ASSUME NEW n \in Names, checkContainer(n)
      PROVE  (Placed /\ Held /\ Fixed /\ InPlace /\ Judged)'
  BY <1>1, <1>8, ChecksKeep DEF checkContainer, nodeVars
<1>9. ASSUME CrashProcess
      PROVE  (Placed /\ Held /\ Fixed /\ InPlace /\ Judged)'
  BY <1>1, <1>9, ReloadKeeps DEF CrashProcess
<1>10. ASSUME UNCHANGED rebuildVars
       PROVE  (Placed /\ Held /\ Fixed /\ InPlace /\ Judged)'
  BY <1>1, <1>10, ChecksKeep DEF rebuildVars, nodeVars, instVars
<1>11. (Placed /\ Held /\ Fixed /\ InPlace /\ Judged)'
  BY <1>3, <1>4, <1>5, <1>6, <1>7, <1>8, <1>9, <1>10 DEF RebuildNext
<1>12. QED  BY <1>2, <1>11 DEF RebuildIInv

LEMMA RebuildInvariant == RebuildSpec => []RebuildIInv
BY RebuildInitial, RebuildKeeps, PTL DEF RebuildSpec

\* When no machine fails and nobody is busy with a node, the containers that
\* are reported running on it are in its LXD - rebuildNode,
\* recreateAllContainersOnNode, handleNodeMigrate.
THEOREM RunningAreThere == RebuildSpec => []RebuildInv
<1>1. ASSUME RebuildIInv PROVE RebuildInv
  <2>1. RebuildTypes /\ InPlace
    BY <1>1 DEF RebuildIInv
  <2>2. ASSUME Undisturbed, NEW n \in Names, Quiet(onNode[n]), cState[n] = "running"
        PROVE  n \in there[sshHost[onNode[n]]]
    <3>1. ~Waits(n) /\ ~Emptied(n)
      BY <2>2 DEF Quiet, Waits, Emptied, IsAt
    <3>2. QED  BY <2>1, <2>2, <3>1 DEF InPlace
  <2>3. QED  BY <2>1, <2>2 DEF RebuildInv, RunningIsThere
<1>2. QED  BY <1>1, RebuildInvariant, PTL

\* While one rebuild is under way its node is marked so, and the checks leave
\* it alone: a process that starts again finds the mark.
Marked ==
  OneRebuild =>
    \A g \in Goroutines :
       (/\ pc[g] \in {"setup", "assign", "connect", "recreate", "judge", "finish"}
        /\ D(g) \in nodes)
         => nState[D(g)] = "rebuilding"
LEMMA MarkedKept ==
  ASSUME RebuildTypes, Placed, Held, Marked, [RebuildNext]_rebuildVars
  PROVE  Marked'
<1> SUFFICES ASSUME OneRebuild, NEW g \in Goroutines,
                    pc'[g] \in {"setup", "assign", "connect", "recreate",
                                "judge", "finish"},
                    D(g)' \in nodes'
             PROVE  nState'[D(g)'] = "rebuilding"
  BY DEF Marked, OneRebuild, D
<1>1. \A h \in Goroutines : h = g
  BY DEF OneRebuild
<1>2. pc[g] # "idle" => D(g) \in NodeIds
  BY NodeOfBusy
\* The mark is there already.
<1>3. ASSUME pc[g] \in {"setup", "assign", "connect", "recreate", "judge"},
             D(g)' = D(g), nodes' \subseteq nodes,
             D(g) \in nodes => nState'[D(g)] = nState[D(g)]
      PROVE  nState'[D(g)'] = "rebuilding"
  BY <1>3 DEF Marked
<1>4. ASSUME UNCHANGED <<pc, loc>>, nodes' \subseteq nodes,
             \A d \in nodes : nState[d] = "rebuilding" => nState'[d] = nState[d]
      PROVE  nState'[D(g)'] = "rebuilding"
  BY <1>4 DEF Marked, D
<1>5. ASSUME Reloaded PROVE FALSE
  BY <1>5 DEF Reloaded
<1>6. ASSUME NEW to, to \notin {"setup", "assign", "connect", "recreate",
                                "judge", "finish"},
             pc' = [pc EXCEPT ![g] = to]
      PROVE  FALSE
  BY <1>6 DEF RebuildTypes
<1>7. ASSUME NEW h \in Goroutines, NEW d \in NodeIds, RebuildRequest(h, d)
      PROVE  FALSE
  BY <1>1, <1>6, <1>7 DEF RebuildRequest, Goto
<1>8. ASSUME NEW h \in Goroutines, NEW d \in NodeIds, NEW o \in Hosts,
             MigrateRequest(h, d, o)
      PROVE  FALSE
  BY <1>1, <1>6, <1>8 DEF MigrateRequest, Goto
<1>9. ASSUME MigrateMark(g) \/ FailState(g) \/ FailHealth(g) PROVE FALSE
  BY <1>6, <1>9 DEF MigrateMark, FailState, FailHealth, Goto, Return
<1>10. ASSUME CheckSteady(g) PROVE FALSE
  BY <1>6, <1>10 DEF CheckSteady, Goto, Return
<1>11. ASSUME Finish(g) PROVE FALSE
  BY <1>5, <1>6, <1>11 DEF Finish, Goto, Return
<1>12. CASE BeginRebuild(g)
  <2>1. /\ D(g)' = D(g) /\ D(g) \in NodeIds /\ D(g) \in nodes
        /\ SetNode(D(g), "rebuilding", "")
    BY <1>2, <1>12 DEF BeginRebuild, Goto, SetNode, D
  <2>2. QED  BY <2>1 DEF SetNode, RebuildTypes
<1>13. CASE Setup(g) \/ SetupGone(g) \/ RecreateDone(g)
  <2>1. pc[g] \in {"setup", "recreate"} /\ UNCHANGED <<nodes, nState, loc>>
    BY <1>13 DEF Setup, SetupGone, RecreateDone, Goto, nodeVars
  <2>2. QED  BY <1>3, <2>1 DEF D
<1>14. CASE Assign(g) \/ Judge(g)
  <2>1. pc[g] \in {"assign", "judge"} /\ UNCHANGED <<nodes, nState>>
    BY <1>14 DEF Assign, Judge, Goto, nodeVars
  <2>2. \E b \in BOOLEAN :
           \/ loc' = [loc EXCEPT ![g] = [loc[g] EXCEPT !.hasContainers = b]]
           \/ loc' = [loc EXCEPT ![g] = [loc[g] EXCEPT !.allHealthy = b]]
    BY <1>14 DEF Assign, Judge
  <2>3. loc'[g].node = loc[g].node
    BY <2>2 DEF RebuildTypes, Local
  <2>4. QED  BY <1>3, <2>1, <2>3 DEF D
<1>15. CASE Connect(g)
  <2>1. /\ pc[g] = "connect" /\ UNCHANGED <<nodes, nState>>
        /\ loc'[g].node = loc[g].node
    BY <1>15 DEF Connect, Goto, nodeVars, RebuildTypes, Local
  <2>2. QED  BY <1>3, <2>1 DEF D
<1>16. ASSUME NEW n \in Names, RecreateOK(g, n) \/ RecreateFail(g, n)
       PROVE  nState'[D(g)'] = "rebuilding"
  <2>1. /\ pc[g] = "recreate" /\ UNCHANGED <<nodes, nState>>
        /\ loc'[g].node = loc[g].node
    BY <1>1, <1>16 DEF RecreateOK, RecreateFail, nodeVars, RebuildTypes, Local
  <2>2. QED  BY <1>3, <2>1 DEF D
<1>17. ASSUME NEW d \in NodeIds, RemoveNode(d)
       PROVE  nState'[D(g)'] = "rebuilding"
  BY <1>4, <1>17 DEF RemoveNode
<1>18. ASSUME NEW d \in NodeIds, checkNodeHealth(d)
       PROVE  nState'[D(g)'] = "rebuilding"
  BY <1>4, <1>18 DEF checkNodeHealth
<1>19. ASSUME NEW n \in Names, checkContainer(n)
       PROVE  nState'[D(g)'] = "rebuilding"
  BY <1>4, <1>19 DEF checkContainer, nodeVars
<1>20. ~CrashProcess
  BY <1>5 DEF CrashProcess
<1>21. CASE UNCHANGED rebuildVars
  BY <1>4, <1>21 DEF rebuildVars, nodeVars
<1>22. CASE RebuildNext
  <2>1. CASE RebuildStep(g)
    BY <1>9, <1>10, <1>11, <1>12, <1>13, <1>14, <1>15, <1>16, <2>1 DEF
       RebuildStep
  <2>2. QED
    BY <1>1, <1>7, <1>8, <1>17, <1>18, <1>19, <1>20, <1>22, <2>1 DEF RebuildNext
<1>23. QED  BY <1>21, <1>22

\* "active with health=unhealthy (some failed)" (doc/api.md:530, 549): a
\* rebuild that ends while containers of the node still wait to be created
\* says so, whatever fails, crashes or is checked meanwhile - rebuildNode,
\* loadNodes.
THEOREM RebuildsReport == RebuildSpec => RebuildReports
<1> DEFINE I == RebuildIInv /\ Marked
           Waiting(g) ==
             /\ OneRebuild /\ "migrate" \notin Ops
             /\ pc[g] = "finish" /\ pc'[g] = "idle" /\ D(g) \in nodes
             /\ \E n \in Names : onNode[n] = D(g) /\ cState[n] = "creating"
           Reports == \A g \in Goroutines :
                        Waiting(g) => nHealth'[D(g)] = "unhealthy"
<1>1. RebuildInit => I
  <2>1. RebuildInit => Marked
    BY DEF RebuildInit, Marked
  <2>2. QED  BY <2>1, RebuildInitial
<1>2. I /\ [RebuildNext]_rebuildVars => I'
  BY RebuildKeeps, MarkedKept DEF RebuildIInv
<1>3. ASSUME I, [RebuildNext]_rebuildVars, NEW g \in Goroutines, Waiting(g)
      PROVE  nHealth'[D(g)] = "unhealthy"
  <2>1. RebuildTypes /\ Judged /\ Marked
    BY <1>3 DEF RebuildIInv
  <2>2. ~loc[g].allHealthy /\ nState[D(g)] = "rebuilding" /\ D(g) \in NodeIds
    BY <1>3, <2>1 DEF Judged, JudgedAt, On, Marked, RebuildTypes
  <2>3. CASE Finish(g)
    BY <1>3, <2>1, <2>2, <2>3 DEF Finish, SetNode, RebuildTypes
  <2>4. CASE Reloaded
    BY <2>2, <2>4 DEF Reloaded, Transient
  <2>5. Finish(g) \/ Reloaded
    <3>1. \A h \in Goroutines : h = g
      BY <1>3 DEF OneRebuild
    <3>2. pc[g] = "finish" /\ ~UNCHANGED pc
      BY <1>3
    <3>3. RebuildNext
      BY <1>3, <3>2 DEF rebuildVars
    <3>4. ~\E d \in NodeIds : RemoveNode(d) \/ checkNodeHealth(d)
      BY <3>2 DEF RemoveNode, checkNodeHealth
    <3>5. ~\E n \in Names : checkContainer(n)
      BY <3>2 DEF checkContainer
    <3>6. ~\E h \in Goroutines, d \in NodeIds : RebuildRequest(h, d)
      BY <3>1, <3>2 DEF RebuildRequest, Goto
    <3>7. ~\E h \in Goroutines, d \in NodeIds, o \in Hosts : MigrateRequest(h, d, o)
      BY <3>1, <3>2 DEF MigrateRequest, Goto
    <3>8. RebuildStep(g) \/ CrashProcess
      BY <3>1, <3>3, <3>4, <3>5, <3>6, <3>7 DEF RebuildNext
    <3>9. RebuildStep(g) => Finish(g)
      BY <3>2 DEF RebuildStep, MigrateMark, CheckSteady, BeginRebuild, Setup,
         SetupGone, FailState, FailHealth, Assign, Connect, RecreateOK,
         RecreateFail, RecreateDone, Judge, Goto, Return
    <3>10. QED  BY <3>8, <3>9 DEF CrashProcess
  <2>6. QED  BY <2>3, <2>4, <2>5
<1>4. I /\ [RebuildNext]_rebuildVars => [Reports]_rebuildVars
  BY <1>3
<1>5. QED
  BY <1>1, <1>2, <1>4, PTL DEF RebuildSpec, RebuildReports
=============================================================================
