------------------------------- MODULE Leases -------------------------------
(***************************************************************************)
(* What the registry promises about external ports, without its maps,      *)
(* cursors and files: a port is free or leased to one holder.  A request   *)
(* is granted free ports, hands them over to the container it creates, and *)
(* every lease ends with its holder.  A restart knows containers only.     *)
(*                                                                         *)
(* Registry implements this module; see ImplementsLeases there.            *)
(***************************************************************************)
CONSTANTS Ports, Requests, Containers
VARIABLE leases \* the leases that run: which port, and whose it is

Lease == [port : Ports, holder : Requests \cup Containers]
LeasesOf(h) == {l \in leases : l.holder = h}
Free(port) == \A l \in leases : l.port # port
Exclusive == \A l, m \in leases : l.port = m.port => l = m

Init == leases = {}

\* A request gets ports that nobody holds, and nothing else changes.
Grant(r) ==
  /\ leases \subseteq leases' /\ leases' \subseteq Lease
  /\ \A l \in leases' \ leases : l.holder = r /\ Free(l.port)

\* The ports of a request become those of a new container.
HandOver(r, c) ==
  /\ LeasesOf(c) = {}
  /\ leases' = (leases \ LeasesOf(r))
                 \cup {[port |-> l.port, holder |-> c] : l \in LeasesOf(r)}

\* A request gives up, or a container is deleted.
End(h) == leases' = leases \ LeasesOf(h)

\* Restarting from a file, even an older one: some containers may be lost and
\* deleted ones may be back, but no port has two owners, and a container that
\* was there before and after has the same ports.
Recover ==
  /\ leases' \subseteq [port : Ports, holder : Containers]
  /\ Exclusive'
  /\ \A c \in Containers :
        LeasesOf(c) = {} \/ LeasesOf(c)' = {} \/ LeasesOf(c)' = LeasesOf(c)

Next ==
  \/ \E r \in Requests : Grant(r)
  \/ \E r \in Requests, c \in Containers : HandOver(r, c)
  \/ \E h \in Requests \cup Containers : End(h)
  \/ Recover
Spec == Init /\ [][Next]_leases
=============================================================================
