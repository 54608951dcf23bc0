---------------------------- MODULE MCLockOrder ----------------------------
(***************************************************************************)
(* LockOrder for TLC: the scenarios of its run.                           *)
(***************************************************************************)
EXTENDS LockOrder

CONSTANTS g1, g2, g3
MCScenarios ==
  { \* chains of three on the operations that nest mutexes
    [workers |-> {g1, g2, g3}, oneAllocator |-> TRUE, watched |-> {},
     dry |-> Pools,
     ops |-> {"create", "listUsers", "resetToken"}],
    \* pairs of all operations but the two inversions
    [workers |-> {g1, g2}, oneAllocator |-> TRUE, watched |-> {},
     dry |-> {"ports"}, ops |-> AllOps \ {"checkNode"}],
    \* pairs of an allocation that finds no address and what comes after it
    [workers |-> {g1, g2}, oneAllocator |-> TRUE, watched |-> {},
     dry |-> {"addresses"},
     ops |-> {"create", "migrate", "start", "listUsers"}],
    \* pairs that may deadlock: who touches what
    [workers |-> {g1, g2}, oneAllocator |-> FALSE, watched |-> Guarded,
     dry |-> {},
     ops |-> {"create", "start", "checkNode", "checkContainer", "keepalive",
              "removeNode", "resetToken"}] }
=============================================================================
