---------------------------- MODULE MCPlacement ----------------------------
(***************************************************************************)
(* Placement for TLC.  Containers and requests are interchangeable, and no *)
(* property is a liveness property.                                        *)
(***************************************************************************)
EXTENDS Placement, TLC

MCScenarios ==
  { \* every request, one after another
    [ops |-> Requests, serial |-> TRUE],
    \* overlapping requests of which no two choose a node without counting
    [ops |-> {"create", "delete", "add", "remove", "rebuild"},
     serial |-> FALSE] }

Symmetry == Permutations(Names) \cup Permutations(Procs)
=============================================================================
