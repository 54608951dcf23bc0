--------------------------- MODULE MCNodeRebuild ---------------------------
(***************************************************************************)
(* NodeRebuild for TLC: the scenarios of its run.                          *)
(***************************************************************************)
EXTENDS NodeRebuild

CONSTANTS d1, d2
MCSettings ==
  { \* a node beside another: machines and the process fail, and the other
    \* node may be removed
    [nodes |-> {d1, d2}, ops |-> {"rebuild", "remove"},
     faults |-> {"machine", "crash"}],
    \* machines that work: of two nodes, and of one that moves
    [nodes |-> {d1, d2}, ops |-> {"rebuild", "remove"}, faults |-> {}],
    [nodes |-> {d1}, ops |-> {"rebuild", "migrate"}, faults |-> {}],
    \* everything fails
    [nodes |-> {d1}, ops |-> {"rebuild", "migrate", "remove"},
     faults |-> {"machine", "crash"}] }

=============================================================================
