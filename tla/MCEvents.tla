------------------------------ MODULE MCEvents ------------------------------
(***************************************************************************)
(* Events for TLC: the scenarios of its run.                               *)
(***************************************************************************)
EXTENDS Events

MCSettings ==
  { \* one announced change after the other
    [serial |-> TRUE, silent |-> FALSE, reads |-> TRUE, kind |-> "instance"],
    \* changes overlap, and some are silent
    [serial |-> FALSE, silent |-> TRUE, reads |-> TRUE, kind |-> "instance"],
    [serial |-> FALSE, silent |-> TRUE, reads |-> TRUE, kind |-> "node"],
    \* nobody reads
    [serial |-> FALSE, silent |-> FALSE, reads |-> FALSE, kind |-> "instance"] }
=============================================================================
