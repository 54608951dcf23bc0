----------------------------- MODULE MCConnPool -----------------------------
(***************************************************************************)
(* ConnPool for TLC: the scenarios of its run.                             *)
(***************************************************************************)
EXTENDS ConnPool

MCScenarios ==
  { \* one request at a time
    [ops |-> Requests, serial |-> TRUE],
    \* connections are made while the node moves
    [ops |-> {"forward", "call", "migrate"}, serial |-> FALSE],
    \* connections are made while the node is rebuilt or removed
    [ops |-> {"call", "rebuild", "remove"}, serial |-> FALSE] }
=============================================================================
