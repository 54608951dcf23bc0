---------------------------- MODULE MCLifecycle ----------------------------
(***************************************************************************)
(* Lifecycle for TLC: the scenarios of its runs.                           *)
(***************************************************************************)
EXTENDS Lifecycle

Faulty == {"lxd", "lost", "node", "halt", "mute"}
MCScenarios ==
  { \* everything fails, one thing at a time, the answer to a start excepted
    [ops |-> Requests, serial |-> TRUE, faults |-> Faulty \ {"lost"}],
    [ops |-> Requests \ {"start"}, serial |-> TRUE, faults |-> Faulty],
    \* that answer is lost too
    [ops |-> {"create", "start", "stop", "get"}, serial |-> TRUE,
     faults |-> {"lost", "halt", "mute"}],
    \* nothing fails, checks overlap requests
    [ops |-> Requests, serial |-> FALSE, faults |-> {}],
    \* the host and the containers fail, answers are lost, checks overlap
    \* requests
    [ops |-> Requests, serial |-> FALSE, faults |-> Faulty \ {"lxd"}] }

=============================================================================
