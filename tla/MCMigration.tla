---------------------------- MODULE MCMigration ----------------------------
(***************************************************************************)
(* Migration for TLC: the scenarios of its run.                            *)
(***************************************************************************)
EXTENDS Migration

MCScenarios ==
  { \* nothing fails, one request at a time beside a check
    [ops |-> Requests, serial |-> TRUE, faults |-> {}],
    \* everything fails
    [ops |-> {"migrate", "delete", "check"}, serial |-> TRUE,
     faults |-> {"lxd", "crash"}],
    \* two requests for the container at once
    [ops |-> {"migrate", "delete", "destroy"}, serial |-> FALSE, faults |-> {"lxd"}] }
=============================================================================
