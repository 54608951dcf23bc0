------------------------------ MODULE MCR2Sync ------------------------------
(***************************************************************************)
(* R2Sync for TLC: the scenarios of its run.                               *)
(***************************************************************************)
EXTENDS R2Sync

Usual == [unlocked |-> {MainFile}, cli |-> {}, offline |-> TRUE,
          capacity |-> 3, debounce |-> 2, faults |-> {}]
MCScenarios ==
  { \* nothing fails and no name is dropped
    Usual,
    \* uploads fail, the process ends, machines are lost, names are dropped
    [Usual EXCEPT !.capacity = 1, !.debounce = 1, !.faults = {"put", "crash", "lose"}],
    \* restorations fail too
    [Usual EXCEPT !.capacity = 2, !.debounce = 1, !.faults = {"get", "lose"}],
    \* commands between a crash and the next start
    [Usual EXCEPT !.cli = Files \ {MainFile}, !.unlocked = {},
            !.debounce = 1, !.faults = {"crash"}] }
=============================================================================
