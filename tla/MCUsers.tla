------------------------------ MODULE MCUsers ------------------------------
(***************************************************************************)
(* Users for TLC: the scenarios of its run, and its symmetry.              *)
(***************************************************************************)
EXTENDS Users, TLC

CONSTANTS u1, u2, t1, t2, t3, c1, c2, p1, p2
MCScenarios == [serial : BOOLEAN, crash : {TRUE}]
\* No definition distinguishes identifiers, tokens, containers or goroutines;
\* each CHOOSE of Restart has one value to choose, as no token is drawn twice.
Symmetry == Permutations({u1, u2}) \cup Permutations({t1, t2, t3})
              \cup Permutations({c1, c2}) \cup Permutations({p1, p2})
=============================================================================
