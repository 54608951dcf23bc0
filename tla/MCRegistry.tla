----------------------------- MODULE MCRegistry -----------------------------
(* Model checking of Registry on pools of one to three values.             *)
EXTENDS Registry, TLC

CONSTANTS SshLo, SshHi, SvcLo, SvcHi \* the pools, as numbers

MCPoolLo == [k \in Kinds |-> IF k = "ssh" THEN SshLo ELSE SvcLo]
MCPoolHi == [k \in Kinds |-> IF k = "ssh" THEN SshHi ELSE SvcHi]
Symmetry == Permutations(Names) \cup Permutations(Procs) \cup Permutations(Nodes)

\* The values that the loop of allocWithCursor tries, one after the other.
LoopTry(lo, hi, c) ==
  LET f[i \in Nat] == IF i = 0 THEN c
                      ELSE IF f[i-1] + 1 > hi THEN lo ELSE f[i-1] + 1
  IN  f

\* The closed form Try agrees with the loop for every pool, cursor (also one
\* outside the pool) and number of tries in these bounds.
ASSUME TryIsTheLoop ==
  \A lo \in 1 .. 4 : \A hi \in lo .. 6 : \A c \in 0 .. 9 :
     \A i \in 0 .. (hi - lo + 1) :
        Try(lo, hi, c, i) = LoopTry(lo, hi, c)[i]
=============================================================================
