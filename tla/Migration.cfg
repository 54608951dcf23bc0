SPECIFICATION FairSpec
CONSTANTS
  Nodes = {n1, n2, n3}
  Workers = {w1, w2}
  MaxPort = 3
  Scenarios <- MCScenarios
INVARIANTS MigrationInv MovedWhole
PROPERTIES TransitionEnds
CHECK_DEADLOCK FALSE
