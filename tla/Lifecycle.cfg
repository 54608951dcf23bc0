SPECIFICATION FairSpec
CONSTANTS
  Names = {n1}
  Procs = {p1}
  Checkers = {c1}
  Scenarios <- MCScenarios
INVARIANTS LifecycleInv NoOrphan RunningIsReachable
PROPERTIES DeathNoticed RecoveryNoticed CreatingEnds
