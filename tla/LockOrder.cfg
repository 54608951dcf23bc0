SPECIFICATION FairSpec
CONSTANTS
  g1 = g1
  g2 = g2
  g3 = g3
  Workers = {g1, g2, g3}
  NoWorker = NoWorker
  Scenarios <- MCScenarios
INVARIANTS LockInv NoCircularWait
PROPERTIES RequestsEnd
\* The last scenario reaches the deadlocks of overlapping allocations and of a
\* node that recovers; in two others cursorMu stays locked when the addresses
\* run out.
CHECK_DEADLOCK FALSE
