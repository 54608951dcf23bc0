SPECIFICATION UpdateSpec
CONSTANTS
  Tags = {v1, v2, v3}
  Procs = {p1, p2}
  NoTag = NoTag
  Failures = {"net", "disk", "crash"}
INVARIANTS UpdateInv
PROPERTIES InstallsItsTag
\* A torn executable, which updates that overlap may leave, does not start.
CHECK_DEADLOCK FALSE
