SPECIFICATION Spec
CONSTANTS
  NodeIds = {d1, d2}
  Hosts = {h1, h2}
  Names = {n1, n2, n3, n4}
  Procs = {p1, p2}
  Caps = {0, 1, 2}
  Scenarios <- MCScenarios
  NoNode = NoNode
  NoName = NoName
SYMMETRY Symmetry
INVARIANTS PlacementInv OvershootBounded
\* Nothing happens any more when no container name or host is left.
CHECK_DEADLOCK FALSE
