SPECIFICATION Spec
CONSTANTS
  Names = {n1, n2}
  Nodes = {d1, d2}
  Procs = {p1}
  NoName = NoName
  NoNode = NoNode
  PoolLo <- MCPoolLo
  PoolHi <- MCPoolHi
  SshLo = 1
  SshHi = 2
  SvcLo = 1
  SvcHi = 2
  IpLo = 1
  IpHi = 1
  CursorSlack = 1
SYMMETRY Symmetry
INVARIANTS PortsExclusive IpsExclusive
CHECK_DEADLOCK FALSE
