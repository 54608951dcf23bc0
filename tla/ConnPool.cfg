SPECIFICATION FairSpec
CONSTANTS
  Nodes = {n1}
  Hosts = {h1, h2}
  Workers = {w1, w2}
  Conns = {c1, c2}
  None = None
  Scenarios <- MCScenarios
INVARIANTS PoolInv OneConnection
PROPERTIES BrokenLeaves
