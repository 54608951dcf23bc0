SPECIFICATION RebuildFairSpec
CONSTANTS
  d1 = d1
  d2 = d2
  NodeIds = {d1, d2}
  Hosts = {h1, h2}
  Names = {n1, n2}
  Goroutines = {g1}
  NoNode = NoNode
  Settings <- MCSettings
INVARIANTS RebuildInv
PROPERTIES RebuildReports RebuildingEnds Recovered
