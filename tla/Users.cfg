SPECIFICATION Spec
CONSTANTS
  u1 = u1  u2 = u2
  t1 = t1  t2 = t2  t3 = t3
  c1 = c1  c2 = c2
  p1 = p1  p2 = p2
  Ids = {u1, u2}
  Tokens = {t1, t2, t3}
  Names = {n1, n2}
  Containers = {c1, c2}
  Procs = {p1, p2}
  NoUser = NoUser
  Scenarios <- MCScenarios
SYMMETRY Symmetry
INVARIANTS UsersInv OwnersExist TokensDie DiskAgrees
