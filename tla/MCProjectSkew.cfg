CONSTANTS
  root = root
  a = a
  b = b
  x = x
  y = y
  u1 = u1
  u2 = u2
  NoProject = NoProject
  Namespaces = {}
  ProjectOf <- MCNone
  ClusterOf <- MCNone
  Projects = {root, a}
  Parent <- MCPair
  Clusters = {x}
  Specs <- MCNoQuota
  Users = {u1, u2}
  MaxUid = 1
  MaxEdits = 2
  MaxFaults = 0
  Deletable = {}
  Locking = FALSE
  Workers = 2
SPECIFICATION Spec
INVARIANT QuotaInherited
CHECK_DEADLOCK FALSE
