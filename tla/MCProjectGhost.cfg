CONSTANTS
  root = root
  a = a
  b = b
  x = x
  y = y
  u1 = u1
  u2 = u2
  NoProject = NoProject
  Namespaces = {}
  ProjectOf <- MCNone
  ClusterOf <- MCNone
  Projects <- MCPairSet
  Parent <- MCPair
  Clusters = {x}
  Specs <- MCOne
  Users = {u1}
  MaxUid = 2
  MaxEdits = 0
  MaxFaults = 1
  Deletable = {a}
  Locking = FALSE
  Workers = 2
SPECIFICATION MCSpec
INVARIANT CountedExist
CHECK_DEADLOCK FALSE
