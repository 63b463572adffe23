CONSTANTS
  root = root
  a = a
  b = b
  x = x
  y = y
  u1 = u1
  u2 = u2
  NoProject = NoProject
  Namespaces = {}
  ProjectOf <- MCNone
  ClusterOf <- MCNone
  Projects = {root, a}
  Parent <- MCPair
  Clusters = {x}
  Specs <- MCSpecs
  Users = {u1}
  MaxUid = 1
  MaxEdits = 0
  MaxFaults = 0
  Deletable = {root}
  Locking = FALSE
  Workers = 2
SPECIFICATION MCSpec
PROPERTY ChildrenGoFirst
CHECK_DEADLOCK FALSE
