CONSTANTS
  root = root
  a = a
  b = b
  x = x
  y = y
  u1 = u1
  u2 = u2
  NoProject = NoProject
  Namespaces = {}
  ProjectOf <- MCNone
  ClusterOf <- MCNone
  Projects = {root, a}
  Parent <- MCPair
  Clusters = {x, y}
  Specs <- MCTwoClusters
  Users = {u1}
  MaxUid = 1
  MaxEdits = 1
  MaxFaults = 0
  Deletable = {}
  Locking = FALSE
  Workers = 2
SPECIFICATION Spec
INVARIANT BoundInherited
CHECK_DEADLOCK FALSE
