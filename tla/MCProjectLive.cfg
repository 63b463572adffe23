CONSTANTS
  root = root
  a = a
  b = b
  x = x
  y = y
  u1 = u1
  u2 = u2
  NoProject = NoProject
  Namespaces = {}
  ProjectOf <- MCNone
  ClusterOf <- MCNone
  Projects <- MCProjectsSet
  Parent <- MCParent
  Clusters = {x}
  Specs <- MCOne
  Users = {u1}
  MaxUid = 1
  MaxEdits = 0
  MaxFaults = 1
  Deletable = {a, b}
  Locking = FALSE
  Workers = 3
SPECIFICATION MCFairSpec
PROPERTIES EventuallyCounted DeletionCompletes
CHECK_DEADLOCK FALSE
