CONSTANTS
  root = root
  a = a
  b = b
  x = x
  y = y
  u1 = u1
  u2 = u2
  NoProject = NoProject
  Namespaces = {}
  ProjectOf <- MCNone
  ClusterOf <- MCNone
  Projects <- MCProjectsSet
  Parent <- MCParent
  Clusters = {x}
  Specs <- MCSpecs
  Users = {u1, u2}
  MaxUid = 1
  MaxEdits = 3
  MaxFaults = 0
  Deletable = {}
  Locking = FALSE
  Workers = 2
SPECIFICATION MCSpec
SYMMETRY Symm
INVARIANTS LedgerMatchesCache SettledLedger UsedWithinHard
CHECK_DEADLOCK FALSE
