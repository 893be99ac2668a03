SPECIFICATION Spec
CHECK_DEADLOCK FALSE
CONSTANTS
  Conns = {c1, c2}
  Nodes = {n1, n2}
  NoConn = NoConn
  NoNode = NoNode
  n1 = n1
  n2 = n2
  MayDrain = {n1, n2}
  MaxFaults = 3
  MayMissState = FALSE
INVARIANTS LeasesFollowAuthority NewestServed
PROPERTY NeverResurrected
SYMMETRY FullSymmetry
