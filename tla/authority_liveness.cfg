SPECIFICATION FairSpec
CHECK_DEADLOCK FALSE
CONSTANTS
  Conns = {c1, c2}
  Nodes = {n1, n2}
  NoConn = NoConn
  NoNode = NoNode
  n1 = n1
  n2 = n2
  MayDrain = {}
  MaxFaults = 1
  MayMissState = TRUE
PROPERTIES StaleCloses GoneIsShown
