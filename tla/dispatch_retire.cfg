SPECIFICATION Spec
CHECK_DEADLOCK FALSE
CONSTANTS
  Nodes = {n1, n2}
  NoNode = NoNode
  Tasks = {t1, t2}
  MaxAttempts = 1
  MaxPushes = 2
  MaxFaults = 1
  SharedToken = FALSE
  MayExpire = TRUE
  MayFreeze = TRUE
PROPERTY ErasesOwnRecord
SYMMETRY Symmetry
