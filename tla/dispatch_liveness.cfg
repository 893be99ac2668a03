SPECIFICATION LiveSpec
CHECK_DEADLOCK FALSE
CONSTANTS
  Nodes = {n1, n2}
  NoNode = NoNode
  Tasks = {t1, t2}
  MaxAttempts = 2
  MaxPushes = 1
  MaxFaults = 1
  SharedToken = TRUE
  MayExpire = FALSE
  MayFreeze = TRUE
PROPERTIES RetriedToTheEnd
