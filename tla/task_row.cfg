SPECIFICATION FairSpec
CHECK_DEADLOCK FALSE
CONSTANTS
  Tasks = {t1, t2}
  Members = {}
  Answers = {a1}
  Nodes = {n1, n2}
  Sweepers = {n2}
  NoRun = NoRun
  NoNode = NoNode
  MaxDispatches = 2
  MaxAsks = 1
  MaxFaults = 1
PROPERTIES RowMovesForward VerdictEndsRow SweepSparesNewRuns ZombieLeaves
