SPECIFICATION FairSpec
CHECK_DEADLOCK FALSE
CONSTANTS
  Messages = {m1, m2}
  Commands = {c1}
  NoCmd = NoCmd
  PageRows = 3
  Compound = {TRUE, FALSE}
  Rowing = {TRUE}
  Folding = {TRUE}
  Writes = {"deliver", "send", "edit", "read", "revoke", "reset"}
  MaxWrites = 2
  MaxBacklog = 3
  MaxResumes = 2
  MaxErrors = 1
  Failing = {"load", "ack", "resume"}
INVARIANTS TypeOK BatchesApply ReplayExact PagesKeepMeaning UnreadSettled
PROPERTY CatchesUp
