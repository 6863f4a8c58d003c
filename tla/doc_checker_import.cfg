\* The checker as it is at this commit, and fewer receives than attempts.
SPECIFICATION FairSpec
CONSTANTS
  Agents = {a1}
  None = None
  MaxRetries = 2
  MaxReceiveCount = 2
  Tasks = {t1}
  NoTask = NoTask
  Checkers = {c1}
  TtlCheckerLoads = FALSE
  TasksOutliveVisibility = FALSE
CHECK_DEADLOCK FALSE
PROPERTY AcceptedTaskDecided
