\* Two checker invocations at once.
SPECIFICATION FairSpec
CONSTANTS
  Agents = {a1}
  None = None
  MaxRetries = 1
  MaxReceiveCount = 2
  Tasks = {t1}
  NoTask = NoTask
  Checkers = {c1, c2}
  TtlCheckerLoads = TRUE
  TasksOutliveVisibility = FALSE
CHECK_DEADLOCK FALSE
PROPERTY AcceptedTaskSettles
