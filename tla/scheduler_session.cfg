\* Two tasks: partial submissions, pages of checker and cancellation, retries
\* that are used up.
SPECIFICATION Spec
CONSTANTS
  Agents = {a1}
  None = None
  MaxRetries = 1
  MaxReceiveCount = 2
  Tasks = {t1, t2}
  NoTask = NoTask
  Checkers = {c1}
  TtlCheckerLoads = TRUE
  TasksOutliveVisibility = FALSE
SYMMETRY TaskSymmetry
CHECK_DEADLOCK FALSE
INVARIANTS
  TypeOK
  MessageHasRow
  NoStrandedTask
  CheckerInv
  FinalStateEarned
PROPERTIES
  CancelMissesOnlyRetried
