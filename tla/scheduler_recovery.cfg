\* One task, two agents, checker invocations that do not overlap, and fewer
\* receives than attempts, as deployed; the checker's import repaired.
SPECIFICATION FairSpec
CONSTANTS
  Agents = {a1, a2}
  None = None
  MaxRetries = 2
  MaxReceiveCount = 2
  Tasks = {t1}
  NoTask = NoTask
  Checkers = {c1}
  TtlCheckerLoads = TRUE
  TasksOutliveVisibility = TRUE
CHECK_DEADLOCK FALSE
INVARIANTS
  AgentInv
  RowHandleIsOwners
  AtMostOneCompletion
  ExecutionsBounded
PROPERTIES
  FinalStateClosed
  ImplementsLifecycle
  AcceptedTaskSettles
  OrphanRecovered
