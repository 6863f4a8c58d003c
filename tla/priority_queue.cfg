SPECIFICATION Spec
CONSTANTS
  Tasks = {t1, t2}
  Agents = {a1}
  NoTask = NoTask
  PrioritiesCount = 2
  MaxReceiveCount = 2
INVARIANTS
  PqTypeOK
  CallsReachTheMessage
  NoInversion
PROPERTIES
  EveryPriorityServed
CHECK_DEADLOCK FALSE
