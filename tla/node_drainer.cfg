SPECIFICATION Spec
CONSTANTS
  Pods = {p1, p2, d1}
  DaemonPods = {d1}
  Invocations = {i1, i2}
INVARIANTS
  ContinueMeansEmpty
  WaitsForTheDoomed
PROPERTIES
  InvocationEnds
CHECK_DEADLOCK FALSE
