\* Instances of different sizes; every outside call may fail, and ORB's status may
\* lag or have no sizes.
SPECIFICATION Spec
CONSTANTS
  MaxInstances = 2
  VcpusOf <- MixedFleet
  Reports <- SizedOrNot
  Backlogs = {0, 3}
  TargetPerPair = 2
  PairCpu = 1
  MinVcpus = 0
  MaxVcpus = 2
  Failures = {"status", "tags", "busy", "ssm", "orb", "crash"}
INVARIANTS
  TypeOK
  FleetBounded
PROPERTIES
  TerminatedWasDraining
  StopOnlyDraining
