\* DescribeInstances fails now and then, and no stop command need ever land.
SPECIFICATION FairSpec
CONSTANTS
  MaxInstances = 1
  VcpusOf <- MixedFleet
  Reports <- SizedOrNot
  Backlogs = {0, 1, 3}
  TargetPerPair = 2
  PairCpu = 1
  MinVcpus = 0
  MaxVcpus = 2
  Failures = {"tags", "ssm"}
PROPERTIES
  DrainEnds
