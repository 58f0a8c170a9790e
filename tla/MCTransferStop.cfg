SPECIFICATION FairSpec
CHECK_DEADLOCK FALSE
CONSTANTS
  v1 = v1
  v2 = v2
  a = a
  b = b
  Vcpus <- MCTwoCpus
  Cpus = 3
  Keys <- MCTwoKeys
  SizeOf <- MCSizes
  PageSize = 2
  MaxPages = 1
  Threshold = 2
  Plans <- MCStopPlans
PROPERTIES
  TransfersEnd
