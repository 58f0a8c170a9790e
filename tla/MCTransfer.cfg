SPECIFICATION Spec
CHECK_DEADLOCK FALSE
CONSTANTS
  v1 = v1
  v2 = v2
  a = a
  b = b
  Vcpus <- MCTwoCpus
  Cpus = 3
  Keys <- MCTwoKeys
  SizeOf <- MCLarge
  PageSize = 2
  MaxPages = 2
  Threshold = 2
  Plans <- MCPlans
INVARIANTS
  TypeOK
  LockDiscipline
  PartIntact
  StoredIsWhole
