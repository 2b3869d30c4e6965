CONSTANTS
  j1 = j1
  j2 = j2
  Job = {j1, j2}
  Unfit = {j2}
  ListLimit = 1
  MaxCrashes = 2
  MaxFaults = 2
SPECIFICATION Spec
CHECK_DEADLOCK FALSE
INVARIANTS IntentsInOrder
PROPERTIES RecoveryConverges ImplementsConvergingWrites
