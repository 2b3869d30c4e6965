SPECIFICATION Spec
CONSTANTS
  u1 = u1
  u2 = u2
  u3 = u3
  Url <- MCUrl
  MaxSteps = 2
  MaxToolCalls = 3
  MinSources = 2
  MaxSources = 2
  MaxRuns = 2
  MaxFaults = 1
  MaxCrashes = 2
CHECK_DEADLOCK FALSE
INVARIANTS RunsInOrder InterruptionIsAsked
PROPERTIES RunEnds
