CONSTANTS
  r1 = r1
  r2 = r2
  a1 = a1
  c1 = c1
  c2 = c2
  c3 = c3
  None = None
  Runner = {r1, r2}
  Approver = {a1}
  Call = {c1, c2, c3}
  RetrySafe = {c2}
  Idempotent = {c2, c3}
  Asks = {c1, c2}
  MaxAttempts = 2
  MaxFaults = 1
SPECIFICATION FairSpec
CHECK_DEADLOCK FALSE
INVARIANTS VerdictsAreTrue UncertainNeverRepeated
PROPERTIES StatusIsKept CancelCompletes
