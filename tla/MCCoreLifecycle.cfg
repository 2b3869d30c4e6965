CONSTANTS
  c1 = c1
  c2 = c2
  c3 = c3
  d1 = d1
  d2 = d2
  Core = {c1, c2}
  Desktop = {d1, d2}
  Polls = 1
  Attempts = 1
  MaxAttaches = 2
  MaxFailures = 1
SPECIFICATION CoreSpec
CHECK_DEADLOCK FALSE
INVARIANTS StoreHasOneUser RecordsAreTrue
PROPERTIES NobodyWaitsForEver
