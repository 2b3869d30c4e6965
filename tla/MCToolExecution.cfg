CONSTANTS
  c1 = c1
  c2 = c2
  Caller = {p1, p2}
  Call = {c1, c2}
  Grant = {g1}
  Conf = {k1, k2}
  OneShot = {c1}
  Planned = {c2}
  MaxFaults = 1
  None = None
  ScopeOf <- MCScopeOf
  Risk <- MCRisk
SPECIFICATION FairSpec
INVARIANTS EffectMatchesRecord AuthorityInOrder
PROPERTIES ApprovalCompletes ImplementsAuthorizedExecution
