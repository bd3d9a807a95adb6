SPECIFICATION OperationsSpec
CONSTANTS
  App = {a1, a2}
  Version = {1}
  Content = {d1}
  u1 = u1
  u2 = u2
  org1 = org1
  org2 = org2
  User = {u1}
  Org = {org1}
  OrgOf <- MCOrgOf
  Key = {k1, k2}
  MaxInstallations = 2
  MaxOperations = 3
  MaxTransitions = 0
  None = None
  Worker = {w1, w2}
  Offered <- RemovalOffered
  SourceRecovery = {}
CHECK_DEADLOCK FALSE
INVARIANT OutcomeAgrees
PROPERTY NoStarvation
