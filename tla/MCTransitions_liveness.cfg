SPECIFICATION FairSpec
CONSTANTS
  u1 = u1
  org1 = org1
  a1 = a1
  a2 = a2
  d1 = d1
  App = {a1, a2}
  Version = {1, 2}
  Content = {d1}
  User = {u1}
  Org = {org1}
  OrgOf <- MCOrgOf
  Key = {k1, k2}
  InstalledVersion = 1
  MaxInstallations = 2
  MaxOperations = 2
  MaxTransitions = 2
  MaxRecoveries = 0
  MaxRestarts = 1
  None = None
  Coordinator = {c1}
  ForwardRule <- NoForwardRule
CHECK_DEADLOCK FALSE
PROPERTY EveryTransitionEnds
