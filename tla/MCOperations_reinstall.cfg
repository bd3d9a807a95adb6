SPECIFICATION OperationsSpec
CONSTANTS
  App = {a1}
  Version = {1}
  Content = {d1}
  u1 = u1
  u2 = u2
  org1 = org1
  org2 = org2
  User = {u1}
  Org = {org1, org2}
  OrgOf <- MCOrgOf
  Key = {k1, k2, k3}
  MaxInstallations = 2
  MaxOperations = 3
  MaxTransitions = 0
  None = None
  Worker = {w1}
  Offered <- RemovalOffered
  SourceRecovery = {}
SYMMETRY Symmetric
CHECK_DEADLOCK FALSE
INVARIANT ReinstallIntended
