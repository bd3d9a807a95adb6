SPECIFICATION Spec
CONSTANTS
  u1 = u1
  u2 = u2
  org1 = org1
  org2 = org2
  a1 = a1
  d1 = d1
  App = {a1}
  Version = {1, 2, 3}
  Content = {d1}
  User = {u1, u2}
  Org = {org1, org2}
  OrgOf <- MCOrgOf
  Key = {k1, k2}
  MaxInstallations = 2
  MaxOperations = 2
  MaxTransitions = 1
  MaxRecoveries = 1
  MaxRestarts = 0
  None = None
  Worker = {w1}
  Offered <- MCOffered
  SourceRecovery <- MCSourceRecovery
  Coordinator = {c1}
  ForwardRule <- MCForwardRule
SYMMETRY Symmetric
CHECK_DEADLOCK FALSE
INVARIANTS TypeOK OneActiveJob ActiveJobsHeld InstalledVersionConfirmed SameOrganization ResultApplies
PROPERTIES RevisionAdvances ImplementsAppRegister
