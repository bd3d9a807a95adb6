SPECIFICATION Spec
CONSTANTS
  u1 = u1
  org1 = org1
  a1 = a1
  a2 = a2
  d1 = d1
  App = {a1}
  Version = {1, 2, 3}
  Content = {d1}
  User = {u1}
  Org = {org1}
  OrgOf <- MCOrgOf
  Key = {k1, k2}
  InstalledVersion = 1
  MaxInstallations = 1
  MaxOperations = 1
  MaxTransitions = 2
  MaxRecoveries = 2
  MaxRestarts = 0
  None = None
  Coordinator = {c1, c2}
  ForwardRule <- MCForwardRule
SYMMETRY Symmetric
CHECK_DEADLOCK FALSE
INVARIANTS TransitionOwnsInstallation NoStaleCommit RuntimeAgrees RecoveryOwnsTransition AlwaysAnswerable
PROPERTIES PublishedNeverReverts
