SPECIFICATION Spec
CONSTANTS
  User = {u1, u2}
  Request = {r1, r2}
  SessionID = {1, 2}
  Enrolled = {4}
  Accounts = {}
  SessionTTL = 2
  LockTime = 2
  MaxFailures = 2
  MaxToken = 4
  MaxClock = 3
  MaxVersion = 1
  None = None
SYMMETRY Symmetric
CHECK_DEADLOCK FALSE
INVARIANTS GuessesBounded EffectIsPermitted OneHeir LogoutIsFinal OneBootstrap
