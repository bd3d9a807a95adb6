SPECIFICATION Spec
CONSTANTS
  i1 = i1
  i2 = i2
  j1 = j1
  Instance = {i1, i2, j1}
  AppInstance = {i1, i2}
  Namespace = {"a", "b"}
  Pvc = {"p1", "p2", "q1"}
  Uid = {"u1", "u2", "u4"}
  Digest = {"h1", "h2"}
  Secret = {"s1", "s2"}
  Installation = {"n1", "n2"}
  Request = {"there", "back", "other"}
  Body <- Bodies
  Command = {"other"}
  Schema <- Variants
  Stored <- Tables
  MaxExecutions = 1
  MaxRepeats = 1
  None = None
CHECK_DEADLOCK FALSE
INVARIANTS RowsCoherent ExecutionsFollow PlaceIsNew
PROPERTY RepeatIsIdle
