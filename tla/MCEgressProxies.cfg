SPECIFICATION Spec
CONSTANTS
  t1 = t1
  t2 = t2
  t3 = t3
  Proxy = {p1}
  Endpoint = {e1}
  Tester = {t1, t2, t3}
  ProcessOf <- TwoProcesses
  Slots = 1
  Deadline = 2
  Lease = 3
  MaxRevision = 2
  MaxClock = 4
  None = None
  Gone = Gone
CHECK_DEADLOCK FALSE
INVARIANT OneProbePerRevision
PROPERTIES ImplementsRegister DeleteWaits
