SPECIFICATION Spec
CONSTANTS
  c1 = c1
  n1 = n1
  n2 = n2
  w1 = w1
  i1 = i1
  a1 = a1
  a2 = a2
  o1 = o1
  o2 = o2
  Collector = {c1}
  Namespace = {n1, n2}
  Name = {w1}
  Owner <- OneOwner
  Installation = {i1, i2}
  Org = {o1, o2}
  OrgOf <- Orgs
  App = {a1, a2}
  AppOf <- Apps
  HealthRequired = {a1}
  Sighting <- Workloads
  TTL = 2
  FullSync = 2
  None = None
  Session = {s1, s2}
  Legacy <- LegacyRecords
  Resets <- Migration
  MaxInventory = 2
  MaxBindings = 1
  MaxClock = 3
  MaxRevision = 3
SYMMETRY Symmetric
CHECK_DEADLOCK FALSE
INVARIANTS ReadyIsProbed AbsentIsWitnessed OneConnectionOwnsInventory
PROPERTY RevisionNamesState
