SPECIFICATION Spec
CONSTANTS
  Client = {c1}
  Version = {1, 2}
  Policy <- Registry
  Plain <- Plainly
  Uid = {u1, u2}
  MaxRevision = 4
  None = None
SYMMETRY Alike
CHECK_DEADLOCK FALSE
INVARIANTS OfferStands UpgradeRises GrantIsFresh
