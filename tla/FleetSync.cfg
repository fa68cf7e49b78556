SPECIFICATION FairSpec
CONSTANTS
  i1 = i1
  i2 = i2
  a1 = a1
  a2 = a2
  home = home
  other = other
  None = None
  ReleaseIds = {i1, i2}
  Artifacts = {a1, a2}
  Channels = {home, other}
  HomeChannel = home
  Offers <- MCOffers
  Outcomes <- MCOutcomes
INVARIANTS
  TypeOK
  PendingHoldsTogether
  PassClaimsAreTested
  DecisionsNotLost
PROPERTIES
  OnlyDurableTold
  GateSpec
  EventuallyReported
