SPECIFICATION FairSpec
CONSTANTS
  Clients = {c1, c2}
  MaxRelease = 2
  Nobody = Nobody
INVARIANTS
  TestedAlone
  CurrentAnswerHeld
PROPERTY NobodyWaitsForEver
