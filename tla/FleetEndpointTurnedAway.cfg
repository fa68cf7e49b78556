SPECIFICATION Spec
CONSTANTS
  Clients = {c1, c2}
  MaxRelease = 2
  Nobody = Nobody
INVARIANT TurnedAwayDuringTest
