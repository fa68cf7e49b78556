SPECIFICATION FairSpec
CONSTANTS
  Callers = {c1, c2}
  MaxCalls = 2
  StdinRoom = 1
  StdoutRoom = 1
  Nobody = Nobody
PROPERTY CallIsBounded
