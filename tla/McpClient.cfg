SPECIFICATION FairSpec
CONSTANTS
  Callers = {c1, c2}
  MaxCalls = 2
  StdinRoom = 2
  StdoutRoom = 1
  Nobody = Nobody
INVARIANTS
  TypeOK
  OwnAnswer
  ReaderServesAll
PROPERTY NobodyHangs
