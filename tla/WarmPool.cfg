SPECIFICATION Spec
CONSTANTS
  Runs = {r1, r2}
  Keys = {k1, k2}
  Ports = {p1, p2}
  MaxServers = 3
SYMMETRY Interchangeable
INVARIANTS
  TypeOK
  OwnModelAnswers
  OnlyDuplicatesEscape
