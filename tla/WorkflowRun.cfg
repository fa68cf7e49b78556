SPECIFICATION FairSpec
CONSTANTS
  Agents <- MCAgents
  Graphs <- MCGraphs
  Restart = 1
  Logs <- MCLogs
INVARIANTS
  TypeOK
  DependenciesFirst
  SkipsPropagate
  EventsTellTheRun
  AuditTrail
PROPERTY RunEnds
