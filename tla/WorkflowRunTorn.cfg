SPECIFICATION Spec
CONSTANTS
  Agents <- MCAgents
  Graphs <- Chain
  Restart = 1
  Logs <- Empty
INVARIANT PartialCostsOne
