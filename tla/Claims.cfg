SPECIFICATION ClaimsSpec
CONSTANTS
  None = None
  Candidates <- MCCandidates
  Machines = {"m1", "m4"}
  Installed <- MCMachines
  Profiles <- Required
  Options <- Ordinary
  Truths <- OneTruth
  Files <- OneFiles
  Scale = 2
  TTL = 1
  MaxNow = 1
  MaxEdition = 2
  Procs = {1, 2}
  Adds = {1, 2}
  Removes = {}
  Nobody = 0
  Commands = {1, 2, 3}
  Pids = {11, 12}
  NoPid = 0
  Agents = {"a", "b"}
  Devices = {"d"}
  KeyNames = {"k"}
  Values = {"v", "w"}
  MasterKeys = {"m", "n"}
  Passphrases = {"p"}
  Lifetimes = {0}
  Grace = 1
  MaxTime = 1
  MaxOps = 1
  Pages = {1}
  PingEvery = 1
  CloseGrace = 1
  Silence = 1
  NeverOpened = 0
  Conditions <- Tests
  Outputs = {"", "x"}
  Counts = {1}
  MaxDepth = 3
  Members = {1, 2, 3}
  Graphs <- MCGraphs
  States <- MCStates
  Up = ".."
  Models = {1, 2}
  Addressed = {2}
  Sizes <- MCSizes
  Targets <- MCTargets
  Outcomes <- TwoOutcomes
  Bar = 100
  MaxClock = 3
  Sessions = {"s"}
  Phrases = {"p", "q"}
  NoKey = "none"
  Weights <- MCWeights
  FrameSize = 3
  Other = "other"
  MaxSaves = 2
  Homes = {"here"}
  Online = {}
  Repositories = {"r1"}
  LocalName <- MCLocalName
  Names = {"u"}
  Origins = {"hf"}
  Contents = {"w1", "w2"}
  Plans <- Single
  Received <- Sent
  MaxChanges = 0
  MaxCopies = 2
  MaxJobs = 2
  Installers = {1, 2}
  Builds <- TwoBuilds
  Git = {}
  Unzipped <- TwoEntries
  Hosts <- OneHost
  InStore = {}
  MaxMoves = 1
  MaxTries = 2
  NoTarget = NoTarget
  NoChoice = NoChoice
  Units <- MCUnits
  Flags <- MCFlags
  Offers <- MCOffers
  Calls <- MCCalls
  Carried = {}
  InStock = {"cert"}
  MaxTurns = 2
  MaxRuns = 3
INVARIANT SomeSentenceIsKept
CHECK_DEADLOCK FALSE
