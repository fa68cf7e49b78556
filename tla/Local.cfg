SPECIFICATION PartsSpec
CONSTANTS
  None = None
  Candidates <- MCCandidates
  Machines = {"m1", "m2", "m3"}
  Installed <- MCMachines
  Profiles <- MCProfiles
  Options <- MCOptions
  Truths <- MCTruths
  Files <- MCFiles
  Scale = 2
  TTL = 1
  MaxNow = 1
  MaxEdition = 2
  Procs = {1, 2, 3}
  Adds = {1, 2}
  Removes = {3}
  Nobody = 0
  Commands = {1, 2, 3}
  Pids = {11, 12}
  NoPid = 0
  Agents = {"a", "b"}
  Devices = {"d"}
  KeyNames = {"k"}
  Values = {"v", "w"}
  MasterKeys = {"m", "n"}
  Passphrases = {"p"}
  Lifetimes = {0}
  Grace = 1
  MaxTime = 1
  MaxOps = 3
  Pages = {1, 2}
  PingEvery = 1
  CloseGrace = 1
  Silence = 1
  NeverOpened = 0
  Conditions <- Trees
  Outputs = {"", "x"}
  Counts = {1}
  MaxDepth = 3
  Members = {1, 2, 3}
  Graphs <- MCGraphs
  States <- MCStates
  Up = ".."
  Models = {1, 2}
  Addressed = {2}
  Sizes <- MCSizes
  Targets <- MCTargets
  Outcomes <- MCOutcomes
  Bar = 100
  MaxClock = 3
  Sessions = {"s"}
  Phrases = {"p", "q"}
  NoKey = "none"
  Weights <- MCWeights
  FrameSize = 3
  Other = "other"
  MaxSaves = 2
  Homes = {"here", "there"}
  Online = {"here"}
  Repositories = {"r1"}
  LocalName <- MCLocalName
  Names = {"u"}
  Origins = {"hf"}
  Contents = {"w1", "w2"}
  Plans <- MCPlans
  Received <- MCReceived
  MaxChanges = 1
  MaxCopies = 1
  MaxJobs = 2
  Installers = {1, 2}
  Builds <- MCBuilds
  Git = {"git"}
  Unzipped <- MCArchive
  Hosts <- MCHosts
  InStore = {"w1"}
  MaxMoves = 1
  MaxTries = 2
  NoTarget = NoTarget
  NoChoice = NoChoice
INVARIANTS
  FilesHold
  DetachedRunsAreFound
  SecretsAreWhatWasWritten
  EditorOutlivesItsPages
  ConditionsAreUnderstood
  WorkflowsAreOrdered
  ChoiceIsDefensible
  EvaluationsAreEarned
  ComparisonsShowLosses
  CheckpointsRestore
  UnitsArriveWhole
CHECK_DEADLOCK FALSE
