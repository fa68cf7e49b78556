SPECIFICATION FairSpec
CONSTANTS
  Units <- MCUnits
  Jobs <- MCJobs
  Offers <- MCOffers
  Calls <- MCCalls
  Earlier <- MCEarlier
  Stored = {"cert", "key"}
  MaxTurns = 2
  MaxRuns = 2
INVARIANTS
  TypeOK
  ConversationsWhole
  NothingLeft
  Equipped
PROPERTIES
  HistoryKept
  RunEnds
CHECK_DEADLOCK FALSE
