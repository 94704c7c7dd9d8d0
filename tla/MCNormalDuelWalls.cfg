SPECIFICATION FairSpec
CONSTANTS
  Rows = 3
  Cols = 3
  StockA = 2
  StockB = 1
  RepetitionThreshold = 2
  PlyCap = 5
  FirstPlayer = "A"
INVARIANTS
  ValidState
  EntryPointsAgree
  RecordsInvert
  RecordsAreJudged
  DistancesAgree
  PerftCountsWalks
  ClientPlaysByTheRules
PROPERTIES
  EveryGameEnds
CHECK_DEADLOCK FALSE
