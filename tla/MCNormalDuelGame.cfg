SPECIFICATION GameSpec
CONSTANTS
  Rows = 3
  Cols = 3
  StockA = 0
  StockB = 1
  RepetitionThreshold = 3
  PlyCap = 9
  FirstPlayer = "B"
INVARIANTS
  OutcomeOfWholeGame
CHECK_DEADLOCK FALSE
