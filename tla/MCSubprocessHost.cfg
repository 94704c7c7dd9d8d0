SPECIFICATION FairSpec
CONSTANTS
  Calls = {c1, c2}
  MaxForged = 1
  SpawnMayFail = TRUE
INVARIANTS
  AnswerIsOwn
  FailsClosed
PROPERTIES
  EveryCallSettles
  TerminationCompletes
CHECK_DEADLOCK FALSE
