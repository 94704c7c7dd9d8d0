\* Four games and three workers; two sessions of one adapter sharing its audit recorder:
\* two decisions of one session in turn, or one decision of each at once.
SPECIFICATION PartsSpec
CONSTANTS
  Games = 4
  Values = {"wins", "loses", "draws", "baseline_forfeits", "candidate_forfeits"}
  Concurrency = 3
  Plans <- MCPlans
  Reports <- MCReports
  Sessions = {x1, x2}
  MaxSelections = 2
  MaxDecisions = 2
  TeardownMayFail = TRUE
INVARIANTS
  PromotionIsEarned
  NothingFromLiveChild
  AuditTellsTheTruth
PROPERTIES
  ConcurrencyIsInvisible
  EveryWaitEnds
CHECK_DEADLOCK FALSE
