SPECIFICATION PartsSpec
CONSTANTS
  Parts = {"corpus", "ledger", "self-play"}
  MaxTrouble = 3
  Games = 2
  Slots = 2
  PlyCap = 3
  SampledPlies = 1
  PerShard = 2
  Legal <- MCLegal
  Outcome <- MCOutcome
  Leaves <- MCLeaves
  Best <- MCBest
  Support <- MCSupport
  NarrowFlat <- MCNarrowFlat
  Freshness = {TRUE, FALSE}
  MaxCollections = 2
  MaxCrashes = 2
  Nets = {"P", "s1", "s2"}
  MatchGames = 4
  MatchSlots = 2
  MaxPlies = 2
  Breakage = 150
  Elo <- MCElo
  Ledgers <- MCLedgers
  MaxPrograms = 2
  Codes <- MCCodes
  Unit = 100
  Kinds <- MCKinds
  Worlds <- MCWorlds
  KindOf <- MCKindOf
  Settings <- MCSettings
INVARIANTS
  SearchIsAccountedFor
  BudgetIsSpent
  RecordsTellTheGame
  EachNetPlaysItsOwnMoves
  ScreensOnlyHealthyArms
  CorpusTellsTheGames
  SetsOfOneMaking
PROPERTIES
  ResumeIsExact
CHECK_DEADLOCK FALSE
