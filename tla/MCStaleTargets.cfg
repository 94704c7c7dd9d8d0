SPECIFICATION PartsSpec
CONSTANTS
  Parts = {"corpus"}
  MaxTrouble = 3
  Games = 2
  Slots = 2
  PlyCap = 3
  SampledPlies = 1
  PerShard = 2
  Legal <- MCLegal
  Outcome <- MCOutcome
  Leaves <- MCLeaves
  Best <- MCBest
  Support <- MCSupport
  NarrowFlat <- MCNarrowFlat
  Freshness = {FALSE}
  MaxCollections = 2
  MaxCrashes = 0
  Nets = {"P", "s1", "s2"}
  MatchGames = 4
  MatchSlots = 2
  MaxPlies = 2
  Breakage = 150
  Elo <- MCElo
  Ledgers <- MCLedgers
  MaxPrograms = 1
  Codes <- MCCodes
  Unit = 100
  Kinds <- MCKinds
  Worlds <- MCWorlds
  KindOf <- MCKindOf
  Settings <- MCSettings
INVARIANTS
  DeepTargetsOfTheirPosition
CHECK_DEADLOCK FALSE
