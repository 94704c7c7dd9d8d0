\* A per-game subprocess against a recycled candidate or an engine of this process.
SPECIFICATION HalvesSpec
CONSTANTS
  Pairings <- MCPairings
  Budget = 4
  Grace = 2
  MaxSetup = 4
  MaxObserve = 2
  MaxTeardown = 2
  Slip = 1
  MaxLag = 2
  MaxPly = 3
  Requests <- MCRequests
  MinimumPairs = 2
  GameEndings = {"wins", "loses", "draws", "candidate_forfeits"}
  Files = {"entry", "lib"}
  Entry = "entry"
  Bytes <- MCBytes
  Exports <- MCExports
  Sessions <- MCSessions
  Returned <- MCReturned
  MaxId = 2
  CandidateId = "wasm"
  Template = "official"
  PinnedIdentity <- MCPinned
  Disks <- MCDisks
  Changes <- MCChanges
  MaxChanges = 1
  MaxAdapters = 3
INVARIANTS
  SessionsRunTheRelease
  OnlyTheOfficialIsWrapped
  AnswersAreExact
  LedgerExact
  BothSawTheGame
  OnlyOffendersForfeit
  PassMeansPlayed
PROPERTIES
  ChildIsTheHostsChild
CHECK_DEADLOCK FALSE
