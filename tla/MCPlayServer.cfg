\* One network for the life of the process, as the cache's comment assumes; a /dev board
\* of two games and three requests; appends that fail leave nothing behind; and
\* no opponent is chosen while a request is out.
SPECIFICATION ServerSpec
CONSTANTS
  Parts = {"moves", "games", "store", "page"}
  Browsers = {p1, p2}
  Nets = {net}
  open = open
  fenced = fenced
  Keys <- MCKeys
  Walls <- MCWalls
  Legal <- MCLegal
  Level <- MCLevel
  BatchSize = 2
  MaxLeaves = 3
  FlatLimit = 2
  SameLimit = 3
  Garbage = garbage
  Blind = blind
  Constant = constant
  NoRecord = noRecord
  Requests = {r1, r2, r3}
  MAX_GAMES = 2
  LastId = 3
  LastPly = 4
  Guests = {guest, other}
  Accounts = {account}
  Logins = {ada}
  Names = {n1, n2}
  Games = {g1, g2}
  Results = {"win", "forfeit"}
  TornWrites = FALSE
  MaxRows = 2
  MaxLines = 2
  Opponents = {"low", "high"}
  ATTEMPTS = 4
  SwitchWhileBusy = FALSE
  Refused <- MCRefused
  MaxPlies = 3
  MaxStarted = 2
  MaxReloads = 2
INVARIANTS FedWhatItsNetworkSays AnswersApplyToTheirPosition AcknowledgedIsKept GameIsOneMatch
PROPERTIES ServedMovesAreTheNetworks EveryTurnIsAnswered
\* Nothing happens once every game the bounds allow is over.
CHECK_DEADLOCK FALSE
