\* The opponent is switched while the network is thinking.
SPECIFICATION ServerSpec
CONSTANTS
  Parts = {"page"}
  Browsers = {p1}
  Nets = {small, large}
  open = open
  fenced = fenced
  Keys <- MCKeys
  Walls <- MCWalls
  Legal <- MCLegal
  Level <- MCLevel
  BatchSize = 2
  MaxLeaves = 2
  FlatLimit = 2
  SameLimit = 3
  Garbage = garbage
  Blind = blind
  Constant = constant
  NoRecord = noRecord
  Requests = {r1, r2, r3}
  MAX_GAMES = 2
  LastId = 3
  LastPly = 4
  Guests = {guest, other}
  Accounts = {account}
  Logins = {ada}
  Names = {n1, n2}
  Games = {g1, g2}
  Results = {"win", "forfeit"}
  TornWrites = FALSE
  MaxRows = 2
  MaxLines = 2
  Opponents = {"low", "high"}
  ATTEMPTS = 4
  SwitchWhileBusy = TRUE
  Refused <- MCRefused
  MaxPlies = 3
  MaxStarted = 2
  MaxReloads = 2
INVARIANT GameIsOneMatch
