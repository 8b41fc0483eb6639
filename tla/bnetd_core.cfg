SPECIFICATION Spec
CONSTANTS
  NULL = NULL
  Conn = {c1, c2, c3}
  Account = {ann, bob}
  ann = ann
  bob = bob
  UserFlags <- MCUserFlags
  maxusers_per_channel = 1
  Wins = {ann}
  GameName = {m, n}
  m = m
  n = n
  GameId = {1, 2}
  Status = {"full", "started", "done"}
  ChannelFile <- MCChannelFile
  Void <- MCVoid
  Use <- MCUse
SYMMETRY MCSymmetry
CHECK_DEADLOCK FALSE
INVARIANTS
  AccountLinked
  ChannelsLinked
  BansHold
  GamesLinked
  AvailableUnique
  ReportsFit
PROPERTIES
  GamesSealed
  RoomOnEntry
