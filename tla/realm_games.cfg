SPECIFICATION Spec
CONSTANTS
  c1 = c1
  c2 = c2
  k1 = k1
  k2 = k2
  n1 = n1
  n2 = n2
  NULL = NULL
  Client = {c1, c2}
  GS = {1, 2}
  Link = {k1, k2}
  Name = {n1, n2}
  GsGameId = {7}
  MaxGames = {1, 2}
  MaxRequests = 3
  IdleTimeout = TRUE
  Multilogin = FALSE
SYMMETRY Symmetric
CONSTRAINT Small
CHECK_DEADLOCK FALSE
INVARIANTS
  RepliesFromOwner
  NamesUnique
  GamenumExact
  GamesOnLiveServer
  RegistryLinked
  QueueLinked
  CreatePendingOnce
  GameIdsUnique
