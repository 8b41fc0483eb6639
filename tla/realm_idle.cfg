SPECIFICATION FairSpec
CONSTANTS
  c1 = c1
  k1 = k1
  k2 = k2
  n1 = n1
  NULL = NULL
  Client = {c1}
  GS = {1}
  Link = {k1, k2}
  Name = {n1}
  GsGameId = {7}
  MaxGames = {1}
  MaxRequests = 2
  IdleTimeout = TRUE
  Multilogin = TRUE
CHECK_DEADLOCK FALSE
PROPERTY
  PendingResolves
