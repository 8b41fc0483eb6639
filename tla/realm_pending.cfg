SPECIFICATION AnswerSpec
CONSTANTS
  c1 = c1
  k1 = k1
  n1 = n1
  NULL = NULL
  Client = {c1}
  GS = {1}
  Link = {k1}
  Name = {n1}
  GsGameId = {7}
  MaxGames = {1}
  MaxRequests = 2
  IdleTimeout = FALSE
  Multilogin = TRUE
CHECK_DEADLOCK FALSE
PROPERTY
  PendingResolves
