SPECIFICATION FairSpec
CONSTANTS
  NULL = NULL
  Client = {1, 2}
  Session = {s1}
  Char = {x, y}
  x = x
  y = y
  s1 = s1
  Bound <- MCBound
  HashMeets <- MCMeets
CHECK_DEADLOCK FALSE
INVARIANTS
  RealmLinked
  AnswersMatch
  DeadExact
PROPERTIES
  SummaryOfChar
  RealmComesBack
  LeaversReaped
