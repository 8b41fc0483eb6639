SPECIFICATION Spec
CONSTANTS
  NULL = NULL
  Client = {1, 2}
  Session = {s1}
  Char = {x, y}
  x = x
  y = y
  s1 = s1
  Bound <- MCTwoLogins
  HashMeets <- MCApart
CHECK_DEADLOCK FALSE
INVARIANT
  OneLogin
