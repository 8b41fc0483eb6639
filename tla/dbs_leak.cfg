SPECIFICATION Spec
CONSTANTS
  c1 = c1
  k1 = k1
  k2 = k2
  NULL = NULL
  Char = {c1}
  GsId = {1, 2, 3}
  Listed = {1, 2}
  Conn = {k1, k2}
  Cap = 2
INVARIANT
  LockGranted
