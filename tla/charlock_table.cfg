SPECIFICATION Spec
CONSTANTS
  a = a
  b = b
  c = c
  n1 = n1
  n2 = n2
  n3 = n3
  NULL = NULL
  Char = {a, b, c}
  GsId = {1, 2, 3}
  Node = {n1, n2, n3}
  TblLen = 2
  GsMax = 2
  Hash <- MCHash
INVARIANTS
  NoDangling
  GsqLinked
PROPERTIES
  UnlockAllComplete
  OthersKept
  ImplementsCharLock
