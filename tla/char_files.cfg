SPECIFICATION Spec
CONSTANTS
  NULL = NULL
  Account = {a, b}
  Gs = {g1, g2}
  MaxVer = 3
SYMMETRY MCSymmetry
INVARIANTS
  FilesMatch
  NewestKept
CHECK_DEADLOCK FALSE
