SPECIFICATION Spec
CONSTANTS
  NULL = NULL
  MaxVer = 2
  Flush = {TRUE, FALSE}
INVARIANT
  NoPartialSave
CHECK_DEADLOCK FALSE
