SPECIFICATION Spec
CONSTANTS
  NULL = NULL
  MaxVer = 4
  Flush = {TRUE}
INVARIANTS
  Recoverable
  NoPartialSave
  NoRollback
CHECK_DEADLOCK FALSE
