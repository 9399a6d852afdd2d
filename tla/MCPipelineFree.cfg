SPECIFICATION Spec
CONSTANTS
  Input <- AllInputs
  MAX_OPTIONS = 9
  HasKey = FALSE
  Now = 10
  FudgeFactor = 3
  NULL = NULL
INVARIANT
  PayloadFreedOnce
CHECK_DEADLOCK FALSE
