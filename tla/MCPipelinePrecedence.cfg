SPECIFICATION Spec
CONSTANTS
  Input <- AllInputs
  MAX_OPTIONS = 9
  HasKey = TRUE
  Now = 10
  FudgeFactor = 3
  NULL = NULL
INVARIANT
  EncryptedOptionsFirst
CHECK_DEADLOCK FALSE
