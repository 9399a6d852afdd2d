SPECIFICATION Spec
CONSTANTS
  Input <- AllInputs
  MAX_OPTIONS = 9
  HasKey = TRUE
  Now = 10
  FudgeFactor = 3
  NULL = NULL
INVARIANTS
  KeyRequired
  OptionsBounded
  OptionsKept
  StaleNotSent
CHECK_DEADLOCK FALSE
