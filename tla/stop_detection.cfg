SPECIFICATION Spec
CONSTANTS
  Eos = 0
  Tokens = {0, 1}
  GenStart = 2
  GenLength = 3
  MinGenLength = 1
  StopRunMin = 1
  StopConfirmations = 2
  MaxChecks = 4
INVARIANTS TypeOK StopConfirmed StopNotMissed
PROPERTIES StopOnlyLowered
CHECK_DEADLOCK FALSE
