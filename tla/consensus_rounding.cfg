SPECIFICATION Spec
CONSTANTS
  Nodes = {a, b, c}
  Tokens = {1, 2}
  Levels <- MCRoundLevels
  WholeMass = 8
  Mantissa = 3
INVARIANTS SameWinner
CHECK_DEADLOCK FALSE
