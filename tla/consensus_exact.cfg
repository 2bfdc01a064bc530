SPECIFICATION Spec
CONSTANTS
  Nodes = {a, b, c}
  Tokens = {1, 2, 9}
  Levels <- MCLevels
  WholeMass = 9
  Mantissa = 10
INVARIANTS SameWinner JointBest ExactConsensus
CHECK_DEADLOCK FALSE
