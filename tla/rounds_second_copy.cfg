SPECIFICATION Spec
CONSTANTS
  Nodes = {a, b}
  Relays = {r1, r2}
  Initiators = {a, b}
  MaxStarts = 1
  MaxLosses = 0
  MaxCrashes = 0
  PipeSize = 5
INVARIANT DoneByLeader
CHECK_DEADLOCK FALSE
