SPECIFICATION FairSpec
CONSTANTS
  Nodes = {a, b}
  Relays = {r1, r2}
  Initiators = {a}
  MaxStarts = 1
  MaxLosses = 1
  MaxCrashes = 0
  PipeSize = 2
PROPERTY CompletionNoticed
CHECK_DEADLOCK FALSE
