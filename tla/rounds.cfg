SPECIFICATION FairSpec
CONSTANTS
  Nodes = {a, b}
  Relays = {r1, r2}
  Initiators = {a, b}
  MaxStarts = 1
  MaxLosses = 0
  MaxCrashes = 1
  PipeSize = 2
INVARIANTS TypeOK JoinsPerCopy EndUnderWay
PROPERTIES RoundLocked RoundClosed
CHECK_DEADLOCK FALSE
