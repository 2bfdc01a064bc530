SPECIFICATION Spec
CONSTANTS
  Nodes = {l, f}
  Leader = l
  Self = f
  Relays = {r1}
  HeartbeatInterval = 2
  RoundLeaderTimeout = 8
  StepTime = 3
  SyncEvery = 5
  MaxTime = 40
INVARIANT NoFalseTimeout
CHECK_DEADLOCK FALSE
