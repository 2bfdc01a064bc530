SPECIFICATION Spec
CONSTANTS
  Nodes = {1, 2}
  Relays = {r1, r2}
  HeartbeatInterval = 2
  PeerTimeout = 6
  Skew <- OneAhead
  MaxDelay = 1
  MaxLost = 1
  MaxChanges = 3
  MaxTime = 10
INVARIANTS TypeOK NoFalseSuspicion OneLeader
CHECK_DEADLOCK FALSE
