SPECIFICATION Spec
CONSTANTS
  Nodes = {1, 2}
  Relays = {r1, r2}
  HeartbeatInterval = 2
  PeerTimeout = 6
  Skew <- NoSkew
  MaxDelay = 1
  MaxLost = 0
  MaxChanges = 3
  MaxTime = 9
INVARIANT ByeIsFinal
CHECK_DEADLOCK FALSE
