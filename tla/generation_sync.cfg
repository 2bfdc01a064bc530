SPECIFICATION FairSpec
CONSTANTS
  Nodes = {l, f}
  Leader = l
  Relays = {r}
  Links <- NoEcho
  Tokens = {0, 5}
  Eos = 0
  Levels = {1, 2}
  Prompt <- MCPrompt
  GenStart = 1
  GenLength = 1
  BlockLength = 1
  Steps = 3
  SyncEvery = 1
  RemaskReserve = 1
  MinGenLength = 0
  StopRunMin = 1
  StopConfirmations = 1
  Impatient = {l, f}
  Crashable = {f}
INVARIANTS TypeOK Agreement BarrierSkew NoReportLost
PROPERTIES ImplementsText Termination
CHECK_DEADLOCK FALSE
