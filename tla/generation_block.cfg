SPECIFICATION Spec
CONSTANTS
  Nodes = {l, f}
  Leader = l
  Relays = {r}
  Links <- NoEcho
  Tokens = {0, 5}
  Eos = 0
  Levels = {1}
  Prompt <- MCPrompt
  GenStart = 1
  GenLength = 4
  BlockLength = 2
  Steps = 6
  SyncEvery = 2
  RemaskReserve = 1
  MinGenLength = 4
  StopRunMin = 1
  StopConfirmations = 1
  Impatient = {l}
  Crashable = {}
INVARIANTS Agreement NoInventedToken GapFree CommitsInBlock
PROPERTY SettledStays
CHECK_DEADLOCK FALSE
