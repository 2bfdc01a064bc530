SPECIFICATION Spec
CONSTANTS
  Nodes = {l}
  Leader = l
  Relays = {r}
  Links <- NoEcho
  Tokens = {0, 5}
  Eos = 0
  Levels = {1, 2}
  Prompt <- MCPrompt
  GenStart = 1
  GenLength = 3
  BlockLength = 3
  Steps = 3
  SyncEvery = 1
  RemaskReserve = 3
  MinGenLength = 0
  StopRunMin = 1
  StopConfirmations = 2
  Impatient = {}
  Crashable = {}
INVARIANTS PromptIntact
CHECK_DEADLOCK FALSE
