SPECIFICATION StartSpec
CONSTANTS
  Tokens <- MCTokens
  MaxTokens = 2
  MAX_ARGS = 6
  MAX_SUN_PATH = 2
  DefaultPath <- MCDefaultPath
  MaxAllocFails = 0
  SaveptrKept = FALSE
  MayFail = {}
INVARIANTS TokenizeSafe
CHECK_DEADLOCK FALSE
