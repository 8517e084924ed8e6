SPECIFICATION StartSpec
CONSTANTS
  Tokens <- MCTokens
  MaxTokens = 5
  MAX_ARGS = 6
  MAX_SUN_PATH = 2
  DefaultPath <- MCDefaultPath
  MaxAllocFails = 1
  SaveptrKept = TRUE
  MayFail = {"register", "fmt", "socket", "bind", "chmod", "buffers"}
INVARIANTS ArgvFaithful PathsReadBack PathsAsConfigured NothingLeft
  RefusedOnlyAtLimit
CHECK_DEADLOCK FALSE
