SPECIFICATION StatsSpec
CONSTANTS
  Ctx = {c1}
  NoCtx = NoCtx
  Unencodable = {}
  Fd = {7}
  MaxInc = 2
  QLen = 1
  MaxKeepalives = 1
  Wrap = 2
  MaxFaults = 1
  FaultKinds = {"send", "recv", "decode", "refuse", "other", "rogue"}
  Token <- OwnToken
  OpenMayFail = TRUE
  CrashBeforeReply = TRUE
  DebugBuild = FALSE
INVARIANTS TypeOK  
PROPERTIES ImplementsFlow
CHECK_DEADLOCK FALSE
