SPECIFICATION FairSpec
CONSTANTS
  Ctx = {c1}
  NoCtx = NoCtx
  Unencodable = {}
  Fd = {7}
  MaxInc = 2
  QLen = 1
  MaxKeepalives = 1
  MaxFaults = 0
  FaultKinds = {}
  Token <- OwnToken
  OpenMayFail = FALSE
  CrashBeforeReply = TRUE
  DebugBuild = FALSE
PROPERTIES EveryCtxAnswered
CHECK_DEADLOCK FALSE
