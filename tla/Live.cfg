SPECIFICATION FairSpec
CONSTANTS
  Ctx = {c1, c2}
  NoCtx = NoCtx
  Unencodable = {}
  Fd = {7}
  MaxInc = 2
  QLen = 1
  MaxKeepalives = 1
  MaxFaults = 0
  FaultKinds = {}
  Token <- OwnToken
  OpenMayFail = FALSE
  CrashBeforeReply = FALSE
  DebugBuild = FALSE
PROPERTIES EveryCtxAnswered RefreshHonoured
CHECK_DEADLOCK FALSE
