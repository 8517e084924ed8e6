SPECIFICATION Spec
CONSTANTS
  Ctx = {c1}
  NoCtx = NoCtx
  Unencodable = {}
  Fd = {7}
  MaxInc = 1
  QLen = 2
  MaxKeepalives = 1
  MaxFaults = 1
  FaultKinds = {"rogue"}
  Token <- OwnToken
  OpenMayFail = FALSE
  CrashBeforeReply = TRUE
  DebugBuild = FALSE
SYMMETRY Symmetry
INVARIANTS RecycledClean
CHECK_DEADLOCK FALSE
