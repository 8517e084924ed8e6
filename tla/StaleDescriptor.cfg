SPECIFICATION Spec
CONSTANTS
  Ctx = {c1}
  NoCtx = NoCtx
  Unencodable = {}
  Fd = {7, 8}
  MaxInc = 2
  QLen = 2
  MaxKeepalives = 1
  MaxFaults = 0
  FaultKinds = {}
  Token <- OwnToken
  OpenMayFail = FALSE
  CrashBeforeReply = TRUE
  DebugBuild = FALSE
SYMMETRY Symmetry
INVARIANTS ReceivingScheduled
CHECK_DEADLOCK FALSE
