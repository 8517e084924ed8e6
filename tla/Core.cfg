SPECIFICATION Spec
CONSTANTS
  Ctx = {c1, c2}
  NoCtx = NoCtx
  Unencodable = {}
  Fd = {7}
  MaxInc = 3
  QLen = 2
  MaxKeepalives = 1
  MaxFaults = 0
  FaultKinds = {}
  Token <- OwnToken
  OpenMayFail = FALSE
  CrashBeforeReply = TRUE
  DebugBuild = FALSE
SYMMETRY Symmetry
INVARIANTS TypeOK CtxOwnedOnce RequestsInOrder ConnectFirst ResponseExpected
  ConversationAligned RetryScheduled ReceivingScheduled ConnectAwaited
PROPERTIES NoFalseSuccess
CHECK_DEADLOCK FALSE
