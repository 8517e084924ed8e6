SPECIFICATION Spec
CONSTANTS
  Ctx = {c1, c2}
  NoCtx = NoCtx
  Unencodable = {c1}
  Fd = {7, 8}
  MaxInc = 2
  QLen = 1
  MaxKeepalives = 1
  MaxFaults = 1
  FaultKinds = {"send", "recv", "refuse", "other"}
  Token <- OwnToken
  OpenMayFail = TRUE
  CrashBeforeReply = TRUE
  DebugBuild = TRUE
INVARIANTS GivesUpOnlyWithoutSocket ResponseExpected ConversationAligned
PROPERTIES NoFalseSuccess ImplementsFlow
CHECK_DEADLOCK FALSE
