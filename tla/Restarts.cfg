SPECIFICATION Spec
CONSTANTS
  Ctx = {c1, c2}
  NoCtx = NoCtx
  Unencodable = {}
  Fd = {7}
  MaxInc = 4
  QLen = 2
  MaxKeepalives = 1
  MaxFaults = 1
  FaultKinds = {"decode"}
  Token <- StaleToken
  OpenMayFail = FALSE
  CrashBeforeReply = TRUE
  DebugBuild = FALSE
SYMMETRY Symmetry
INVARIANTS ConnectFirst PurgeRealigns
PROPERTIES NoFalseSuccess
CHECK_DEADLOCK FALSE
