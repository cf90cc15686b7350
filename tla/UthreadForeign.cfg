CONSTANTS
  r1 = r1
  r2 = r2
  NULL = NULL
  Req = {r1, r2}
  HeadReq = {}
  Kind <- BothAccessAndContent
  ScriptStatus = {"OTHER"}
  Fatals = FALSE
  MaxYields = 1
  MaxRedirects = 0
SPECIFICATION Spec
INVARIANTS
  ExitEndsCurrentRequest
