CONSTANTS
  r1 = r1
  r2 = r2
  NULL = NULL
  Req = {r1}
  HeadReq = {}
  Kind <- JustContent
  ScriptStatus = {"OTHER"}
  Fatals = FALSE
  MaxYields = 1
  MaxRedirects = 0
SPECIFICATION Spec
INVARIANTS
  ExitEndsRequest
