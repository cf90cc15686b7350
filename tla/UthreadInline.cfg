CONSTANTS
  r1 = r1
  r2 = r2
  NULL = NULL
  Req = {r1, r2}
  HeadReq = {r2}
  Kind <- AllAndAccess
  ScriptStatus = {"HTTP_OK", "OTHER"}
  Fatals = TRUE
  MaxYields = 1
  MaxRedirects = 1
SPECIFICATION Spec
INVARIANTS
  OwnOutput
  ScriptForLiveRequest
  CountExact
  ParkedWakes
  NoStrayTimer
  InOrder
  OwnStatusUnlessSuspended
  ClosureDestroyedOnce
PROPERTIES
  ImplementsTurns
  Served
