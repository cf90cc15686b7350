CONSTANT
  Setups <- Scripts
SPECIFICATION Spec
INVARIANTS
  Wakes
  TimersAttached
  EndsClean
  OwnReply
  RecvReturnsData
PROPERTIES
  Finishes
  ExitReleases
