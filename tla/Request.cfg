CONSTANTS
  NULL = NULL
  Requests <- Cases
  ScriptStatus = {"HTTP_OK", "REDIRECT", "OTHER", "ERROR"}
  MaxOutput = 2
  MaxYields = 1
  MaxRedirects = 1
SPECIFICATION Spec
INVARIANTS
  CountExact
  BodyFirst
  StartsOnce
  LengthTrue
  ParkedWakes
PROPERTIES
  ExitIsLast
  Served
