CONSTANTS
  NULL = NULL
  Requests <- AccessCases
  ScriptStatus = {"OTHER"}
  MaxOutput = 1
  MaxYields = 0
  MaxRedirects = 0
SPECIFICATION Spec
PROPERTIES
  ExitIsLast
