CONSTANTS
  http = http
  server = server
  a = a
  b = b
  NULL = NULL
  Level = {http, server, a, b}
  Root = http
  Parent <- ParentOf
  Location = {a, b}
  Order <- MergeOrder
  Phase = {"log", "header_filter", "opcode"}
SPECIFICATION Spec
INVARIANTS
  HandlerHasCode
  InnermostInlineRuns
  DefinedOnce
PROPERTIES
  MergeLeavesParent
