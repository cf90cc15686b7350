CONSTANTS
  MaxLength = 7
  Files <- AllFiles
  Buffer = 4
SPECIFICATION Spec
INVARIANTS
  WindowTrue
  BlockRead
  BlockRefused
