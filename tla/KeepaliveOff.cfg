CONSTANTS
  c1 = c1
  c2 = c2
  c3 = c3
  a1 = a1
  a2 = a2
  p1 = p1
  p2 = p2
  NULL = NULL
  Conn = {c1, c2, c3}
  Addr = {a1, a2}
  Peer = {p1, p2}
  MaxCached = 0
  Careless = TRUE
  SlotFailures = FALSE
SPECIFICATION Spec
PROPERTIES
  LiveConnStaysOpen
