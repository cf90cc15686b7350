CONSTANT
  Setups <- ReceiveLoop
SPECIFICATION Spec
INVARIANT
  RecvReturnsData
