CONSTANTS
  LastDelay = 2
  BufferMax = 2
  MaxConnections = 5
  MaxMessages = 4
SPECIFICATION Spec
INVARIANTS
  RejectionsBackOff
