CONSTANTS
  btc = btc
  eth = eth
  Symbols <- TwoSymbols
  Streams <- TwoStreams
  GroupOf <- OwnGroups
  Nobody = Nobody
  MaxSecond = 2
  MaxReceived = 4
  MaxConnection <- DepthReconnects
  MaxUpdate = 3
SYMMETRY SymbolsAlike
SPECIFICATION Spec
INVARIANTS
  TypeOK
  ShownIsLastSecond
  NoGapMissed
PROPERTIES
  GapsAreReal
CHECK_DEADLOCK FALSE
