CONSTANTS
  spot_market = spot_market
  spot_depth = spot_depth
  usdm_mark = usdm_mark
  Connections <- ThreeGroups
  MaxAttempts <- OneReconnects
  MaxSequence <- OneReceivesMore
  NoConnection = NoConnection
SPECIFICATION Spec
INVARIANTS
  TypeOK
  NoFailureHidden
PROPERTIES
  MessagesAreNumbered
  FailureEndsRun
  KeepsContract
