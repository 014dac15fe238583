CONSTANTS
  r1 = r1
  r2 = r2
  c1 = c1
  c2 = c2
  small = small
  large = large
  shared = shared
  broken = broken
  oversize = oversize
  Routes = {r1, r2}
  Connections = {c1, c2}
  Documents = {small, large, shared, broken, oversize}
  Unencodable = {broken}
  RouteOf <- MCRouteOf
  SizeOf <- MCSizeOf
  SourcesOf <- MCSourcesOf
  BufferMaxDocuments = 3
  BufferMaxBytes = 4
  BatchMaxDocuments = 2
  BatchMaxBytes = 2
  MaxConcurrentWrites = 1
  MaxEvents = 4
SPECIFICATION Spec
PROPERTIES
  DeliverySpec
  BlockedWriteEnds
  FailureEndsRun
