CONSTANTS
  Candidates <- SomeCandidates
  Listings <- SomeListings
  Deliveries <- SomeDeliveries
  Nothing = Nothing
SPECIFICATION Spec
INVARIANTS
  AcceptedSettingsStart
  ValuesKept
  ReachesItsCollection
CHECK_DEADLOCK FALSE
