CONSTANTS
  Candidates <- SomeCandidates
  Listings <- SomeListings
  Deliveries <- SomeDeliveries
  Nothing = Nothing
SPECIFICATION Spec
INVARIANTS
  TransportKeptAsIs
CHECK_DEADLOCK FALSE
