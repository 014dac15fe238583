CONSTANTS
  Events = {a, b}
  QueueMax = 3
  BatchMax = 2
  MaxEvents = 7
SPECIFICATION Spec
INVARIANTS
  LostBatchStaysUnconfirmed
