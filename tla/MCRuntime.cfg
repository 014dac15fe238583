CONSTANT Setups <- AllSetups
SPECIFICATION Spec
INVARIANTS
  TypeOK
  NoFailureHidden
  ClosedLast
  OnlyInterruptCancels
PROPERTIES
  EndIsReached
