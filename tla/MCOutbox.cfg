SPECIFICATION Spec
CONSTANTS
  NumEvents = 2
  Workers = {w1, w2}
  MaxAttempts = 2
  Lease = 2
  BatchLimit = 1
  PauseAfterClaim = FALSE
  MaxTime = 3
  MaxCrashes = 1
  MaxRetries = 1
SYMMETRY WorkerSymmetry
INVARIANTS
  ActiveLeaseUndisturbed
  GaugesMatchProcessor
PROPERTIES
  FencedFinalization
  BudgetResetOnlyWhenExhausted
  ImplementsDelivery
CHECK_DEADLOCK FALSE
