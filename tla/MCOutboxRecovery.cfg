SPECIFICATION Spec
CONSTANTS
  NumEvents = 1
  Workers = {w1, w2}
  MaxAttempts = 2
  Lease = 2
  BatchLimit = 1
  PauseAfterClaim = FALSE
  MaxTime = 5
  MaxCrashes = 1
  MaxRetries = 0
INVARIANTS
  StaleLeaseIsEligible
CHECK_DEADLOCK FALSE
