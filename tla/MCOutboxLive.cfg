SPECIFICATION FairSpec
CONSTANTS
  NumEvents = 2
  Workers = {w1, w2}
  MaxAttempts = 2
  Lease = 1
  BatchLimit = 1
  PauseAfterClaim = FALSE
  MaxTime = 2
  MaxCrashes = 1
  MaxRetries = 0
PROPERTIES
  EventuallySettled
CHECK_DEADLOCK FALSE
