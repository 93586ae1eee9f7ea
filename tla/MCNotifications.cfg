SPECIFICATION FairSpec
CONSTANTS
  e1 = e1
  e2 = e2
  Events = {e1, e2}
  Workers = {w1, w2}
  Malformed = {e2}
  MaxAttempts = 2
  Lease = 1
  BatchSize = 1
  MaxDelay = 1
  RetryAfter = {1}
  Horizon = 1
  MaxAge = 2
  MaxFaults = 1
INVARIANTS
  IInv
  CopiesWithinAttempts
  GivesUpOnlyAtLimit
PROPERTIES
  ImplementsDelivery
  EveryEventIsSettled
