SPECIFICATION Spec
CONSTANTS
  Runners = {r1, r2}
  None = None
  Staggered = FALSE
  Ops = {a}
  Launches = 1
  MaxFaults = 0
  MaxRetries = 0
  RetryErrored = TRUE
  Chatty = FALSE
INVARIANT
  LockExclusive
