SPECIFICATION FairSpec
CONSTANTS
  Runners = {r1, r2}
  None = None
  Staggered = TRUE
  Ops = {a, b}
  Launches = 2
  MaxFaults = 1
  MaxRetries = 0
  RetryErrored = TRUE
  Chatty = FALSE
INVARIANTS
  NoDoubleRun
  DoneIsFinished
PROPERTIES
  LockHolds
  EveryCaseSettles
