SPECIFICATION FairSpec
CONSTANTS
  Errors = {"e1", "e2", "e3"}
  Cases = {"c1", "c2"}
  Symbol <- SymbolOf
  MaxScore = 2
  NoResult = NoResult
  Outcomes <- Measurements
  MaxBootstrap = 3
  MaxRounds = 2
  MaxTotal = 3
  FailThreshold = 2
  MaxRestarts = 1
  MaxFaults = 1
  MayDie = TRUE
  Noisy = TRUE
INVARIANTS
  RunIsExact
  EditsRepairBase
PROPERTIES
  RepairAdvances
  RunEnds
CHECK_DEADLOCK FALSE
