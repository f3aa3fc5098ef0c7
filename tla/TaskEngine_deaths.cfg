SPECIFICATION Spec
CONSTANTS
  MaxRounds = 2
  FailThreshold = 2
  DiagCap = 2
  PlanSizes = {3}
  MaxPlans = 3
  MaxKills = 2
INVARIANTS
  Recoverable
  RoundsMatchHistory
  PendingIsLastRound
PROPERTY
  LedgerSpec
