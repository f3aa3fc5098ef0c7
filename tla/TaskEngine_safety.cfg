SPECIFICATION Spec
CONSTANTS
  MaxRounds = 4
  FailThreshold = 2
  DiagCap = 1
  PlanSizes = {3}
  MaxPlans = 3
  MaxKills = 1
INVARIANTS
  TypeOK
  SettledAgreesWithHistory
  BestIsLastKeep
PROPERTY PidsAreFresh
