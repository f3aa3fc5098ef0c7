SPECIFICATION Spec
CONSTANTS
  MaxRounds = 3
  FailThreshold = 1
  DiagCap = 1
  PlanSizes = {3}
  MaxPlans = 3
  MaxKills = 0
PROPERTY DiagnoseEndsInNewPlan
