SPECIFICATION FairSpec
CONSTANTS
  MaxRounds = 2
  FailThreshold = 1
  DiagCap = 1
  PlanSizes = {3}
  MaxPlans = 6
  MaxKills = 1
PROPERTIES
  ReachesFinish
  SettlementsEnd
