SPECIFICATION Spec
CONSTANTS
  MaxCases = 2
  MaxEvals = 3
  MaxDeaths = 0
PROPERTIES
  CountNeverCollapses
CHECK_DEADLOCK FALSE
