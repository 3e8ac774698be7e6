SPECIFICATION Spec
CONSTANTS
  MaxRuns = 1
  Workers = {w1}
  Outcomes <- OnlyCompletes
PROPERTIES
  PauseHolds
CHECK_DEADLOCK FALSE
