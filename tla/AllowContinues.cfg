SPECIFICATION Spec
CONSTANTS
  MaxRuns = 1
  Workers = {w1, w2}
  Outcomes <- CompletesOrConfirms
PROPERTIES
  AllowContinues
CHECK_DEADLOCK FALSE
