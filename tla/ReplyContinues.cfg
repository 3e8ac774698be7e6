SPECIFICATION QuietSpec
CONSTANTS
  MaxRuns = 1
  Workers = {w1}
  Outcomes <- CompletesOrClarifies
PROPERTIES
  ReplyContinues
CHECK_DEADLOCK FALSE
