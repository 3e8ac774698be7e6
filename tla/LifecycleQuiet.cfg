SPECIFICATION QuietSpec
CONSTANTS
  MaxRuns = 2
  Workers = {w1}
  Outcomes <- AnyOutcome
INVARIANTS
  SessionProjectsRun
  OneActiveRun
  PausedResumable
  CompletedThroughChain
PROPERTIES
  KeepsContract
CHECK_DEADLOCK FALSE
