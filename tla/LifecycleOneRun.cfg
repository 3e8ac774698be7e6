SPECIFICATION FairSpec
CONSTANTS
  MaxRuns = 1
  Outcomes <- AnyOutcome
  Workers = {w1, w2}
INVARIANTS
  TypeOK
  GateIntegrity
  WaitCoherent
  TerminalClean
  OneDriver
PROPERTIES
  CompletedIsFinal
  WorkersComeToRest
CHECK_DEADLOCK FALSE
