SPECIFICATION Spec
CONSTANTS
  Lanes <- MCLanes
  Tasks <- MCTasks
  Queue <- MCQueue
  OtherIds = {}
  HandClaims <- MCHandClaims
  MaxCommits = 1
  MaxMerges = 2
INVARIANTS
  IngestedIsCommitted
  
  AdvanceKeepsApart
CHECK_DEADLOCK FALSE
