SPECIFICATION Spec
CONSTANTS
  Requests = {q1, q2, q3, q4}
  NoRun = NoRun
SYMMETRY RequestSymmetry
INVARIANTS
  StartWhole
  OneStart
  ClaimBlocksRemoval
  RerunWhole
  FailedLeavesNothing
CHECK_DEADLOCK FALSE
