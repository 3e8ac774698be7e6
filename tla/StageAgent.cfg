SPECIFICATION Spec
CONSTANTS
  Messages <- MCMessages
  ModelFailures <- MCModelFailures
  AllowedTools <- MCTools
  MayClarify = TRUE
  Evidence <- MCEvidence
  EvidenceStatuses <- MCEvidenceStatuses
  ProposedPayload <- MCProposed
  MaxIterations = 3
  MaxToolCalls = 3
  MaxRepairs = 1
  NetworkRetries = 1
  RateRetries = 1
  FailureThreshold = 2
INVARIANTS
  RiskyRunsAsked
  EffectsAudited
  EvidenceIsReal
  BudgetHolds
  DeniedNotExecuted
PROPERTIES
  OpenEndsStage
  StageReturns
CHECK_DEADLOCK FALSE
