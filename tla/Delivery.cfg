SPECIFICATION Spec
CONSTANTS
  q1 = q1
  q2 = q2
  Runs <- MCRuns
  Repositories <- MCRepositories
  Credentials <- MCCredentials
  Requests <- MCRequests
  Changes = 4
  Attempts = 2
  Faults = 3
INVARIANTS
  FrozenAsChecked
  DeliveredWhole
PROPERTIES
  KeepsPromise
SYMMETRY Symmetry
CHECK_DEADLOCK FALSE
