SPECIFICATION Spec
CONSTANTS
  Users <- MCUsers
  Workers <- MCWorkers
  Runs <- MCRuns
  MaxIndex = 4
  BatchLimit = 2
  Disturbances = 1
INVARIANTS
  ViewAgrees
  RequestsShown
  NothingPassedOver
PROPERTIES
  CommittedInOrder
  CommandsEnd
  EventsArrive
CHECK_DEADLOCK FALSE
