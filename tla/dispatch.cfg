SPECIFICATION Spec
CONSTANTS
  none = none
  Worlds <- MCWorlds
  Requests <- MCRequests
INVARIANTS DecidedByPriority NoSpoof SendsAsEntitled OwnNamesAccepted WritersEntitled EntitledHeard
CHECK_DEADLOCK FALSE
