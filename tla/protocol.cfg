\* A client and its session, on a network in time and on one that is not.
SPECIFICATION Spec
CONSTANTS
  MaxEdges = 2
  MaxInFlight = 2
CHECK_DEADLOCK FALSE
INVARIANTS
  TypeOK
  ReplyMatches
  InStep
PROPERTIES
  GraphGivenBack
