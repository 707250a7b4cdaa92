\* A reply that comes after more than 100 ms of silence.
SPECIFICATION Spec
CONSTANTS
  MaxEdges = 2
  MaxInFlight = 2
CHECK_DEADLOCK FALSE
INVARIANTS
  DelaysHandled
