\* Liveness when workers are scheduled and clients answer or leave.
SPECIFICATION Spec
CONSTANTS
  MaxInt = 1000
  c1 = c1
  c2 = c2
  Clients <- TwoClients
  VertexNumbers <- TwoVertices
  EdgeWeights <- Light
  InitSizes <- UpToTwo
  MaxRequests = 2
  MaxAnnounced = 1
CHECK_DEADLOCK FALSE
PROPERTIES
  LockReleased
  SessionsEnd
