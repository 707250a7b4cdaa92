\* A client that disconnects while the server replies to it.
SPECIFICATION SafeSpec
CONSTANTS
  MaxInt = 1000
  c1 = c1
  c2 = c2
  Clients <- OneClient
  VertexNumbers <- TwoVertices
  EdgeWeights <- Light
  InitSizes <- UpToTwo
  MaxRequests = 1
  MaxAnnounced = 1
CHECK_DEADLOCK FALSE
INVARIANTS
  SurvivesDisconnect
