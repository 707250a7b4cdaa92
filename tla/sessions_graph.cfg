SPECIFICATION SafeSpec
CONSTANTS
  MaxInt = 1000
  c1 = c1
  c2 = c2
  Clients <- OneClient
  VertexNumbers <- ThreeVertices
  EdgeWeights <- LightOrHeavy
  InitSizes <- NegativeToThree
  MaxRequests = 3
  MaxAnnounced = 1
CHECK_DEADLOCK FALSE
PROPERTIES
  DirectionsKept
  ContiguityKept
