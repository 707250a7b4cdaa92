\* mst or a metric on a graph whose vertices have been renumbered.
SPECIFICATION SafeSpec
CONSTANTS
  MaxInt = 1000
  c1 = c1
  c2 = c2
  Clients <- OneClient
  VertexNumbers <- ThreeVertices
  EdgeWeights <- Light
  InitSizes <- UpToThree
  MaxRequests = 4
  MaxAnnounced = 1
CHECK_DEADLOCK FALSE
INVARIANTS
  NumbersInArrays
