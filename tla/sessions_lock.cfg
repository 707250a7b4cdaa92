SPECIFICATION SafeSpec
CONSTANTS
  MaxInt = 1000
  c1 = c1
  c2 = c2
  Clients <- TwoClients
  VertexNumbers <- TwoVertices
  EdgeWeights <- Light
  InitSizes <- UpToTwo
  MaxRequests = 3
  MaxAnnounced = 1
SYMMETRY Symmetry
CHECK_DEADLOCK FALSE
INVARIANTS
  TypeOK
  LockHeldByOne
  LocalsFresh
PROPERTIES
  CommandIsolated
