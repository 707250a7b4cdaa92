\* A signal while the main thread holds sharedGraphMutex.
SPECIFICATION Spec
CONSTANTS
  t1 = t1
  t2 = t2
  t3 = t3
  NoConnection = NoConnection
  Connections <- TwoConnections
  PoolSize = 2
  Signals = TRUE
CHECK_DEADLOCK FALSE
PROPERTIES
  SignalEndsProcess
