\* The server process: two workers, three connections, so that one session
\* waits in the queue, and one signal.
SPECIFICATION Spec
CONSTANTS
  t1 = t1
  t2 = t2
  t3 = t3
  NoConnection = NoConnection
  Connections <- ThreeConnections
  PoolSize = 2
  Signals = TRUE
CHECK_DEADLOCK FALSE
INVARIANTS
  TypeOK
  NoEnqueueAfterStop
  DestroyedAfterWorkers
  OneJoinAtATime
PROPERTIES
  ShutdownCompletes
