\* Two clients: one owns the graph, the other is told that it is busy and does
\* not read that; main and the console thread wait for the mutexes.
SPECIFICATION Spec
CONSTANTS
  c1 = c1
  c2 = c2
  Nobody = Nobody
  Main = Main
  Console = Console
  Clients <- TwoClients
  MaxLines = 3
CHECK_DEADLOCK FALSE
INVARIANTS
  TypeOK
  CoutInnermost
PROPERTIES
  MutexesReleased
  ShutdownReturns
