\* Four workers, as the server creates, and three tasks: enough for a task
\* queue longer than one, for followers asleep while another overtakes the
\* one that was notified, and for workers left without a task.  The refinement
\* of TaskPool includes its fairness, and tasks may block for ever.
SPECIFICATION Spec
CONSTANTS
  w1 = w1
  w2 = w2
  w3 = w3
  w4 = w4
  t1 = t1
  t2 = t2
  t3 = t3
  Workers <- FourWorkers
  Tasks <- ThreeTasks
  NoThread = NoThread
  NoTask = NoTask
INVARIANTS
  TypeOK
  LeaderExclusive
  TasksAccounted
  NoStrandedFollower
  NoStrandedLeader
  ExitDrains
PROPERTIES
  PoolSpec
  ExitReturns
  EveryTaskRuns
