SPECIFICATION Spec
CONSTANTS
  t1 = t1
  t2 = t2
  t3 = t3
  t4 = t4
  w1 = w1
  w2 = w2
  w3 = w3
  Tasks <- FourTasks
  Threads <- ThreeThreads
  Core = 1
  Max = 2
  QueueCapacity = 2
  MaxCreationFailures = 1
  NoTask = NoTask
SYMMETRY Symmetry
INVARIANTS
  Conservation
  ThreadCounts
  Provisioned
  WorkerWakeup
  SpaceWakeup
  IdleWakeup
  StoppedIsQuiet
PROPERTIES
  ImplementsExecutor
