SPECIFICATION FairSpec
CONSTANTS
  t1 = t1
  t2 = t2
  t3 = t3
  t4 = t4
  w1 = w1
  w2 = w2
  w3 = w3
  Tasks <- TwoTasks
  Threads <- TwoThreads
  Core = 1
  Max = 2
  QueueCapacity = 1
  MaxCreationFailures = 1
  NoTask = NoTask
PROPERTIES
  AcceptedTasksSettle
  CallersReturn
