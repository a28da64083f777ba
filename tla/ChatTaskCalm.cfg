CONSTANTS
  t1 = t1
  t2 = t2
  i1 = i1
  i2 = i2
  Tasks <- TwoTasks
  Instances <- TwoInstances
  MaxRetries = 1
  NoTask = NoTask
  NoOwner = NoOwner
  Malformed = 0
  Faults <- Calm
  MaxFaults = 1
SPECIFICATION CalmSpec
PROPERTY SettlesPromise
INVARIANTS NoTaskLost RunningHasRunner

CHECK_DEADLOCK FALSE
