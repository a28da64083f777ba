CONSTANTS
  t1 = t1
  t2 = t2
  i1 = i1
  i2 = i2
  Tasks <- OneTask
  Instances <- TwoInstances
  MaxRetries = 1
  NoTask = NoTask
  NoOwner = NoOwner
  Malformed = 0
  Faults <- CrashOnly
  MaxFaults = 1
SPECIFICATION Spec
INVARIANT NoTaskLost

CHECK_DEADLOCK FALSE
