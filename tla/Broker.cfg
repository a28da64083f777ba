CONSTANTS
  a1 = a1
  q1 = q1
  q2 = q2
  Publishers <- OnePublisher
  Consumer = Consumer
  NoActor = NoActor
  MaxPublishes = 2
  AmqpMaxFaults = 2
  Queues <- TwoQueues
  MemoryQueue = q1
  ChatQueue = q2
  MaxRequests = 1
  t1 = t1
  i1 = i1
  i2 = i2
  k1 = k1
  k2 = k2
  c1 = c1
  c2 = c2
  Tasks <- OneTask
  Instances <- TwoInstances
  MaxRetries = 1
  NoTask = NoTask
  NoOwner = NoOwner
  Malformed = 0
  Faults <- NoRedelivery
  MaxFaults = 3
  Callers <- TwoModelCallers
  Threshold = 2
  HalfOpenMax = 2
  Attempts = 1
  Limits <- TwoLimits
  DailyLimit = 1
  Cost = 1
  LlmFaults <- AllLlmFaults
  LlmMaxFaults = 1
  McpCallers <- TwoToolCallers
  NoCaller = NoCaller
  MaxTries = 2
  McpMaxFaults = 3
SPECIFICATION BrokerSpec
INVARIANTS
  NoConnectionLeak StoppedMeansClosed ShutdownInOrder RetryBudget
  SlotsConserved OverspendBounded RetriesOnNewerClient
PROPERTIES
  ConsumerReturns CircuitRecovers CallsReturn

CHECK_DEADLOCK FALSE
