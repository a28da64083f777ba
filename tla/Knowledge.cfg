CONSTANTS
  u1 = u1
  u2 = u2
  e1 = e1
  i1 = i1
  i2 = i2
  c1 = c1
  c2 = c2
  fact = fact
  preference = preference
  g = g
  s1 = s1
  s2 = s2
  wide = wide
  j1 = j1
  j2 = j2
  Turns <- TwoTurns
  Events <- OneEvent
  EventOf <- SameHash
  Instances <- TwoInstances
  MaxRetries = 1
  MaxJobs = 1
  NoOwner = NoOwner
  Faults <- AllFaults
  MaxFaults = 1
  Contents <- TwoContents
  Types <- TwoTypes
  Groups <- OneGroup
  NoGroup = NoGroup
  NoEntry = NoEntry
  LtmSessions <- TwoSessions
  WidePlaces <- OneWidePlace
  LtmWorkers <- TwoWorkers
  MaxEntries = 2
  MaxPerSession = 1
  LtmMaxFaults = 2
  LtmMaxStores = 3
SPECIFICATION KnowledgeSpec
SYMMETRY Symmetry
INVARIANTS
  LossesAccounted GroupExclusive StoreMirrorsMemory
PROPERTY CapsAfterStore

CHECK_DEADLOCK FALSE
