CONSTANTS
  c1 = c1
  c2 = c2
  fact = fact
  g = g
  s1 = s1
  wide = wide
  w1 = w1
  Contents <- TwoContents
  Types <- OneType
  Groups <- OneGroup
  NoGroup = NoGroup
  NoEntry = NoEntry
  LtmSessions <- OneSession
  WidePlaces <- OneWidePlace
  LtmWorkers <- OneWorker
  MaxEntries = 2
  MaxPerSession = 2
  LtmMaxFaults = 0
  LtmMaxStores = 3
SPECIFICATION FairLtmSpec
PROPERTY RestatedMemoryLives

CHECK_DEADLOCK FALSE
