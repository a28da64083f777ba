CONSTANTS
  t1 = t1
  i1 = i1
  i2 = i2
  u1 = u1
  u2 = u2
  u3 = u3
  u4 = u4
  s1 = s1
  s2 = s2
  j1 = j1
  j2 = j2
  qa = qa
  p1 = p1
  p2 = p2
  x1 = x1
  x2 = x2
  Suffixes <- TwoSuffixes
  Tasks <- OneTask
  Instances <- TwoInstances
  MaxRetries = 1
  NoTask = NoTask
  NoOwner = NoOwner
  Malformed = 1
  Faults <- NoReruns
  MaxFaults = 2
  SessTurns <- FourTurns
  NoTurn = NoTurn
  OpsTurns <- OneOpsTurn
  Sessions <- TwoSessions
  SessionOf <- SessionOfTurn
  QuestionOf <- OneQuestion
  Pods <- TwoPods
  MaxSessions = 1
  WindowPairs = 1
  Affinity = TRUE
  SessFaults <- AllSessFaults
  SessMaxFaults = 1
  Processes <- TwoProcesses
  Rate = 1
  Capacity = 1
  Window = 2
  IdleLimit = 2
  MaxSkew = 1
  MaxTime = 3
SPECIFICATION ConversationSpec
SYMMETRY Symmetry
INVARIANTS
  ExclusiveExecution SessionExclusive SharedLimit BurstLimit
PROPERTIES KeepsPromise TurnSeesPredecessors

CHECK_DEADLOCK FALSE
