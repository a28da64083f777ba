CONSTANTS
  u1 = u1
  u2 = u2
  u3 = u3
  s1 = s1
  j1 = j1
  j2 = j2
  qa = qa
  SessTurns <- ThreeTurns
  NoTurn = NoTurn
  OpsTurns <- NoOpsTurn
  Sessions <- OneSession
  SessionOf <- SessionOfTurn
  QuestionOf <- OneQuestion
  Pods <- TwoPods
  MaxSessions = 1
  WindowPairs = 3
  Affinity = FALSE
  SessFaults <- NoSessFaults
  SessMaxFaults = 0
SPECIFICATION FairSessSpec
PROPERTY TurnSeesPredecessors

CHECK_DEADLOCK FALSE
