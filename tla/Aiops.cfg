CONSTANTS
  p1 = p1
  d1 = d1
  d2 = d2
  c1 = c1
  i1 = i1
  i2 = i2
  Reviewers <- OneReviewer
  Picks <- PendingList
  Faults <- NoFaults
  Hasty = FALSE
  MaxTurns = 3
  MaxDecisions = 3
  Deliveries <- TwoDeliveries
  Changes <- OneChange
  Instances <- TwoInstances
  NoDelivery = NoDelivery
  CaFaults <- AllFaults
  MaxFaults = 2
SPECIFICATION AiopsSpec
INVARIANTS
  OneFanOut SucceededHasResult CardStands NoFalseTimeout
  DecidedIsUnlisted DecisionReachesTurn
PROPERTIES FollowedUp StatusOrder TurnsEnd

CHECK_DEADLOCK FALSE
