CONSTANTS
  p1 = p1
  p2 = p2
  MaxTurns = 1
  Reviewers <- TwoReviewers
  Faults <- NoFaults
  Picks <- PendingList
  Hasty = FALSE
  MaxDecisions = 2
SPECIFICATION Spec
PROPERTY StatusOrder

CHECK_DEADLOCK FALSE
