CONSTANTS
  p1 = p1
  p2 = p2
  v1 = v1
  v2 = v2
  w2 = w2
  r1 = r1
  MaxTurns = 2
  Reviewers <- TwoReviewers
  Faults <- AllFaults
  Picks <- AnyList
  Hasty = TRUE
  MaxDecisions = 2
  GosExperts = {1, 2}
  Goals = {1}
  Roots <- TheRoots
  Findings <- TheFindings
  RuleChildren <- TheRules
  TopScore = 3
  MinConfidence = 2
  GapDelta = 1
  MinSupport = 2
  MaxLevelSteps = 2
  SessionMaxSteps = 4
  MaxPlanItems = 2
  MaxHypotheses = 2
  RefineDepth = 3
  NoProgressLimit = 2
  Uploads <- ThreeUploads
  UserCalls <- OneUserCall
  SourceOf <- TheSources
  ContentOf <- TheContents
  NoDoc = NoDoc
  Patient = TRUE
  KbFaults <- AllKbFaults
  KbMaxFaults = 2
SPECIFICATION OperationsSpec
SYMMETRY Symmetry
INVARIANTS
  OneTurnAtATime ApprovalBuysOneRun WaitingIsListed
  SelfChecksHold RootCauseIsBacked
  ReadyIsSearchable SearchableIsListed IndexingIsUnderWay

CHECK_DEADLOCK FALSE
