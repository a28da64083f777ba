CONSTANTS
  v1 = v1
  v2 = v2
  r1 = r1
  Uploads <- TwoVersions
  UserCalls <- OneUserCall
  SourceOf <- OneSource
  ContentOf <- OwnContent
  NoDoc = NoDoc
  Patient = TRUE
  KbFaults <- StoreFaults
  KbMaxFaults = 1
SPECIFICATION KbSpec
INVARIANT ReadyIsFoundAlone

CHECK_DEADLOCK FALSE
