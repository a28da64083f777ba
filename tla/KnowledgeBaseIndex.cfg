CONSTANTS
  v1 = v1
  v2 = v2
  r1 = r1
  Uploads <- TwoVersions
  UserCalls <- OneUserCall
  SourceOf <- OneSource
  ContentOf <- OwnContent
  NoDoc = NoDoc
  Patient = TRUE
  KbFaults <- NoFaults
  KbMaxFaults = 0
SPECIFICATION KbSpec
INVARIANT LexicalFollowsFiles

CHECK_DEADLOCK FALSE
