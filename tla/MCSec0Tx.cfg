CONSTANTS
  n1 = n1
  NumRequests = 3
  Peers = {n1}
  Dest <- MCDest
  Parts <- MCParts
  NumSessions = 2
  MaxAsked = 1
  MayRefuse = TRUE
  MayOvertake = TRUE
  MayLearn = TRUE
SPECIFICATION FairSpec
INVARIANTS
  TypeOK
  LockOwnsSession
  AnsweredOnce
  OkMeansSent
PROPERTY EveryFrameAnswered
CHECK_DEADLOCK FALSE
