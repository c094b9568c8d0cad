CONSTANTS
  n1 = n1
  NumRequests = 2
  Peers = {n1}
  Dest <- MCDest
  Parts <- MCParts
  NumSessions = 2
  MaxAsked = 2
  MayRefuse = FALSE
  MayOvertake = FALSE
  MayLearn = FALSE
SPECIFICATION Spec
PROPERTY NonceGetAssert
CHECK_DEADLOCK FALSE
