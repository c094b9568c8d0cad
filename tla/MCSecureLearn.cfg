CONSTANTS
  n1 = n1
  n2 = n2
  Nodes = {n1, n2}
  Secured = {n2}
  MaxRequests = 2
  MaxFrames = 2
SPECIFICATION LiveSpec
INVARIANTS TypeOK IdleIsClean
PROPERTIES AnswersOwn Settles
