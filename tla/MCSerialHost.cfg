SPECIFICATION LiveSpec
CONSTANTS
  Threads = {sapi, tcpip}
  Sapi = sapi
  NoThread = none
  Funcs <- MCFuncs
  QueueLen = 3
  TxTries = 2
  RxTries = 2
  MaxCalls = 2
  MaxFaults = 1
INVARIANTS TypeOK QueueIsOwed OwnAnswer
PROPERTIES OwnCallback CallReturns
CHECK_DEADLOCK FALSE
