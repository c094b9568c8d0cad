SPECIFICATION Spec
CONSTANTS
  Threads = {sapi, tcpip}
  Sapi = sapi
  NoThread = none
  Funcs <- MCFuncs
  QueueLen = 3
  TxTries = 2
  RxTries = 2
  MaxCalls = 2
  MaxFaults = 2
INVARIANT QueueIsOwed
CHECK_DEADLOCK FALSE
