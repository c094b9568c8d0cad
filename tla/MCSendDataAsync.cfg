CONSTANTS
  r1 = r1
  r2 = r2
  n1 = n1
  Requests = {r1, r2}
  Reports = {n1}
  Caller <- MCCaller
  Gets = {r2}
  Aborted = {}
  MayRefuse = {"chip"}
  PoolSize = 4
  QueueSize = 3
SPECIFICATION Spec
INVARIANT ReaderNeverBlocks
CHECK_DEADLOCK FALSE
