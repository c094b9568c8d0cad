CONSTANTS
  r1 = r1
  r2 = r2
  n1 = n1
  Requests = {r1, r2}
  Reports = {n1}
  Caller <- MCCaller
  Gets = {r2}
  Aborted = {r2}
  MayRefuse = {"chip", "response"}
  PoolSize = 3
  QueueSize = 3
SPECIFICATION FairSpec
INVARIANTS
  TypeOK
  NoLostWakeupLL
  LockLLOwned
  NoLostWakeup
  CallbackAtMostOnce
  ListsDisjoint
  OwnStatus
PROPERTIES
  ImplementsSendLayer
  EveryFrameAnswered
CHECK_DEADLOCK FALSE
