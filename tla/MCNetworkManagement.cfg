SPECIFICATION Spec
CONSTANTS
  c1 = c1
  c2 = c2
  Clients <- TwoClients
  QueueLen = 3
  MaxCommands = 3
  MaxInitiates = 1
INVARIANTS
  TypeOK
  LockOnlyWhileAdding
  InvalidIdOnlyLearning
  OneChipMode
PROPERTIES
  QueueServed
CHECK_DEADLOCK FALSE
