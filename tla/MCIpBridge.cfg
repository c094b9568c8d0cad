SPECIFICATION LiveSpec
CONSTANTS
  Nodes = {n1}
  Resources = {r1, r2}
  PoolSize = 2
  VirtualIds = {1}
  MaxPackets = 5
  MaxLoose = 2
  MaxFaults = 2
INVARIANTS TypeOK AnswersOwn TableOwnsSlots
PROPERTIES RemovesWhatWasAsked 
CHECK_DEADLOCK FALSE
