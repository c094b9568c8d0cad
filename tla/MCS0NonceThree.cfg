CONSTANTS
  Locals = {g}
  Peers = {p}
  Ids = {1, 2, 3, 4, 5}
  PeerNonces <- MCPeerNonces
  TableSize = 6
  NonceTimeout = 1
  BlacklistSize = 2
  MaxDrawn = 6
SPECIFICATION Spec
INVARIANT AtMostThree
CHECK_DEADLOCK FALSE
