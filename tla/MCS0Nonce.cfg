CONSTANTS
  Locals = {g}
  Peers = {p}
  Ids = {1, 2}
  PeerNonces <- MCPeerNonces
  TableSize = 3
  NonceTimeout = 2
  BlacklistSize = 2
  MaxDrawn = 4
SPECIFICATION Spec
INVARIANTS
  TypeOK
  OneReplyNonce
  OpenedOnce
  SpentOnce
  LookupFinds
CHECK_DEADLOCK FALSE
