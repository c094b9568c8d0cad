----------------------------- MODULE MCS0Nonce -----------------------------
(* One gateway node and a few nonces of its peers.                             *)
EXTENDS S0Nonce

MCPeerNonces == {Nonce(1, 1), Nonce(2, 2), Nonce(3, 1)}
=============================================================================
