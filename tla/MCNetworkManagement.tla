------------------------ MODULE MCNetworkManagement ------------------------
(* Two clients, and a queue short enough to be full.                       *)
EXTENDS NetworkManagement

CONSTANTS c1, c2
TwoClients == {c1, c2}
=============================================================================
