----------------------------- MODULE MCIpBridge -----------------------------
(* Two associations, one virtual node id, packets for one node of the HAN.  *)
EXTENDS IpBridge
=============================================================================
