------------------------------ MODULE MCSec0Tx ------------------------------
(* Three frames to one node, the first in two parts, so that a session      *)
(* meets what the sessions before it have left behind.                      *)
EXTENDS Sec0Tx

CONSTANT n1

MCDest == [r \in Requests |-> n1]
MCParts == [r \in Requests |-> IF r = 1 THEN 2 ELSE 1]
=============================================================================
