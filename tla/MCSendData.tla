----------------------------- MODULE MCSendData -----------------------------
(* Small instances of SendData: two contexts send one frame each, and       *)
(* sapi_t sends one nonce report and the second frame.                      *)
EXTENDS SendData, TLC

CONSTANTS r1, r2, n1

MCCaller == r1 :> "app" @@ r2 :> "sapi"
=============================================================================
