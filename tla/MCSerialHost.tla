---------------------------- MODULE MCSerialHost ----------------------------
(***************************************************************************)
(* sapi_t and one other caller, two calls of every kind and one or two     *)
(* events of the line or the chip, with a queue of three frames and two    *)
(* rounds.                                                                 *)
(***************************************************************************)
EXTENDS SerialHost

MCFuncs == {"SendData", "Query", "Plain"}
=============================================================================
