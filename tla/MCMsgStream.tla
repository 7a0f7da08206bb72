---------------------------- MODULE MCMsgStream ----------------------------
(* Payloads of one, two and three bytes, the longest allowed, behind       *)
(* headers of three fields of two bytes each (a byte has four values).     *)
EXTENDS MsgStream, TLC

CONSTANTS m1, m2, m3

MCPayloadLen == (m1 :> 1) @@ (m2 :> 2) @@ (m3 :> 3)
MCMsgId == (m1 :> 1) @@ (m2 :> 6) @@ (m3 :> 14)
=============================================================================
