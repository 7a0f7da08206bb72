---------------------------- MODULE MCHandshake ----------------------------
(* Nodes A and B: c1 and c2 are dialled by A, c3 by B.                     *)
EXTENDS Handshake

CONSTANTS A, B, c1, c2, c3

MCClient == [c \in Conn |-> IF c = c3 THEN B ELSE A]
MCServer == [c \in Conn |-> IF c = c3 THEN A ELSE B]
=============================================================================
