---------------------------- MODULE MCSendQueue ----------------------------
(* Two senders, two messages of two units, a socket buffer of one: a       *)
(* message is refused at its start and in its middle.                      *)
EXTENDS SendQueue
=============================================================================
