------------------------------ MODULE MCTimer ------------------------------
(* Two callbacks and three subscriptions over two instants: enough for     *)
(* two events at one time, for a refusal because of a later event, and for *)
(* ids that are each less than the other.                                  *)
EXTENDS Timer
=============================================================================
