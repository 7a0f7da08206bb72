---------------------------- MODULE MCLifecycle ----------------------------
(* Lifecycle for TLC: a user, a pool thread, two connection workers, and   *)
(* connections of one logic peer, dialled ones and accepted ones.          *)
EXTENDS Lifecycle

CONSTANTS p, r

MCWorkers == 0 .. 1
MCLogicPeer == [h \in Handlers |-> p]
MCRealPeer == [h \in Handlers |-> IF h \in Dialled THEN p ELSE r]
=============================================================================
