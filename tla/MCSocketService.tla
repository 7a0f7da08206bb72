-------------------------- MODULE MCSocketService --------------------------
(* One service that dials p and accepts connections of p: c1 and c2 are    *)
(* dialled handlers of p (a connection and a reconnection), s1 is accepted *)
(* and comes from the remote port r1.                                      *)
EXTENDS SocketService, TLC

CONSTANTS c1, c2, s1, p, r1

MCPeer == {p, r1}
MCLogicPeer == [h \in Handler |-> p]
MCRealPeer == [h \in Handler |-> IF h \in Dialled THEN p ELSE r1]

\* Users, workers and the dialled handlers of p are interchangeable.
MCSymmetry == Permutations(User) \cup Permutations(Worker) \cup Permutations(Dialled)
=============================================================================
