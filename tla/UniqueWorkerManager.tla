------------------------ MODULE UniqueWorkerManager ------------------------
(***************************************************************************)
(* The connection table of a socket service                                *)
(* (msg-worker-managers/unique-worker-manager.cc): three hash maps behind  *)
(* one spin lock, so that every public method is one atomic action.        *)
(*                                                                         *)
(* A handler is one TCP connection.  Its logic peer is the address users   *)
(* name (remote ip and the remote's logic port); its real peer is the      *)
(* address of the socket's remote end.  A map entry that is absent in the  *)
(* code is NoHandler or NoPeer here.                                       *)
(***************************************************************************)
CONSTANTS Handler, Peer, NoHandler, NoPeer,
          LogicPeer,    \* the logic peer of each handler
          RealPeer      \* the real peer of each handler

ASSUME PeersOfHandlers ==
    /\ LogicPeer \in [Handler -> Peer]
    /\ RealPeer \in [Handler -> Peer]
    /\ NoHandler \notin Handler
    /\ NoPeer \notin Peer

\* One remote socket address belongs to one logic peer.
ASSUME RealDeterminesLogic ==
    \A g, h \in Handler : RealPeer[g] = RealPeer[h] => LogicPeer[g] = LogicPeer[h]

VARIABLES
    workers,     \* m_hmap_workers:    logic peer -> handler
    rpLp,        \* m_hmap_rp_lp:      real peer  -> logic peer
    handlerRp    \* m_hmap_handler_rp: handler    -> real peer

mgrVars == <<workers, rpLp, handlerRp>>

MgrInit == /\ workers = [p \in Peer |-> NoHandler]
           /\ rpLp = [p \in Peer |-> NoPeer]
           /\ handlerRp = [h \in Handler |-> NoPeer]

-----------------------------------------------------------------------------
\* PutWorkerEventHandler succeeds only while the logic peer has no handler.
CanPut(h) == workers[LogicPeer[h]] = NoHandler

Put(h) ==
    IF CanPut(h)
    THEN /\ workers' = [workers EXCEPT ![LogicPeer[h]] = h]
         /\ rpLp' = [rpLp EXCEPT ![RealPeer[h]] = LogicPeer[h]]
         /\ handlerRp' = [handlerRp EXCEPT ![h] = RealPeer[h]]
    ELSE UNCHANGED mgrVars

\* RemoveWorkerEventHandler(logicNpt, realNpt): what it returns, and its effect.
\* The entry of m_hmap_handler_rp stays behind.
RemovedByBoth(l, r) == IF rpLp[r] = NoPeer THEN NoHandler ELSE workers[l]

RemoveByBoth(l, r) ==
    /\ rpLp' = [rpLp EXCEPT ![r] = NoPeer]
    /\ workers' = IF rpLp[r] = NoPeer THEN workers
                                      ELSE [workers EXCEPT ![l] = NoHandler]
    /\ UNCHANGED handlerRp

\* Mutants of RemoveByLogic: the real peer stays on file; the handler does.
RemoveByLogicKeepsRealPeer(l) ==
    LET h == workers[l] IN
    IF h = NoHandler
    THEN UNCHANGED mgrVars
    ELSE /\ workers' = [workers EXCEPT ![l] = NoHandler]
         /\ handlerRp' = [handlerRp EXCEPT ![h] = NoPeer]
         /\ UNCHANGED rpLp

RemoveByLogicKeepsHandler(l) ==
    LET h == workers[l] IN
    IF h = NoHandler
    THEN UNCHANGED mgrVars
    ELSE /\ rpLp' = [rpLp EXCEPT ![handlerRp[h]] = NoPeer]
         /\ handlerRp' = [handlerRp EXCEPT ![h] = NoPeer]
         /\ UNCHANGED workers

\* RemoveWorkerEventHandler(logicNpt).
RemoveByLogic(l) ==
    LET h == workers[l] IN
    IF h = NoHandler
    THEN UNCHANGED mgrVars
    ELSE /\ workers' = [workers EXCEPT ![l] = NoHandler]
         /\ rpLp' = [rpLp EXCEPT ![handlerRp[h]] = NoPeer]
         /\ handlerRp' = [handlerRp EXCEPT ![h] = NoPeer]

-----------------------------------------------------------------------------
(* The table under arbitrary callers: handshakes register handlers, the    *)
(* event loops report finished ones, users disconnect peers.               *)
MgrNext == \/ \E h \in Handler : Put(h)
           \/ \E h \in Handler : RemoveByBoth(LogicPeer[h], RealPeer[h])
           \/ \E p \in Peer : RemoveByLogic(p)

MgrSpec == MgrInit /\ [][MgrNext]_mgrVars

-----------------------------------------------------------------------------
MgrTypeOK == /\ workers \in [Peer -> Handler \cup {NoHandler}]
             /\ rpLp \in [Peer -> Peer \cup {NoPeer}]
             /\ handlerRp \in [Handler -> Peer \cup {NoPeer}]

\* A registered handler is filed under its own logic peer and its real peer is
\* remembered, so that RemoveByLogic always finds the real peer it must erase.
WorkersFiledRight ==
    \A p \in Peer : workers[p] # NoHandler =>
        LogicPeer[workers[p]] = p /\ handlerRp[workers[p]] = RealPeer[workers[p]]

\* m_hmap_rp_lp and m_hmap_workers describe the same connections: the real peers
\* on file are exactly those of the registered handlers, each under its logic
\* peer, whatever the order of Put, on_finish and Disconnect calls.
MapsAgree ==
    \A r \in Peer : \A l \in Peer :
        rpLp[r] = l <=> workers[l] # NoHandler /\ RealPeer[workers[l]] = r

MgrInv == MgrTypeOK /\ WorkersFiledRight /\ MapsAgree

\* on_finish(h) unregisters no other connection as long as no other handler has the
\* real peer of h, even when h was disconnected long ago and its logic peer has a new
\* handler.  (Dialled handlers of one peer do share it: see SocketService.)
OwnsRealPeer(h) == \A g \in Handler : RealPeer[g] = RealPeer[h] => g = h

FinishDropsOnlyItself ==
    \A h \in Handler : OwnsRealPeer(h) =>
        RemovedByBoth(LogicPeer[h], RealPeer[h]) \in {h, NoHandler}
=============================================================================
