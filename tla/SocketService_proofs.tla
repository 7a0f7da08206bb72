------------------------ MODULE SocketService_proofs ------------------------
(***************************************************************************)
(* What holds of the service for any number of threads, workers, handlers  *)
(* and peers: types, the consistency of the connection table under the     *)
(* service's own calls, that no request to a worker goes unheard, and that *)
(* a handler is deleted once and not met again by its worker's loop.       *)
(***************************************************************************)
EXTENDS SocketService, TLAPS

-----------------------------------------------------------------------------
(* The table by itself: its three maps stay consistent for every number of *)
(* handlers and peers, under any sequence of calls.                        *)

LEMMA InitMgrInv == MgrInit => MgrInv
BY PeersOfHandlers DEF MgrInit, MgrInv, MgrTypeOK, WorkersFiledRight, MapsAgree

\* Put files a handler in a free slot.  Its real peer cannot be on file already: it
\* would belong to the handler of the same logic peer.
LEMMA PutKeepsMgrInv ==
    ASSUME MgrInv, NEW h \in Handler, Put(h)
    PROVE  MgrInv'
<1>1. CASE ~CanPut(h)
  BY <1>1 DEF Put, mgrVars, MgrInv, MgrTypeOK, WorkersFiledRight, MapsAgree
<1>2. CASE CanPut(h)
  <2>0. /\ workers[LogicPeer[h]] = NoHandler
        /\ workers' = [workers EXCEPT ![LogicPeer[h]] = h]
        /\ rpLp' = [rpLp EXCEPT ![RealPeer[h]] = LogicPeer[h]]
        /\ handlerRp' = [handlerRp EXCEPT ![h] = RealPeer[h]]
        /\ LogicPeer[h] \in Peer /\ RealPeer[h] \in Peer
    BY <1>2, PeersOfHandlers DEF Put, CanPut
  <2> USE <2>0, PeersOfHandlers DEF MgrInv
  <2>1. MgrTypeOK'
    BY DEF MgrTypeOK
  <2>2. WorkersFiledRight'
    BY DEF MgrTypeOK, WorkersFiledRight
  <2>3. ASSUME NEW r \in Peer, NEW l \in Peer
        PROVE  (rpLp[r] = l <=> workers[l] # NoHandler /\ RealPeer[workers[l]] = r)'
    <3>1. CASE l = LogicPeer[h]
      BY <2>3, <3>1, RealDeterminesLogic DEF MgrTypeOK, WorkersFiledRight, MapsAgree
    <3>2. CASE l # LogicPeer[h]
      <4>1. workers'[l] = workers[l]
        BY <3>2 DEF MgrTypeOK
      <4>2. CASE r = RealPeer[h]
        <5>1. rpLp'[r] # l
          BY <3>2, <4>2 DEF MgrTypeOK
        <5>2. workers[l] # NoHandler => RealPeer[workers[l]] # r
          BY <3>2, <4>2, RealDeterminesLogic DEF MgrTypeOK, WorkersFiledRight
        <5> QED
          BY <4>1, <5>1, <5>2
      <4>3. CASE r # RealPeer[h]
        BY <4>1, <4>3 DEF MgrTypeOK, MapsAgree
      <4> QED
        BY <4>2, <4>3
    <3> QED
      BY <3>1, <3>2
  <2> QED
    BY <2>1, <2>2, <2>3 DEF MapsAgree
<1> QED
  BY <1>1, <1>2

\* Erasing the entries of one registered handler, at both ends.
LEMMA UnregisterKeepsMapsAgree ==
    ASSUME MgrInv, NEW p \in Peer, workers[p] # NoHandler,
           workers' = [workers EXCEPT ![p] = NoHandler],
           rpLp' = [rpLp EXCEPT ![RealPeer[workers[p]]] = NoPeer]
    PROVE  MapsAgree'
<1> DEFINE h == workers[p]
<1>1. h \in Handler /\ LogicPeer[h] = p /\ RealPeer[h] \in Peer
  BY PeersOfHandlers DEF MgrInv, MgrTypeOK, WorkersFiledRight
<1> SUFFICES ASSUME NEW r \in Peer, NEW l \in Peer
             PROVE  rpLp'[r] = l <=> workers'[l] # NoHandler /\ RealPeer[workers'[l]] = r
  BY DEF MapsAgree
<1>2. CASE l = p
  BY <1>1, <1>2, PeersOfHandlers DEF MgrInv, MgrTypeOK, MapsAgree
<1>3. CASE l # p
  <2>1. workers[l] # NoHandler => RealPeer[workers[l]] # RealPeer[h]
    BY <1>1, <1>3, RealDeterminesLogic DEF MgrInv, MgrTypeOK, WorkersFiledRight
  <2>2. workers'[l] = workers[l]
    BY <1>3 DEF MgrInv, MgrTypeOK
  <2>3. CASE r = RealPeer[h]
    BY <1>1, <2>1, <2>2, <2>3, PeersOfHandlers DEF MgrInv, MgrTypeOK
  <2>4. CASE r # RealPeer[h]
    BY <1>1, <2>2, <2>4 DEF MgrInv, MgrTypeOK, MapsAgree
  <2> QED
    BY <2>3, <2>4
<1> QED
  BY <1>2, <1>3

\* What a finished handler's real peer being on file says: the registered handler of
\* its logic peer has that real peer too.
LEMMA OnFileMeansRegistered ==
    ASSUME MgrInv, NEW h \in Handler, rpLp[RealPeer[h]] # NoPeer
    PROVE  /\ workers[LogicPeer[h]] \in Handler
           /\ RealPeer[workers[LogicPeer[h]]] = RealPeer[h]
<1> DEFINE l == rpLp[RealPeer[h]]
<1>1. l \in Peer /\ RealPeer[h] \in Peer
  BY PeersOfHandlers DEF MgrInv, MgrTypeOK
<1>2. workers[l] \in Handler /\ RealPeer[workers[l]] = RealPeer[h]
  BY <1>1 DEF MgrInv, MgrTypeOK, MapsAgree
<1>3. l = LogicPeer[h]
  BY <1>1, <1>2, RealDeterminesLogic, PeersOfHandlers DEF MgrInv, MgrTypeOK, WorkersFiledRight
<1> QED
  BY <1>2, <1>3

LEMMA RemoveByBothKeepsMgrInv ==
    ASSUME MgrInv, NEW h \in Handler, RemoveByBoth(LogicPeer[h], RealPeer[h])
    PROVE  MgrInv'
<1>1. CASE rpLp[RealPeer[h]] = NoPeer
  <2>1. UNCHANGED mgrVars
    BY <1>1, PeersOfHandlers DEF RemoveByBoth, mgrVars, MgrInv, MgrTypeOK
  <2> QED
    BY <2>1 DEF mgrVars, MgrInv, MgrTypeOK, WorkersFiledRight, MapsAgree
<1>2. CASE rpLp[RealPeer[h]] # NoPeer
  <2> DEFINE p == LogicPeer[h]
  <2>1. p \in Peer /\ workers[p] \in Handler /\ RealPeer[workers[p]] = RealPeer[h]
    BY <1>2, OnFileMeansRegistered, PeersOfHandlers
  <2>2. /\ workers' = [workers EXCEPT ![p] = NoHandler]
        /\ rpLp' = [rpLp EXCEPT ![RealPeer[workers[p]]] = NoPeer]
        /\ handlerRp' = handlerRp
    BY <1>2, <2>1 DEF RemoveByBoth
  <2>3. MgrTypeOK' /\ WorkersFiledRight'
    BY <2>1, <2>2 DEF MgrInv, MgrTypeOK, WorkersFiledRight
  <2>4. MapsAgree'
    BY <2>1, <2>2, UnregisterKeepsMapsAgree, PeersOfHandlers
  <2> QED
    BY <2>3, <2>4 DEF MgrInv
<1> QED
  BY <1>1, <1>2

LEMMA RemoveByLogicKeepsMgrInv ==
    ASSUME MgrInv, NEW p \in Peer, RemoveByLogic(p)
    PROVE  MgrInv'
<1>1. CASE workers[p] = NoHandler
  BY <1>1 DEF RemoveByLogic, mgrVars, MgrInv, MgrTypeOK, WorkersFiledRight, MapsAgree
<1>2. CASE workers[p] # NoHandler
  <2> DEFINE h == workers[p]
  <2>1. h \in Handler /\ LogicPeer[h] = p /\ handlerRp[h] = RealPeer[h]
    BY <1>2 DEF MgrInv, MgrTypeOK, WorkersFiledRight
  <2>2. /\ workers' = [workers EXCEPT ![p] = NoHandler]
        /\ rpLp' = [rpLp EXCEPT ![RealPeer[workers[p]]] = NoPeer]
        /\ handlerRp' = [handlerRp EXCEPT ![h] = NoPeer]
    BY <1>2, <2>1 DEF RemoveByLogic
  <2>3. MgrTypeOK'
    BY <2>2 DEF MgrInv, MgrTypeOK
  <2>4. WorkersFiledRight'
    <3> SUFFICES ASSUME NEW q \in Peer, workers'[q] # NoHandler
                 PROVE  LogicPeer[workers'[q]] = q
                        /\ handlerRp'[workers'[q]] = RealPeer[workers'[q]]
      BY DEF WorkersFiledRight
    <3>1. q # p /\ workers'[q] = workers[q]
      BY <2>2 DEF MgrInv, MgrTypeOK
    <3>2. LogicPeer[workers[q]] = q /\ workers[q] \in Handler
      BY <3>1 DEF MgrInv, MgrTypeOK, WorkersFiledRight
    <3> QED
      BY <2>1, <2>2, <3>1, <3>2 DEF MgrInv, MgrTypeOK, WorkersFiledRight
  <2>5. MapsAgree'
    BY <1>2, <2>2, UnregisterKeepsMapsAgree
  <2> QED
    BY <2>3, <2>4, <2>5 DEF MgrInv
<1> QED
  BY <1>1, <1>2

LEMMA NextKeepsMgrInv == MgrInv /\ [MgrNext]_mgrVars => MgrInv'
<1> SUFFICES ASSUME MgrInv, [MgrNext]_mgrVars PROVE MgrInv'
  OBVIOUS
<1>1. CASE UNCHANGED mgrVars
  BY <1>1 DEF mgrVars, MgrInv, MgrTypeOK, WorkersFiledRight, MapsAgree
<1>2. CASE MgrNext
  BY <1>2, PutKeepsMgrInv, RemoveByBothKeepsMgrInv, RemoveByLogicKeepsMgrInv DEF MgrNext
<1> QED
  BY <1>1, <1>2

\* The table's maps always have their types and agree with each other: every method of
\* UniqueWorkerManager preserves all three parts of MgrInv.
THEOREM TableConsistent == MgrSpec => []MgrInv
<1>1. MgrInit => MgrInv
  BY InitMgrInv
<1>2. MgrInv /\ [MgrNext]_mgrVars => MgrInv'
  BY NextKeepsMgrInv
<1> QED
  BY <1>1, <1>2, PTL DEF MgrSpec

\* The real peers on file are exactly those of the registered handlers.
THEOREM TableMapsAgree == MgrSpec => []MapsAgree
<1>1. MgrInv => MapsAgree
  BY DEF MgrInv
<1> QED
  BY <1>1, TableConsistent, PTL

\* on_finish of a handler with a real peer of its own never unregisters another one.
THEOREM FinishIsPrecise == MgrSpec => []FinishDropsOnlyItself
<1>1. MgrInv => FinishDropsOnlyItself
  <2> SUFFICES ASSUME MgrInv, NEW h \in Handler, OwnsRealPeer(h)
               PROVE  RemovedByBoth(LogicPeer[h], RealPeer[h]) \in {h, NoHandler}
    BY DEF FinishDropsOnlyItself
  <2>1. CASE rpLp[RealPeer[h]] = NoPeer
    BY <2>1 DEF RemovedByBoth
  <2>2. CASE rpLp[RealPeer[h]] # NoPeer
    BY <2>2, OnFileMeansRegistered DEF RemovedByBoth, OwnsRealPeer
  <2> QED
    BY <2>1, <2>2
<1> QED
  BY <1>1, TableConsistent, PTL


-----------------------------------------------------------------------------
(* Types.                                                                  *)

\* A thread inside a call has the handler and the peer the rest of the call needs.
ThreadInv ==
    \A t \in Thread :
        /\ pc[t] \in {"send", "handshake", "pick", "wrap", "own", "add"} => at[t] \in Handler
        /\ pc[t] \in {"connect", "lookup"} => dest[t] \in Peer
        /\ t \in User /\ pc[t] \in {"handshake", "pick", "wrap", "own", "add"} => dest[t] \in Peer

ServiceInv == SvcTypeOK /\ ThreadInv

LEMMA InitServiceInv == Init => ServiceInv
<1> SUFFICES ASSUME Init PROVE ServiceInv
  OBVIOUS
<1>1. MgrTypeOK
  BY InitMgrInv DEF Init, MgrInv
<1>2. ThreadTypes /\ ThreadInv
  BY DEF Init, ThreadTypes, ThreadInv
<1>3. HandlerTypes /\ QueueTypes /\ GiveTypes
  BY DEF Init, HandlerTypes, QueueTypes, GiveTypes
<1>4. LoopTypes /\ KernelTypes /\ FaultTypes
  BY DEF Init, LoopTypes, KernelTypes, FaultTypes
<1> QED
  BY <1>1, <1>2, <1>3, <1>4 DEF ServiceInv, SvcTypeOK

-----------------------------------------------------------------------------
(* Types that a step does not touch.                                       *)
LEMMA MgrUnchanged == MgrTypeOK /\ UNCHANGED mgrVars => MgrTypeOK'
BY DEF MgrTypeOK, mgrVars

LEMMA ThreadsUnchanged ==
    ThreadTypes /\ ThreadInv /\ UNCHANGED threadVars => ThreadTypes' /\ ThreadInv'
BY DEF ThreadTypes, ThreadInv, threadVars

LEMMA HandlersUnchanged == HandlerTypes /\ UNCHANGED handlerVars => HandlerTypes'
BY DEF HandlerTypes, handlerVars

LEMMA QueuesUnchanged == QueueTypes /\ UNCHANGED queueVars => QueueTypes'
BY DEF QueueTypes, queueVars

LEMMA GiveUnchanged == GiveTypes /\ UNCHANGED giveVars => GiveTypes'
BY DEF GiveTypes, giveVars

LEMMA LoopsUnchanged == LoopTypes /\ UNCHANGED loopVars => LoopTypes'
BY DEF LoopTypes, loopVars

LEMMA KernelUnchanged == KernelTypes /\ UNCHANGED kernelVars => KernelTypes'
BY DEF KernelTypes, kernelVars

LEMMA FaultUnchanged == FaultTypes /\ UNCHANGED <<fault, history>> => FaultTypes'
BY DEF FaultTypes, history

-----------------------------------------------------------------------------
(* Moves that the actions share.                                           *)
LEMMA ReturnKeepsThreads ==
    ASSUME ThreadTypes, ThreadInv, NEW t \in Thread, Return(t)
    PROVE  ThreadTypes' /\ ThreadInv'
BY DEF ThreadTypes, ThreadInv, Return

LEMMA StartReleaseKeepsTypes ==
    ASSUME GiveTypes, NEW x \in Giver, NEW h \in Handler \cup {NoHandler}, StartRelease(x, h)
    PROVE  GiveTypes'
BY DEF GiveTypes, StartRelease

LEMMA NewHandlerKeepsInv ==
    ASSUME ServiceInv, NEW t \in Thread, NEW h \in Handler, NewHandler(t, h),
           t \in User => dest[t] \in Peer
    PROVE  ServiceInv'
<1> USE DEF ServiceInv, SvcTypeOK
<1>1. ThreadTypes' /\ ThreadInv'
  BY DEF NewHandler, ThreadTypes, ThreadInv, Goto
<1>2. HandlerTypes'
  BY DEF NewHandler, HandlerTypes
<1> QED
  BY <1>1, <1>2, MgrUnchanged, QueuesUnchanged, GiveUnchanged, LoopsUnchanged, KernelUnchanged,
     FaultUnchanged DEF NewHandler

-----------------------------------------------------------------------------
(* Every step of a thread.                                                 *)
LEMMA CallKeepsServiceInv ==
    ASSUME ServiceInv, NEW t \in Thread, Call(t)
    PROVE  ServiceInv'
<1> USE DEF ServiceInv, SvcTypeOK
<1>1. ASSUME t \in User, NEW p \in Peer, SendMessage(t, p) PROVE ServiceInv'
  <2>1. ThreadTypes' /\ ThreadInv'
    BY <1>1 DEF SendMessage, Goto, ThreadTypes, ThreadInv, MgrTypeOK
  <2> QED
    BY <1>1, <2>1, MgrUnchanged, HandlersUnchanged, QueuesUnchanged, GiveUnchanged,
       LoopsUnchanged, KernelUnchanged, FaultUnchanged DEF SendMessage
<1>2. ASSUME t \in User, NEW p \in Peer, Disconnect(t, p) PROVE ServiceInv'
  <2>1. MgrTypeOK'
    BY <1>2, PeersOfHandlers DEF Disconnect, RemoveByLogic, MgrTypeOK
  <2>2. GiveTypes'
    BY <1>2, StartReleaseKeepsTypes DEF Disconnect, MgrTypeOK, Giver
  <2> QED
    BY <1>2, <2>1, <2>2, ThreadsUnchanged, HandlersUnchanged, QueuesUnchanged, LoopsUnchanged,
       KernelUnchanged, FaultUnchanged DEF Disconnect
<1>3. ASSUME t \in Pool, Accept(t) PROVE ServiceInv'
  BY <1>3, NewHandlerKeepsInv, Threads DEF Accept
<1> QED
  BY <1>1, <1>2, <1>3, PeersOfHandlers DEF Call

LEMMA ContinueKeepsServiceInv ==
    ASSUME ServiceInv, NEW t \in Thread, Continue(t)
    PROVE  ServiceInv'
<1> USE DEF ServiceInv, SvcTypeOK
<1>1. CASE AlreadyConnected(t)
  <2>1. ThreadTypes' /\ ThreadInv'
    BY <1>1 DEF AlreadyConnected, Goto, ThreadTypes, ThreadInv
  <2> QED
    BY <1>1, <2>1, MgrUnchanged, HandlersUnchanged, QueuesUnchanged, GiveUnchanged,
       LoopsUnchanged, KernelUnchanged, FaultUnchanged DEF AlreadyConnected
<1>2. CASE Dial(t)
  <2>1. dest[t] \in Peer
    BY <1>2 DEF Dial, ThreadInv
  <2> QED
    BY <1>2, <2>1, NewHandlerKeepsInv, Threads DEF Dial
<1>3. CASE DialRefused(t)
  BY <1>3, ReturnKeepsThreads, MgrUnchanged, HandlersUnchanged, QueuesUnchanged, GiveUnchanged,
     LoopsUnchanged, KernelUnchanged, FaultUnchanged DEF DialRefused
<1>4. CASE Lookup(t)
  <2>1. ThreadTypes' /\ ThreadInv'
    <3>1. CASE workers[dest[t]] = NoHandler
      BY <1>4, <3>1, ReturnKeepsThreads DEF Lookup
    <3>2. CASE workers[dest[t]] # NoHandler
      <4>1. workers[dest[t]] \in Handler
        BY <1>4, <3>2 DEF Lookup, ThreadInv, MgrTypeOK
      <4> QED
        BY <1>4, <3>2, <4>1 DEF Lookup, Goto, ThreadTypes, ThreadInv
    <3> QED
      BY <3>1, <3>2
  <2> QED
    BY <1>4, <2>1, MgrUnchanged, HandlersUnchanged, QueuesUnchanged, GiveUnchanged,
       LoopsUnchanged, KernelUnchanged, FaultUnchanged DEF Lookup
<1>5. CASE Push(t)
  <2>1. ThreadTypes' /\ ThreadInv'
    BY <1>5, ReturnKeepsThreads DEF Push
  <2>2. at[t] \in Handler
    BY <1>5 DEF Push, ThreadInv
  <2>3. QueueTypes' /\ FaultTypes'
    <3>1. CASE UNCHANGED queueVars
      BY <1>5, <3>1, QueuesUnchanged DEF Push, FaultTypes, history
    <3>2. CASE own[at[t]] # NoWorker /\ fault' = fault
                 /\ rwQ' = Enqueue(rwQ, own[at[t]], at[t]) /\ Wakeup(own[at[t]])
                 /\ UNCHANGED <<addQ, delQ>>
      BY <1>5, <2>2, <3>2, FaultUnchanged DEF Push, Enqueue, Wakeup, HandlerTypes, QueueTypes
    <3> QED
      BY <1>5, <3>1, <3>2 DEF Push
  <2> QED
    BY <1>5, <2>1, <2>3, MgrUnchanged, HandlersUnchanged, GiveUnchanged, LoopsUnchanged,
       KernelUnchanged DEF Push
<1>6. CASE HandshakeFails(t) \/ FailsAfterPut(t)
  <2>1. HandlerTypes'
    BY <1>6 DEF HandshakeFails, FailsAfterPut, HandlerTypes
  <2>2. FaultTypes'
    BY <1>6 DEF HandshakeFails, FailsAfterPut, FaultTypes, ThreadInv, history
  <2> QED
    BY <1>6, <2>1, <2>2, ReturnKeepsThreads, MgrUnchanged, QueuesUnchanged, GiveUnchanged,
       LoopsUnchanged, KernelUnchanged DEF HandshakeFails, FailsAfterPut
<1>7. CASE HandshakePut(t)
  <2>1. at[t] \in Handler
    BY <1>7 DEF HandshakePut, ThreadInv
  <2>2. MgrTypeOK'
    <3>1. LogicPeer[at[t]] \in Peer /\ RealPeer[at[t]] \in Peer
      BY <2>1, PeersOfHandlers
    <3>2. /\ workers' = [workers EXCEPT ![LogicPeer[at[t]]] = at[t]]
          /\ rpLp' = [rpLp EXCEPT ![RealPeer[at[t]]] = LogicPeer[at[t]]]
          /\ handlerRp' = [handlerRp EXCEPT ![at[t]] = RealPeer[at[t]]]
      BY <1>7 DEF HandshakePut, Put
    <3> QED
      BY <2>1, <3>1, <3>2 DEF MgrTypeOK
  <2>3. ThreadTypes' /\ ThreadInv'
    BY <1>7 DEF HandshakePut, Goto, ThreadTypes, ThreadInv
  <2> QED
    BY <1>7, <2>2, <2>3, HandlersUnchanged, QueuesUnchanged, GiveUnchanged, LoopsUnchanged,
       KernelUnchanged, FaultUnchanged DEF HandshakePut
<1>8. CASE MoveIndex(t) \/ WrapIndex(t)
  <2>1. ThreadTypes' /\ ThreadInv'
    BY <1>8 DEF MoveIndex, WrapIndex, Goto, ThreadTypes, ThreadInv
  <2> QED
    BY <1>8, <2>1, MgrUnchanged, HandlersUnchanged, QueuesUnchanged, GiveUnchanged,
       LoopsUnchanged, KernelUnchanged, FaultUnchanged DEF MoveIndex, WrapIndex
<1>9. CASE SetOwnWorker(t)
  <2>1. ThreadTypes' /\ ThreadInv'
    BY <1>9 DEF SetOwnWorker, Goto, ThreadTypes, ThreadInv
  <2>2. HandlerTypes'
    BY <1>9 DEF SetOwnWorker, HandlerTypes
  <2> QED
    BY <1>9, <2>1, <2>2, MgrUnchanged, QueuesUnchanged, GiveUnchanged, LoopsUnchanged,
       KernelUnchanged, FaultUnchanged DEF SetOwnWorker
<1>10. CASE AddEvent(t)
  <2>1. ThreadTypes' /\ ThreadInv'
    BY <1>10, ReturnKeepsThreads DEF AddEvent, Goto, ThreadTypes, ThreadInv
  <2>2. at[t] \in Handler
    BY <1>10 DEF AddEvent, ThreadInv
  <2>3. QueueTypes'
    BY <1>10, <2>2 DEF AddEvent, Enqueue, Wakeup, HandlerTypes, QueueTypes
  <2> QED
    BY <1>10, <2>1, <2>3, MgrUnchanged, HandlersUnchanged, GiveUnchanged, LoopsUnchanged,
       KernelUnchanged, FaultUnchanged DEF AddEvent
<1>11. CASE NoSuchWorker(t) \/ ThreadFault(t)
  <2>1. FaultTypes'
    BY <1>11 DEF NoSuchWorker, ThreadFault, FaultTypes, history
  <2> QED
    BY <1>11, <2>1, ThreadsUnchanged, MgrUnchanged, HandlersUnchanged, QueuesUnchanged,
       GiveUnchanged, LoopsUnchanged, KernelUnchanged DEF NoSuchWorker, ThreadFault
<1> QED
  BY <1>1, <1>2, <1>3, <1>4, <1>5, <1>6, <1>7, <1>8, <1>9, <1>10, <1>11 DEF Continue

-----------------------------------------------------------------------------
(* Every step of giving up a handler.                                      *)
LEMMA GiveUpKeepsServiceInv ==
    ASSUME ServiceInv, NEW x \in Giver, GiveUp(x)
    PROVE  ServiceInv'
<1> USE DEF ServiceInv, SvcTypeOK
<1>0. ASSUME UNCHANGED <<mgrVars, threadVars, loopVars, kernelVars>>
      PROVE  MgrTypeOK' /\ ThreadTypes' /\ ThreadInv' /\ LoopTypes' /\ KernelTypes'
  BY <1>0, MgrUnchanged, ThreadsUnchanged, LoopsUnchanged, KernelUnchanged
<1>1. \A step \in {"drop", "count", "enlist", "wake"} : GoOn(x, step) => GiveTypes'
  BY DEF GoOn, GiveTypes
<1>2. EndRelease(x) => GiveTypes'
  BY StartReleaseKeepsTypes DEF EndRelease
<1>3. CASE DropReference(x) \/ ReadCount(x)
  <2>1. HandlerTypes'
    BY <1>3 DEF DropReference, ReadCount, Releasing, GiveTypes, HandlerTypes
  <2>2. GiveTypes'
    BY <1>1, <1>2, <1>3 DEF DropReference, ReadCount
  <2> QED
    BY <1>0, <1>3, <2>1, <2>2, QueuesUnchanged, FaultUnchanged DEF DropReference, ReadCount
<1>4. CASE AddDelEvent(x)
  <2>1. fin[x] \in Handler
    BY <1>4 DEF AddDelEvent, Releasing, GiveTypes
  <2>2. QueueTypes'
    BY <1>4, <2>1 DEF AddDelEvent, Enqueue, HandlerTypes, QueueTypes
  <2>3. GiveTypes'
    BY <1>1, <1>2, <1>4 DEF AddDelEvent
  <2> QED
    BY <1>0, <1>4, <2>2, <2>3, HandlersUnchanged, FaultUnchanged DEF AddDelEvent
<1>5. CASE WakeOwner(x)
  <2>1. QueueTypes'
    BY <1>5 DEF WakeOwner, Wakeup, QueueTypes
  <2> QED
    BY <1>0, <1>2, <1>5, <2>1, HandlersUnchanged, FaultUnchanged DEF WakeOwner
<1>6. CASE ReleaseFault(x)
  <2>1. FaultTypes'
    BY <1>6 DEF ReleaseFault, FaultTypes, GiveTypes, history
  <2> QED
    BY <1>0, <1>6, <2>1, HandlersUnchanged, QueuesUnchanged, GiveUnchanged DEF ReleaseFault
<1> QED
  BY <1>3, <1>4, <1>5, <1>6 DEF GiveUp

-----------------------------------------------------------------------------
(* Every step of a worker, of the remote ends, and the whole.              *)
LEMMA LoopKeepsServiceInv ==
    ASSUME ServiceInv, NEW w \in Worker, Loop(w)
    PROVE  ServiceInv'
<1> USE DEF ServiceInv, SvcTypeOK
<1>1. CASE EventWait(w)
  <2>1. batch' \in [Worker -> SUBSET Event]
    <3> DEFINE ready == epoll[w] \cap (readable \cup writable)
    <3> DEFINE B == [eh : ready \ readable, read : {FALSE}]
                      \cup [eh : ready \cap readable, read : {TRUE}]
                      \cup (IF pipe[w] THEN [eh : {LocalHandler}, read : {TRUE}] ELSE {})
    <3>1. ready \subseteq Handler
      BY DEF KernelTypes
    <3>2. B \subseteq Event
      BY <3>1 DEF Event
    <3>3. batch' = [batch EXCEPT ![w] = B]
      BY <1>1 DEF EventWait
    <3> HIDE DEF B
    <3> QED
      BY <3>2, <3>3 DEF LoopTypes
  <2>2. LoopTypes'
    BY <1>1, <2>1 DEF EventWait, Step, LoopTypes
  <2>3. KernelTypes'
    BY <1>1 DEF EventWait, KernelTypes
  <2> QED
    BY <1>1, <2>2, <2>3, MgrUnchanged, ThreadsUnchanged, HandlersUnchanged, QueuesUnchanged,
       GiveUnchanged, FaultUnchanged DEF EventWait
<1>2. CASE TakeDels(w)
  <2>1. LoopTypes'
    BY <1>2 DEF TakeDels, Step, LoopTypes, QueueTypes
  <2>2. QueueTypes' /\ KernelTypes'
    BY <1>2 DEF TakeDels, QueueTypes, KernelTypes
  <2> QED
    BY <1>2, <2>1, <2>2, MgrUnchanged, ThreadsUnchanged, HandlersUnchanged, GiveUnchanged,
       FaultUnchanged DEF TakeDels
<1>3. CASE DrainPipe(w)
  <2>1. QueueTypes' /\ LoopTypes'
    BY <1>3 DEF DrainPipe, Done, QueueTypes, LoopTypes
  <2> QED
    BY <1>3, <2>1, MgrUnchanged, ThreadsUnchanged, HandlersUnchanged, GiveUnchanged,
       KernelUnchanged, FaultUnchanged DEF DrainPipe
<1>4. CASE SkipDeleted(w)
  <2>1. LoopTypes'
    BY <1>4 DEF SkipDeleted, Done, LoopTypes
  <2> QED
    BY <1>4, <2>1, MgrUnchanged, ThreadsUnchanged, HandlersUnchanged, QueuesUnchanged,
       GiveUnchanged, KernelUnchanged, FaultUnchanged DEF SkipDeleted
<1>5. CASE ProcessEvent(w)
  <2>1. LoopTypes'
    BY <1>5 DEF ProcessEvent, Done, LoopTypes
  <2>2. GiveTypes'
    <3>1. CASE UNCHANGED giveVars
      BY <3>1, GiveUnchanged
    <3>2. ASSUME NEW h \in Handler \cup {NoHandler}, StartRelease(w, h)
          PROVE  GiveTypes'
      BY <3>2, StartReleaseKeepsTypes DEF Giver
    <3> QED
      BY <1>5, <3>1, <3>2 DEF ProcessEvent
  <2>3. MgrTypeOK'
    <3>1. CASE UNCHANGED mgrVars
      BY <3>1, MgrUnchanged
    <3>2. ASSUME NEW h \in Handler, RemoveByBoth(LogicPeer[h], RealPeer[h])
          PROVE  MgrTypeOK'
      BY <3>2, PeersOfHandlers DEF RemoveByBoth, MgrTypeOK
    <3> QED
      BY <1>5, <3>1, <3>2 DEF ProcessEvent
  <2> QED
    BY <1>5, <2>1, <2>2, <2>3, ThreadsUnchanged, HandlersUnchanged, QueuesUnchanged,
       KernelUnchanged, FaultUnchanged DEF ProcessEvent
<1>6. CASE TakeOps(w)
  <2>1. [eh : rwQ[w], read : {FALSE}] \subseteq Event
    BY DEF Event, QueueTypes
  <2>2. LoopTypes'
    BY <1>6, <2>1 DEF TakeOps, Step, LoopTypes
  <2>3. QueueTypes'
    BY <1>6 DEF TakeOps, QueueTypes
  <2> QED
    BY <1>6, <2>2, <2>3, MgrUnchanged, ThreadsUnchanged, HandlersUnchanged, GiveUnchanged,
       KernelUnchanged, FaultUnchanged DEF TakeOps
<1>7. CASE FreeDels(w)
  <2>1. HandlerTypes' /\ KernelTypes'
    BY <1>7 DEF FreeDels, HandlerTypes, KernelTypes
  <2>2. LoopTypes' /\ FaultTypes'
    BY <1>7 DEF FreeDels, Step, LoopTypes, FaultTypes
  <2> QED
    BY <1>7, <2>1, <2>2, MgrUnchanged, ThreadsUnchanged, QueuesUnchanged, GiveUnchanged
       DEF FreeDels
<1>8. CASE TakeAdds(w)
  <2>1. LoopTypes'
    BY <1>8 DEF TakeAdds, Step, LoopTypes
  <2>2. QueueTypes'
    BY <1>8 DEF TakeAdds, QueueTypes
  <2>3. KernelTypes'
    <3>1. PICK added \in SUBSET addQ[w] :
              /\ epoll' = [epoll EXCEPT ![w] = @ \cup added]
              /\ writable' = writable \cup added
              /\ readable' = readable \cup (added \cap broken)
              /\ broken' = broken
      BY <1>8 DEF TakeAdds
    <3> QED
      BY <3>1 DEF QueueTypes, KernelTypes
  <2> QED
    BY <1>8, <2>1, <2>2, <2>3, MgrUnchanged, ThreadsUnchanged, HandlersUnchanged, GiveUnchanged,
       FaultUnchanged DEF TakeAdds
<1>9. CASE LoopFault(w)
  <2>1. FaultTypes'
    BY <1>9 DEF LoopFault, FaultTypes, LoopTypes, history
  <2> QED
    BY <1>9, <2>1, ThreadsUnchanged, MgrUnchanged, HandlersUnchanged, QueuesUnchanged,
       GiveUnchanged, LoopsUnchanged, KernelUnchanged DEF LoopFault
<1> QED
  BY <1>1, <1>2, <1>3, <1>4, <1>5, <1>6, <1>7, <1>8, <1>9 DEF Loop

LEMMA RemoteKeepsServiceInv == ServiceInv /\ Remote => ServiceInv'
<1> SUFFICES ASSUME ServiceInv, NEW h \in Handler, RemoteCloses(h) \/ DataArrives(h)
             PROVE  ServiceInv'
  BY DEF Remote
<1>1. KernelTypes'
  BY DEF RemoteCloses, DataArrives, ServiceInv, SvcTypeOK, KernelTypes
<1> QED
  BY <1>1, MgrUnchanged, ThreadsUnchanged, HandlersUnchanged, QueuesUnchanged, GiveUnchanged,
     LoopsUnchanged, FaultUnchanged DEF RemoteCloses, DataArrives, ServiceInv, SvcTypeOK

LEMMA StutterKeepsServiceInv == ServiceInv /\ UNCHANGED vars => ServiceInv'
BY MgrUnchanged, ThreadsUnchanged, HandlersUnchanged, QueuesUnchanged, GiveUnchanged,
   LoopsUnchanged, KernelUnchanged, FaultUnchanged DEF vars, ServiceInv, SvcTypeOK

LEMMA NextKeepsServiceInv == ServiceInv /\ [Next]_vars => ServiceInv'
BY CallKeepsServiceInv, ContinueKeepsServiceInv, GiveUpKeepsServiceInv, LoopKeepsServiceInv,
   RemoteKeepsServiceInv, StutterKeepsServiceInv DEF Next, Crashed

LEMMA ServiceInvAlways == Spec => []ServiceInv
BY InitServiceInv, NextKeepsServiceInv, PTL DEF Spec

\* Every variable of the service keeps its type, for any number of threads, workers,
\* handlers and peers.
THEOREM ServiceTypeCorrect == Spec => []SvcTypeOK
<1>1. ServiceInv => SvcTypeOK
  BY DEF ServiceInv
<1> QED
  BY <1>1, ServiceInvAlways, PTL

-----------------------------------------------------------------------------
(* The service uses its table as the table expects.                        *)
LEMMA ThreadsUseTable ==
    ASSUME ServiceInv, NEW t \in Thread, Call(t) \/ Continue(t)
    PROVE  [MgrNext]_mgrVars
<1>1. ASSUME NEW p \in {LogicPeer[h] : h \in Handler}, Disconnect(t, p)
      PROVE  MgrNext
  BY <1>1, PeersOfHandlers DEF Disconnect, MgrNext
<1>2. CASE HandshakePut(t)
  <2>1. at[t] \in Handler
    BY <1>2 DEF HandshakePut, ServiceInv, ThreadInv
  <2> QED
    BY <1>2, <2>1 DEF HandshakePut, MgrNext
<1>3. CASE Call(t)
  <2>1. ASSUME NEW p \in Peer, SendMessage(t, p) PROVE UNCHANGED mgrVars
    BY <2>1 DEF SendMessage
  <2>2. ASSUME Accept(t) PROVE UNCHANGED mgrVars
    BY <2>2 DEF Accept, NewHandler
  <2> QED
    BY <1>1, <1>3, <2>1, <2>2, PeersOfHandlers DEF Call
<1>4. CASE Continue(t) /\ ~HandshakePut(t)
  BY <1>4 DEF Continue, AlreadyConnected, Dial, NewHandler, DialRefused, Lookup, Push,
              HandshakeFails, FailsAfterPut, MoveIndex, WrapIndex, SetOwnWorker, NoSuchWorker,
              AddEvent, ThreadFault
<1> QED
  BY <1>2, <1>3, <1>4

LEMMA LoopUsesTable ==
    ASSUME NEW w \in Worker, Loop(w)
    PROVE  [MgrNext]_mgrVars
<1>1. CASE ProcessEvent(w)
  BY <1>1 DEF ProcessEvent, MgrNext
<1>2. CASE ~ProcessEvent(w)
  BY <1>2 DEF Loop, EventWait, TakeDels, DrainPipe, SkipDeleted, TakeOps, FreeDels, TakeAdds,
              LoopFault
<1> QED
  BY <1>1, <1>2

\* Giving a handler up, once it is out of the table.
LEMMA GiveUpLeaves ==
    ASSUME NEW x \in Giver, GiveUp(x)
    PROVE  UNCHANGED <<mgrVars, threadVars, life, own, addQ, rwQ, loopVars, kernelVars, history>>
BY DEF GiveUp, DropReference, ReadCount, AddDelEvent, WakeOwner, ReleaseFault, handlerVars,
       queueVars

\* Every behaviour of the service is one of its connection table: handshakes, finished
\* connections and Disconnect make no other change to the three maps.
THEOREM ServiceUsesTable == Spec => MgrSpec
<1>1. Init => MgrInit
  BY DEF Init
<1>2. ServiceInv /\ [Next]_vars => [MgrNext]_mgrVars
  <2>1. Remote \/ UNCHANGED vars => UNCHANGED mgrVars
    BY DEF Remote, RemoteCloses, DataArrives, vars
  <2> QED
    BY <2>1, ThreadsUseTable, LoopUsesTable, GiveUpLeaves DEF Next, Crashed
<1> QED
  BY <1>1, <1>2, ServiceInvAlways, PTL DEF Spec, MgrSpec

\* In every reachable state of the service the table's peer maps describe the same
\* connections, and on_finish of a handler with a real peer of its own unregisters no
\* other.
THEOREM ServiceTableConsistent == Spec => [](MapsAgree /\ FinishDropsOnlyItself)
BY ServiceUsesTable, TableMapsAgree, FinishIsPrecise, PTL

-----------------------------------------------------------------------------
(* Requests to a worker.  A request is safe while the worker is yet to     *)
(* take its list in this turn of the loop, or finds a byte when it sleeps; *)
(* only in the phases "events" and "ops" is the pipe drained, and in "ops" *)
(* no longer, because the local handler's event is then behind.            *)
RequestInv ==
    \A w \in Worker :
        /\ rwQ[w] # {} => pipe[w] \/ phase[w] \in {"dels", "events"}
        /\ addQ[w] # {} => pipe[w] \/ phase[w] # "wait"
        /\ phase[w] = "ops" => \A e \in batch[w] : e.eh # LocalHandler

LEMMA InitRequestInv == Init => RequestInv
BY DEF Init, RequestInv

\* Enqueue and Wakeup belong together.
LEMMA EnqueueKeepsRequestInv ==
    ASSUME QueueTypes, RequestInv, NEW w \in Worker, NEW h \in Handler, Wakeup(w),
           UNCHANGED <<phase, batch>>,
           addQ' \in {addQ, Enqueue(addQ, w, h)}, rwQ' \in {rwQ, Enqueue(rwQ, w, h)}
    PROVE  RequestInv'
BY DEF RequestInv, Wakeup, Enqueue, QueueTypes

LEMMA ThreadsKeepRequestInv ==
    ASSUME ServiceInv, RequestInv, NEW t \in Thread, Call(t) \/ Continue(t)
    PROVE  RequestInv'
<1> USE DEF ServiceInv, SvcTypeOK
<1>0. ASSUME UNCHANGED queueVars, UNCHANGED loopVars PROVE RequestInv'
  BY <1>0 DEF queueVars, loopVars, RequestInv
<1>1. CASE Call(t)
  BY <1>0, <1>1 DEF Call, SendMessage, Disconnect, Accept, NewHandler
<1>2. CASE Push(t)
  <2>1. CASE UNCHANGED queueVars
    BY <1>0, <1>2, <2>1 DEF Push
  <2>2. CASE own[at[t]] # NoWorker /\ rwQ' = Enqueue(rwQ, own[at[t]], at[t])
             /\ Wakeup(own[at[t]]) /\ UNCHANGED addQ
    <3>1. at[t] \in Handler
      BY <1>2 DEF Push, ThreadInv
    <3>2. own[at[t]] \in Worker
      BY <2>2, <3>1 DEF HandlerTypes
    <3>3. UNCHANGED <<phase, batch>>
      BY <1>2 DEF Push, loopVars
    <3> QED
      BY <2>2, <3>1, <3>2, <3>3, EnqueueKeepsRequestInv
  <2> QED
    BY <1>2, <2>1, <2>2 DEF Push
<1>3. CASE AddEvent(t)
  <2>1. at[t] \in Handler /\ UNCHANGED <<phase, batch>>
    BY <1>3 DEF AddEvent, ThreadInv, loopVars
  <2>2. CASE own[at[t]] \in Worker
    BY <1>3, <2>1, <2>2, EnqueueKeepsRequestInv DEF AddEvent
  <2>3. CASE own[at[t]] \notin Worker
    <3>1. addQ' = addQ /\ pipe' = pipe
      BY <1>3, <2>3 DEF AddEvent, Enqueue, Wakeup, QueueTypes
    <3> QED
      BY <1>3, <2>1, <3>1 DEF AddEvent, RequestInv
  <2> QED
    BY <2>2, <2>3
<1>4. CASE Continue(t) /\ ~(Push(t) \/ AddEvent(t))
  BY <1>0, <1>4 DEF Continue, AlreadyConnected, Dial, NewHandler, DialRefused, Lookup,
                    HandshakeFails, HandshakePut, FailsAfterPut, MoveIndex, WrapIndex,
                    SetOwnWorker, NoSuchWorker, ThreadFault
<1> QED
  BY <1>1, <1>2, <1>3, <1>4

\* Giving up only ever fills pipes.
LEMMA GiveUpKeepsRequestInv ==
    ASSUME ServiceInv, RequestInv, NEW x \in Giver, GiveUp(x)
    PROVE  RequestInv'
<1>1. UNCHANGED <<addQ, rwQ, phase, batch>>
  BY GiveUpLeaves DEF loopVars
<1>2. \A w \in Worker : pipe[w] => pipe'[w]
  BY DEF GiveUp, DropReference, ReadCount, AddDelEvent, WakeOwner, Wakeup, ReleaseFault, queueVars,
         ServiceInv, SvcTypeOK, QueueTypes
<1> QED
  BY <1>1, <1>2 DEF RequestInv

LEMMA LoopKeepsRequestInv ==
    ASSUME ServiceInv, RequestInv, NEW w \in Worker, Loop(w)
    PROVE  RequestInv'
<1> USE DEF ServiceInv, SvcTypeOK, Step
<1>1. CASE EventWait(w) \/ TakeDels(w)
  BY <1>1 DEF EventWait, TakeDels, RequestInv, LoopTypes, queueVars
<1>2. CASE DrainPipe(w)
  BY <1>2 DEF DrainPipe, Processing, Done, RequestInv, LoopTypes, QueueTypes
<1>3. CASE SkipDeleted(w) \/ ProcessEvent(w)
  <2>1. /\ \A v \in Worker : batch'[v] \subseteq batch[v]
        /\ UNCHANGED <<phase, addQ, rwQ, pipe>>
    <3>1. (\E e \in batch[w] : Done(w, e)) /\ UNCHANGED <<phase, queueVars>>
      BY <1>3 DEF SkipDeleted, ProcessEvent
    <3> QED
      BY <3>1 DEF Done, LoopTypes, queueVars
  <2> QED
    BY <2>1 DEF RequestInv
<1>4. CASE TakeOps(w)
  <2>1. /\ \A e \in batch'[w] : e.eh # LocalHandler
        /\ \A v \in Worker \ {w} : batch'[v] = batch[v] /\ phase'[v] = phase[v]
    BY <1>4, OwnNames DEF TakeOps, LoopTypes, QueueTypes
  <2>2. /\ phase[w] = "events" /\ phase'[w] = "ops" /\ rwQ'[w] = {}
        /\ \A v \in Worker \ {w} : rwQ'[v] = rwQ[v]
        /\ UNCHANGED <<addQ, pipe>>
    BY <1>4 DEF TakeOps, LoopTypes, QueueTypes
  <2> QED
    BY <2>1, <2>2 DEF RequestInv
<1>5. CASE FreeDels(w) \/ TakeAdds(w)
  BY <1>5 DEF FreeDels, TakeAdds, RequestInv, LoopTypes, QueueTypes, queueVars
<1>6. CASE LoopFault(w)
  BY <1>6 DEF LoopFault, RequestInv, queueVars, loopVars
<1> QED
  BY <1>1, <1>2, <1>3, <1>4, <1>5, <1>6 DEF Loop

LEMMA NextKeepsRequestInv == ServiceInv /\ RequestInv /\ [Next]_vars => RequestInv'
<1>1. RequestInv /\ (Remote \/ UNCHANGED vars) => RequestInv'
  BY DEF Remote, RemoteCloses, DataArrives, vars, queueVars, loopVars, RequestInv
<1> QED
  BY <1>1, ThreadsKeepRequestInv, GiveUpKeepsRequestInv, LoopKeepsRequestInv DEF Next, Crashed

\* A worker never sleeps over a request to register a handler or to write, for any
\* number of threads, handlers and workers.
THEOREM RequestsAreHeardByWorkers == Spec => []RequestsAwaken
<1>1. ServiceInv /\ RequestInv => RequestsAwaken
  BY DEF ServiceInv, SvcTypeOK, QueueTypes, RequestInv, RequestsAwaken
<1> QED
  BY <1>1, InitRequestInv, NextKeepsRequestInv, ServiceInvAlways, PTL DEF Spec

-----------------------------------------------------------------------------
(* Whose a handler is.  Until the thread that makes a handler has given it *)
(* to a worker it alone can delete it; from then on only that worker can,  *)
(* and it does so between two turns of its loop.                           *)
Making(t) == pc[t] \in {"handshake", "pick", "wrap", "own"}
Kept(h) == life[h] = "live" \/ h \in stray

\* The threads that make handlers: each its own, which is live and has no worker yet.
OwnerInv ==
    /\ \A h \in Handler : life[h] = "unborn" => own[h] = NoWorker
    /\ \A t \in Thread :
        /\ Making(t) => life[at[t]] = "live" /\ own[at[t]] = NoWorker
        /\ pc[t] = "add" => own[at[t]] \in Worker /\ Kept(at[t])
    /\ \A t, u \in Thread : Making(t) /\ Making(u) /\ at[t] = at[u] => t = u

\* The lists, registrations and events of a worker hold its own handlers only; those that
\* come from its add list are live, or were deleted before they were registered.
PlaceInv == \A w \in Worker :
    /\ \A h \in addQ[w] \cup rwQ[w] \cup delQ[w] \cup dels[w] \cup epoll[w] : own[h] = w
    /\ \A h \in addQ[w] : Kept(h)
    /\ \A h \in epoll[w] : Kept(h) /\ h \notin dels[w]
    /\ \A e \in batch[w] : e.eh \in Handler =>
           own[e.eh] = w /\ (phase[w] \in {"dels", "events"} => Kept(e.eh))
    /\ fin[w] # NoHandler => life[fin[w]] = "live" /\ own[fin[w]] = w
    /\ phase[w] \in {"adds", "wait", "dels"} => dels[w] = {}

Registered(h) == workers[LogicPeer[h]] = h
GivenUp(h) == \E x \in Giver : fin[x] = h
Listed(h) == \E w \in Worker : h \in delQ[w] \cup dels[w]

\* A registered handler has not been given up by anyone.
TableInv == \A h \in Handler :
    /\ Registered(h) => ~GivenUp(h) /\ ~Listed(h) /\ (life[h] = "live" \/ h \in late)
    /\ Registered(h) \/ GivenUp(h) =>
           life[h] # "unborn" /\ ~(\E t \in Thread : pc[t] = "handshake" /\ at[t] = h)

\* A handler with a real peer of its own is given up once, and is live until its worker
\* frees what it has taken from its delete list.
ReleaseInv == \A h \in Handler : OwnsRealPeer(h) =>
    /\ \A x, y \in Giver : fin[x] = h /\ fin[y] = h => x = y
    /\ \A x \in Giver : fin[x] = h /\ rel[x] # "wake" => ~Listed(h)
    /\ \A w \in Worker : /\ h \notin delQ[w] \cap dels[w]
                         /\ h \in delQ[w] \cup dels[w] => life[h] = "live"

HandlerInv == OwnerInv /\ PlaceInv /\ TableInv /\ ReleaseInv

LEMMA InitHandlerInv == Init => HandlerInv
<1> SUFFICES ASSUME Init PROVE HandlerInv
  OBVIOUS
<1> USE PeersOfHandlers, OwnNames DEF Init, GivenUp, Listed, Registered, Making
<1>1. OwnerInv
  BY DEF OwnerInv
<1>2. PlaceInv
  BY DEF PlaceInv, Giver
<1>3. TableInv
  BY DEF TableInv, MgrInit
<1>4. ReleaseInv
  BY DEF ReleaseInv
<1> QED
  BY <1>1, <1>2, <1>3, <1>4 DEF HandlerInv

-----------------------------------------------------------------------------
(* What the steps of a thread do to the rest of the state.                 *)
LEMMA ThreadLeavesLoops ==
    ASSUME NEW t \in Thread, Call(t) \/ Continue(t)
    PROVE  UNCHANGED <<phase, batch, dels, epoll, stray, delQ>>
BY DEF Call, Continue, SendMessage, Disconnect, Accept, NewHandler, AlreadyConnected, Dial,
       DialRefused, Lookup, Push, HandshakeFails, HandshakePut, FailsAfterPut, MoveIndex,
       WrapIndex, SetOwnWorker, NoSuchWorker, AddEvent, ThreadFault, loopVars, kernelVars,
       queueVars, history

LEMMA ContinueGivesNothingUp ==
    ASSUME NEW t \in Thread, Continue(t)
    PROVE  UNCHANGED giveVars
BY DEF Continue, NewHandler, AlreadyConnected, Dial, DialRefused, Lookup, Push, HandshakeFails,
       HandshakePut, FailsAfterPut, MoveIndex, WrapIndex, SetOwnWorker, NoSuchWorker, AddEvent,
       ThreadFault

\* A user that calls Disconnect is no worker.
LEMMA CallLeavesWorkers ==
    ASSUME ServiceInv, NEW t \in Thread, Call(t), NEW w \in Worker
    PROVE  fin'[w] = fin[w]
<1>1. ASSUME NEW p, Disconnect(t, p), t \in User PROVE fin'[w] = fin[w]
  BY <1>1, Threads DEF Disconnect, StartRelease, ServiceInv, SvcTypeOK, GiveTypes
<1> QED
  BY <1>1 DEF Call, SendMessage, Accept, NewHandler, giveVars

LEMMA ThreadMovesAlone ==
    ASSUME ServiceInv, NEW t \in Thread, Call(t) \/ Continue(t), NEW u \in Thread, u # t
    PROVE  pc'[u] = pc[u] /\ at'[u] = at[u]
<1> USE DEF ServiceInv, SvcTypeOK, ThreadTypes, Goto, Return
<1>1. CASE Call(t)
  BY <1>1 DEF Call, SendMessage, Disconnect, Accept, NewHandler, threadVars
<1>2. CASE AlreadyConnected(t) \/ Dial(t) \/ DialRefused(t) \/ Lookup(t) \/ Push(t)
  BY <1>2 DEF AlreadyConnected, Dial, NewHandler, DialRefused, Lookup, Push
<1>3. CASE HandshakeFails(t) \/ HandshakePut(t) \/ FailsAfterPut(t)
  BY <1>3 DEF HandshakeFails, HandshakePut, FailsAfterPut
<1>4. CASE MoveIndex(t) \/ WrapIndex(t) \/ SetOwnWorker(t)
  BY <1>4 DEF MoveIndex, WrapIndex, SetOwnWorker
<1>5. CASE NoSuchWorker(t) \/ AddEvent(t) \/ ThreadFault(t)
  BY <1>5 DEF NoSuchWorker, AddEvent, ThreadFault, threadVars
<1> QED
  BY <1>1, <1>2, <1>3, <1>4, <1>5 DEF Continue

\* A thread that leaves the places of a handler's maker, or was at none.
LEMMA LeavingKeepsOwnerInv ==
    ASSUME ServiceInv, OwnerInv, NEW t \in Thread, Call(t) \/ Continue(t),
           UNCHANGED <<life, own>>, ~Making(t)', pc'[t] # "add"
    PROVE  OwnerInv'
BY ThreadMovesAlone, ThreadLeavesLoops DEF OwnerInv, Making, Kept

\* A maker that goes on with its handler.
LEMMA GoingOnKeepsOwnerInv ==
    ASSUME ServiceInv, OwnerInv, NEW t \in Thread, Call(t) \/ Continue(t),
           UNCHANGED <<life, own>>, Making(t), at'[t] = at[t], pc'[t] # "add"
    PROVE  OwnerInv'
BY ThreadMovesAlone, ThreadLeavesLoops DEF OwnerInv, Making, Kept

LEMMA NewHandlerKeepsOwnerInv ==
    ASSUME ServiceInv, OwnerInv, NEW t \in Thread, NEW h \in Handler, NewHandler(t, h),
           Call(t) \/ Continue(t)
    PROVE  OwnerInv'
<1> USE DEF ServiceInv, SvcTypeOK, ThreadTypes, HandlerTypes
<1>1. /\ pc'[t] = "handshake" /\ at'[t] = h /\ stray' = stray
      /\ life[h] = "unborn" /\ life' = [life EXCEPT ![h] = "live"] /\ own' = own
  BY DEF NewHandler, Goto, history
<1>2. \A u \in Thread : Making(u) => at[u] # h
  BY <1>1 DEF OwnerInv
<1>3. \A u \in Thread \ {t} : pc'[u] = pc[u] /\ at'[u] = at[u]
  BY ThreadMovesAlone
<1>4. \A u \in Thread : Making(u) \/ pc[u] = "add" => at[u] \in Handler
  BY DEF ThreadInv, Making
<1> QED
  BY <1>1, <1>2, <1>3, <1>4 DEF OwnerInv, Making, Kept

\* A handler deleted by its maker.
LEMMA MakerDeletesKeepsOwnerInv ==
    ASSUME ServiceInv, OwnerInv, NEW t \in Thread, HandshakeFails(t) \/ FailsAfterPut(t)
    PROVE  OwnerInv'
<1> USE DEF ServiceInv, SvcTypeOK, ThreadTypes, HandlerTypes
<1>1. /\ Making(t) /\ at[t] \in Handler /\ pc'[t] = "idle" /\ stray' = stray
      /\ life' = [life EXCEPT ![at[t]] = "freed"] /\ own' = own
  BY DEF HandshakeFails, FailsAfterPut, Return, ThreadInv, Making, history
<1>2. \A u \in Thread \ {t} : pc'[u] = pc[u] /\ at'[u] = at[u]
  BY ThreadMovesAlone DEF Continue
<1>3. \A u \in Thread \ {t} : Making(u) => at[u] # at[t]
  BY <1>1 DEF OwnerInv
<1>4. \A u \in Thread : Making(u) \/ pc[u] = "add" => at[u] \in Handler
  BY DEF ThreadInv, Making
<1>5. \A u \in Thread : pc[u] = "add" => at[u] # at[t]
  BY <1>1, OwnNames DEF OwnerInv
<1> QED
  BY <1>1, <1>2, <1>3, <1>4, <1>5 DEF OwnerInv, Making, Kept

LEMMA SetOwnWorkerKeepsOwnerInv ==
    ASSUME ServiceInv, OwnerInv, NEW t \in Thread, SetOwnWorker(t)
    PROVE  OwnerInv'
<1> USE DEF ServiceInv, SvcTypeOK, ThreadTypes, HandlerTypes
<1>1. PICK w \in Worker : own' = [own EXCEPT ![at[t]] = w]
  BY DEF SetOwnWorker
<1>2. /\ pc[t] = "own" /\ at[t] \in Handler /\ pc'[t] = "add" /\ at'[t] = at[t]
      /\ life' = life /\ life[at[t]] = "live" /\ stray' = stray
  BY DEF SetOwnWorker, Goto, ThreadInv, history
<1>3. \A u \in Thread \ {t} : pc'[u] = pc[u] /\ at'[u] = at[u]
  BY ThreadMovesAlone DEF Continue
<1>4. \A u \in Thread \ {t} : Making(u) => at[u] # at[t]
  BY <1>2 DEF OwnerInv, Making
<1>5. \A u \in Thread : Making(u) \/ pc[u] = "add" => at[u] \in Handler
  BY DEF ThreadInv, Making
<1> QED
  BY <1>1, <1>2, <1>3, <1>4, <1>5 DEF OwnerInv, Making, Kept

LEMMA ThreadsKeepOwnerInv ==
    ASSUME ServiceInv, OwnerInv, NEW t \in Thread, Call(t) \/ Continue(t)
    PROVE  OwnerInv'
<1>0. pc \in [Thread -> {"idle", "connect", "lookup", "send",
                         "handshake", "pick", "wrap", "own", "add"}]
  BY DEF ServiceInv, SvcTypeOK, ThreadTypes
<1>1. CASE Call(t)
  <2>1. CASE \E p \in Peer : SendMessage(t, p)
    BY <1>0, <2>1, LeavingKeepsOwnerInv DEF SendMessage, Goto, handlerVars, Making
  <2>2. CASE \E p \in Peer : Disconnect(t, p)
    BY <1>0, <2>2, LeavingKeepsOwnerInv DEF Disconnect, threadVars, handlerVars, Making
  <2>3. CASE Accept(t)
    BY <2>3, NewHandlerKeepsOwnerInv DEF Accept
  <2> QED
    BY <1>1, <2>1, <2>2, <2>3, PeersOfHandlers DEF Call
<1>2. CASE AlreadyConnected(t) \/ DialRefused(t) \/ Lookup(t) \/ Push(t)
  <2>1. pc'[t] \in {"lookup", "idle", "send"}
    BY <1>0, <1>2 DEF AlreadyConnected, DialRefused, Lookup, Push, Goto, Return
  <2>2. UNCHANGED <<life, own>>
    BY <1>2 DEF AlreadyConnected, DialRefused, Lookup, Push, handlerVars
  <2> QED
    BY <2>1, <2>2, LeavingKeepsOwnerInv DEF Making
<1>3. CASE Dial(t)
  BY <1>3, NewHandlerKeepsOwnerInv, Threads DEF Dial
<1>4. CASE HandshakeFails(t) \/ FailsAfterPut(t)
  BY <1>4, MakerDeletesKeepsOwnerInv
<1>5. CASE HandshakePut(t) \/ MoveIndex(t) \/ WrapIndex(t)
  BY <1>0, <1>5, GoingOnKeepsOwnerInv
     DEF HandshakePut, MoveIndex, WrapIndex, Goto, handlerVars, Making
<1>6. CASE SetOwnWorker(t)
  BY <1>6, SetOwnWorkerKeepsOwnerInv
<1>7. CASE AddEvent(t)
  BY <1>0, <1>7, LeavingKeepsOwnerInv DEF AddEvent, Goto, Return, handlerVars, Making
<1>8. CASE NoSuchWorker(t) \/ ThreadFault(t)
  BY <1>8 DEF NoSuchWorker, ThreadFault, threadVars, handlerVars, history, OwnerInv, Making, Kept
<1> QED
  BY <1>1, <1>2, <1>3, <1>4, <1>5, <1>6, <1>7, <1>8 DEF Continue

\* The loop deletes handlers that have a worker.
LEMMA LoopKeepsOwnerInv ==
    ASSUME ServiceInv, OwnerInv, PlaceInv, NEW w \in Worker, Loop(w)
    PROVE  OwnerInv'
<1> USE DEF ServiceInv, SvcTypeOK
<1>1. CASE FreeDels(w)
  <2>1. /\ UNCHANGED <<pc, at, own>>
        /\ life' = [h \in Handler |-> IF h \in dels[w] THEN "freed" ELSE life[h]]
        /\ stray' = stray \cup {h \in dels[w] : ToBeAdded(h)}
    BY <1>1 DEF FreeDels, threadVars
  <2>2. \A t \in Thread : Making(t) \/ pc[t] = "add" => at[t] \in Handler
    BY DEF ThreadInv, Making
  <2>3. \A h \in dels[w] : own[h] # NoWorker
    BY OwnNames DEF PlaceInv
  <2>4. \A t \in Thread : pc[t] = "add" => ToBeAdded(at[t])
    BY DEF ToBeAdded
  <2> QED
    BY <2>1, <2>2, <2>3, <2>4 DEF OwnerInv, HandlerTypes, Making, Kept
<1>2. CASE ~FreeDels(w)
  <2>1. UNCHANGED <<pc, at, life, own, stray>>
    BY <1>2 DEF Loop, EventWait, TakeDels, DrainPipe, SkipDeleted, ProcessEvent, TakeOps, TakeAdds,
                LoopFault, threadVars, handlerVars, history
  <2> QED
    BY <2>1 DEF OwnerInv, Making, Kept
<1> QED
  BY <1>1, <1>2

-----------------------------------------------------------------------------
(* The places of a worker.                                                 *)
\* A handler without a worker is at no worker's place.
LEMMA NoWorkerNoPlace ==
    ASSUME PlaceInv, NEW h \in Handler, own[h] = NoWorker, NEW w \in Worker
    PROVE  /\ h \notin addQ[w] \cup rwQ[w] \cup delQ[w] \cup dels[w] \cup epoll[w]
           /\ \A e \in batch[w] : e.eh # h
           /\ fin[w] # h
BY PeersOfHandlers, OwnNames DEF PlaceInv

LEMMA EnqueueAddsOne ==
    ASSUME NEW q \in [Worker -> SUBSET Handler], NEW v, NEW h, NEW w \in Worker,
           NEW g \in Enqueue(q, v, h)[w]
    PROVE  g \in q[w] \/ (g = h /\ v = w)
BY DEF Enqueue

LEMMA ThreadsKeepPlaceInv ==
    ASSUME ServiceInv, OwnerInv, PlaceInv, NEW t \in Thread, Call(t) \/ Continue(t)
    PROVE  PlaceInv'
<1>0. /\ UNCHANGED <<phase, batch, dels, epoll, stray, delQ>>
      /\ \A w \in Worker : fin'[w] = fin[w]
  BY ThreadLeavesLoops, ContinueGivesNothingUp, CallLeavesWorkers DEF giveVars
<1>1. CASE UNCHANGED <<life, own, addQ, rwQ>>
  BY <1>0, <1>1 DEF PlaceInv, Kept
<1>2. ASSUME NEW h \in Handler, NewHandler(t, h)
      PROVE  PlaceInv'
  <2>1. /\ life' = [life EXCEPT ![h] = "live"]
        /\ UNCHANGED <<own, addQ, rwQ>>
    BY <1>2 DEF NewHandler, queueVars
  <2>2. \A g \in Handler : life[g] = "live" => life'[g] = "live"
    BY <2>1 DEF ServiceInv, SvcTypeOK, HandlerTypes
  <2> QED
    BY <1>0, <2>1, <2>2
       DEF PlaceInv, ServiceInv, SvcTypeOK, GiveTypes, Giver, KernelTypes, QueueTypes, Kept
<1>3. CASE HandshakeFails(t) \/ FailsAfterPut(t)
  <2>1. /\ at[t] \in Handler /\ own[at[t]] = NoWorker
        /\ life' = [life EXCEPT ![at[t]] = "freed"]
        /\ UNCHANGED <<own, addQ, rwQ>>
    BY <1>3 DEF HandshakeFails, FailsAfterPut, queueVars, OwnerInv, Making, ServiceInv, ThreadInv
  <2>2. \A g \in Handler : g # at[t] => life'[g] = life[g]
    BY <2>1 DEF ServiceInv, SvcTypeOK, HandlerTypes
  <2> QED
    BY <1>0, <2>1, <2>2, NoWorkerNoPlace
       DEF PlaceInv, ServiceInv, SvcTypeOK, GiveTypes, Giver, KernelTypes, QueueTypes, Kept
<1>4. CASE SetOwnWorker(t)
  <2>1. /\ at[t] \in Handler /\ own[at[t]] = NoWorker
        /\ UNCHANGED <<life, addQ, rwQ>>
    BY <1>4 DEF SetOwnWorker, queueVars, OwnerInv, Making, ServiceInv, ThreadInv
  <2>2. \A g \in Handler : g # at[t] => own'[g] = own[g]
    BY <1>4 DEF SetOwnWorker, ServiceInv, SvcTypeOK, HandlerTypes
  <2> QED
    BY <1>0, <2>1, <2>2, NoWorkerNoPlace
       DEF PlaceInv, ServiceInv, SvcTypeOK, GiveTypes, Giver, LoopTypes, KernelTypes, QueueTypes, Kept
<1>5. ASSUME at[t] \in Handler, UNCHANGED <<life, own>>,
             addQ' \in {addQ, Enqueue(addQ, own[at[t]], at[t])}, addQ' = addQ \/ Kept(at[t]),
             rwQ' \in {rwQ, Enqueue(rwQ, own[at[t]], at[t])}
      PROVE  PlaceInv'
  <2>1. \A w \in Worker : \A h \in addQ'[w] \cup rwQ'[w] :
            h \in addQ[w] \cup rwQ[w] \/ (h = at[t] /\ own[at[t]] = w)
    BY <1>5, EnqueueAddsOne DEF ServiceInv, SvcTypeOK, QueueTypes
  <2>2. \A w \in Worker : \A h \in addQ'[w] : h \in addQ[w] \/ Kept(h)
    BY <1>5, EnqueueAddsOne DEF ServiceInv, SvcTypeOK, QueueTypes
  <2> QED
    BY <1>0, <1>5, <2>1, <2>2 DEF PlaceInv, Kept
<1>6. CASE Push(t)
  <2>1. at[t] \in Handler
    BY <1>6 DEF Push, ServiceInv, ThreadInv
  <2> QED
    BY <1>5, <1>6, <2>1 DEF Push, handlerVars, queueVars
<1>7. CASE AddEvent(t)
  <2>1. at[t] \in Handler /\ Kept(at[t])
    BY <1>7 DEF AddEvent, ServiceInv, ThreadInv, OwnerInv
  <2> QED
    BY <1>5, <1>7, <2>1 DEF AddEvent, handlerVars
<1>8. CASE Call(t)
  <2>1. CASE \E p \in Peer : SendMessage(t, p) \/ Disconnect(t, p)
    BY <1>1, <2>1 DEF SendMessage, Disconnect, handlerVars, queueVars
  <2> QED
    BY <1>2, <1>8, <2>1, PeersOfHandlers DEF Call, Accept
<1>9. CASE Dial(t)
  BY <1>2, <1>9, Threads DEF Dial
<1>10. CASE AlreadyConnected(t) \/ DialRefused(t) \/ Lookup(t) \/ HandshakePut(t)
              \/ MoveIndex(t) \/ WrapIndex(t) \/ NoSuchWorker(t) \/ ThreadFault(t)
  BY <1>1, <1>10 DEF AlreadyConnected, DialRefused, Lookup, HandshakePut, MoveIndex, WrapIndex,
                     NoSuchWorker, ThreadFault, handlerVars, queueVars
<1> QED
  BY <1>3, <1>4, <1>6, <1>7, <1>8, <1>9, <1>10 DEF Continue

\* What a giver does to the state: at most one handler goes from it to a delete list.
LEMMA GiveUpMoves ==
    ASSUME ServiceInv, NEW x \in Giver, GiveUp(x)
    PROVE  /\ fin[x] \in Handler
           /\ \A y \in Giver : fin'[y] \in {fin[y], NoHandler}
           /\ \A y \in Giver \ {x} : fin'[y] = fin[y] /\ rel'[y] = rel[y]
           /\ fin'[x] # NoHandler /\ rel'[x] # "wake" => rel[x] # "wake"
           /\ \/ delQ' = delQ
              \/ /\ life[fin[x]] = "live" /\ rel[x] = "enlist" /\ rel'[x] = "wake"
                 /\ delQ' = Enqueue(delQ, own[fin[x]], fin[x])
           /\ rel[x] = "wake" => delQ' = delQ
<1> USE DEF ServiceInv, SvcTypeOK, GiveTypes, Releasing, GoOn, EndRelease, StartRelease
<1>1. CASE DropReference(x) \/ ReadCount(x)
  BY <1>1 DEF DropReference, ReadCount, queueVars
<1>2. CASE AddDelEvent(x)
  BY <1>2 DEF AddDelEvent
<1>3. CASE WakeOwner(x)
  BY <1>3 DEF WakeOwner
<1>4. CASE ReleaseFault(x)
  BY <1>4 DEF ReleaseFault, queueVars, giveVars
<1> QED
  BY <1>1, <1>2, <1>3, <1>4 DEF GiveUp

LEMMA GiveUpKeepsPlaceInv ==
    ASSUME ServiceInv, PlaceInv, NEW x \in Giver, GiveUp(x)
    PROVE  PlaceInv'
<1>1. UNCHANGED <<life, own, addQ, rwQ, phase, batch, dels, epoll, stray>>
  BY GiveUpLeaves DEF loopVars, kernelVars, history
<1>2. \A w \in Worker : \A h \in delQ'[w] : h \in delQ[w] \/ own[h] = w
  BY GiveUpMoves, EnqueueAddsOne DEF ServiceInv, SvcTypeOK, QueueTypes
<1>3. \A w \in Worker : fin'[w] \in {NoHandler, fin[w]}
  BY GiveUpMoves DEF Giver
<1> QED
  BY <1>1, <1>2, <1>3 DEF PlaceInv, Kept

LEMMA LoopKeepsPlaceInv ==
    ASSUME ServiceInv, PlaceInv, NEW w \in Worker, Loop(w)
    PROVE  PlaceInv'
<1> USE DEF ServiceInv, SvcTypeOK
<1>1. CASE EventWait(w)
  <2> DEFINE ready == epoll[w] \cap (readable \cup writable)
  <2>1. /\ \A e \in batch'[w] : e.eh \in ready \cup {LocalHandler}
        /\ \A v \in Worker \ {w} : batch'[v] = batch[v] /\ phase'[v] = phase[v]
        /\ phase[w] = "wait" /\ phase'[w] = "dels"
    BY <1>1 DEF EventWait, Step, LoopTypes
  <2>2. UNCHANGED <<life, own, addQ, rwQ, delQ, dels, fin, epoll, stray>>
    BY <1>1 DEF EventWait, handlerVars, queueVars, giveVars, history
  <2> QED
    BY <2>1, <2>2, OwnNames DEF PlaceInv, Kept
<1>2. CASE TakeDels(w)
  <2>1. /\ phase[w] = "dels" /\ phase' = [phase EXCEPT ![w] = "events"]
        /\ dels' = [dels EXCEPT ![w] = delQ[w]]
        /\ delQ' = [delQ EXCEPT ![w] = {}]
        /\ epoll' = [epoll EXCEPT ![w] = @ \ delQ[w]]
        /\ UNCHANGED <<life, own, addQ, rwQ, batch, fin, stray>>
    BY <1>2 DEF TakeDels, Step, handlerVars, giveVars, history
  <2> QED
    BY <2>1 DEF PlaceInv, LoopTypes, QueueTypes, KernelTypes, Kept
<1>3. CASE DrainPipe(w) \/ SkipDeleted(w)
  <2>1. /\ \A v \in Worker : batch'[v] \subseteq batch[v]
        /\ UNCHANGED <<life, own, addQ, rwQ, delQ, phase, dels, fin, epoll, stray>>
    BY <1>3 DEF DrainPipe, SkipDeleted, Done, LoopTypes, handlerVars, queueVars, giveVars,
                kernelVars, history
  <2> QED
    BY <2>1 DEF PlaceInv, Kept
<1>4. CASE ProcessEvent(w)
  <2>1. PICK e \in batch[w] :
            /\ e.eh \in Handler \ dels[w] /\ life[e.eh] = "live"
            /\ Done(w, e)
            /\ fin' \in {fin, [fin EXCEPT ![w] = NoHandler], [fin EXCEPT ![w] = e.eh]}
    BY <1>4 DEF ProcessEvent, StartRelease, giveVars
  <2>2. /\ \A v \in Worker : batch'[v] \subseteq batch[v]
        /\ UNCHANGED <<life, own, addQ, rwQ, delQ, phase, dels, epoll, stray>>
    BY <1>4, <2>1 DEF ProcessEvent, Done, LoopTypes, handlerVars, queueVars, kernelVars, history
  <2>3. own[e.eh] = w
    BY <2>1 DEF PlaceInv
  <2>4. \A v \in Worker : fin'[v] \in {NoHandler, fin[v]} \/ (v = w /\ fin'[v] = e.eh)
    <3>1. ASSUME NEW h, fin' = [fin EXCEPT ![w] = h], NEW v \in Worker
          PROVE  fin'[v] = fin[v] \/ (v = w /\ fin'[v] = h)
      BY <3>1 DEF GiveTypes, Giver
    <3> QED
      BY <2>1, <3>1
  <2> QED
    BY <2>1, <2>2, <2>3, <2>4 DEF PlaceInv, Kept
<1>5. CASE TakeOps(w)
  <2>1. /\ \A e \in batch'[w] : e.eh \in rwQ[w]
        /\ \A v \in Worker \ {w} : batch'[v] = batch[v]
        /\ phase[w] = "events" /\ phase' = [phase EXCEPT ![w] = "ops"]
        /\ rwQ' = [rwQ EXCEPT ![w] = {}]
        /\ UNCHANGED <<life, own, addQ, delQ, dels, fin, epoll, stray>>
    BY <1>5 DEF TakeOps, Step, LoopTypes, handlerVars, giveVars, kernelVars, history
  <2> QED
    BY <2>1 DEF PlaceInv, LoopTypes, QueueTypes, Kept
<1>6. CASE FreeDels(w)
  <2>1. /\ phase[w] = "ops" /\ phase' = [phase EXCEPT ![w] = "adds"]
        /\ fin[w] = NoHandler
        /\ life' = [h \in Handler |-> IF h \in dels[w] THEN "freed" ELSE life[h]]
        /\ dels' = [dels EXCEPT ![w] = {}]
        /\ stray' = stray \cup {h \in dels[w] : ToBeAdded(h)}
        /\ UNCHANGED <<own, addQ, rwQ, delQ, batch, fin, epoll>>
    BY <1>6 DEF FreeDels, Step, Processing, queueVars, giveVars
  <2>2. \A h \in Handler : life[h] = "live" /\ (own[h] = w => h \notin dels[w]) => life'[h] = "live"
    BY <2>1 DEF PlaceInv
  <2>3. \A h \in Handler : Kept(h) /\ (own[h] = w => h \notin dels[w]) => Kept(h)'
    BY <2>1, <2>2 DEF Kept
  <2>4. \A v \in Worker : \A h \in addQ[v] : Kept(h)'
    BY <2>1, <2>2 DEF PlaceInv, Kept, ToBeAdded, QueueTypes
  <2>5. /\ \A v \in Worker : epoll[v] \subseteq Handler /\ fin[v] \in Handler \cup {NoHandler}
        /\ \A v \in Worker : dels'[v] \subseteq dels[v]
        /\ \A v \in Worker : v # w => phase'[v] = phase[v] /\ dels'[v] = dels[v]
        /\ phase'[w] = "adds" /\ dels'[w] = {}
    BY <2>1 DEF LoopTypes, KernelTypes, GiveTypes, Giver
  <2> QED
    BY <2>1, <2>2, <2>3, <2>4, <2>5 DEF PlaceInv
<1>7. CASE TakeAdds(w)
  <2>1. PICK added \in SUBSET addQ[w] : epoll' = [epoll EXCEPT ![w] = @ \cup added]
    BY <1>7 DEF TakeAdds
  <2>2. /\ phase[w] = "adds" /\ phase' = [phase EXCEPT ![w] = "wait"]
        /\ addQ' = [addQ EXCEPT ![w] = {}]
        /\ UNCHANGED <<life, own, rwQ, delQ, batch, dels, fin, stray>>
    BY <1>7 DEF TakeAdds, Step, handlerVars, giveVars, history
  <2> QED
    BY <2>1, <2>2 DEF PlaceInv, LoopTypes, QueueTypes, KernelTypes, Kept
<1>8. CASE LoopFault(w)
  BY <1>8 DEF LoopFault, PlaceInv, Kept, handlerVars, queueVars, giveVars, loopVars, kernelVars,
              history
<1> QED
  BY <1>1, <1>2, <1>3, <1>4, <1>5, <1>6, <1>7, <1>8 DEF Loop

-----------------------------------------------------------------------------
(* The table, and who gives a handler up.                                  *)
\* A step after which nobody has got hold of a handler.
LEMMA QuietKeepsTableInv ==
    ASSUME TableInv,
           \A h \in Handler : Registered(h)' => Registered(h),
           \A h \in Handler : GivenUp(h)' => GivenUp(h),
           \A h \in Handler : Listed(h)' => Listed(h) \/ GivenUp(h),
           \A t \in Thread : pc'[t] = "handshake" => pc[t] = "handshake" /\ at'[t] = at[t],
           \A h \in Handler : life[h] # "unborn" => life'[h] # "unborn",
           \A h \in Handler : Registered(h) /\ (life[h] = "live" \/ h \in late) =>
                                  life'[h] = "live" \/ h \in late'
    PROVE  TableInv'
BY DEF TableInv

\* Disconnect gives up the handler it took from the table.
LEMMA DisconnectTakes ==
    ASSUME ServiceInv, MgrInv, NEW t \in User, NEW p \in Peer, Disconnect(t, p)
    PROVE  \E h \in Handler :
               /\ Registered(h) /\ ~Registered(h)'
               /\ fin' = [fin EXCEPT ![t] = h] /\ fin'[t] = h
               /\ \A g \in Handler : /\ Registered(g)' => Registered(g)
                                     /\ GivenUp(g)' => GivenUp(g) \/ g = h
                                     /\ Listed(g)' <=> Listed(g)
<1>1. PICK h \in Handler : h = workers[p] /\ LogicPeer[h] = p
  BY DEF Disconnect, MgrInv, MgrTypeOK, WorkersFiledRight
<1>2. /\ workers' = [workers EXCEPT ![p] = NoHandler]
      /\ fin' = [fin EXCEPT ![t] = h]
      /\ UNCHANGED <<delQ, dels>>
  BY <1>1, PeersOfHandlers DEF Disconnect, RemoveByLogic, StartRelease, queueVars, loopVars
<1>3. fin \in [Giver -> Handler \cup {NoHandler}] /\ workers \in [Peer -> Handler \cup {NoHandler}]
  BY DEF ServiceInv, SvcTypeOK, GiveTypes, MgrTypeOK
<1>4. Registered(h) /\ ~Registered(h)'
  BY <1>1, <1>2, <1>3, PeersOfHandlers DEF Registered
<1>5. \A g \in Handler : Registered(g)' => Registered(g)
  BY <1>2, <1>3, PeersOfHandlers DEF Registered
<1>6. \A g \in Handler : /\ GivenUp(g)' => GivenUp(g) \/ g = h
                         /\ Listed(g)' <=> Listed(g)
  BY <1>2, <1>3 DEF GivenUp, Listed
<1>7. fin'[t] = h
  BY <1>2, <1>3 DEF Giver
<1> QED
  BY <1>2, <1>4, <1>5, <1>6, <1>7

\* The moves of a thread that matter to the table.
LEMMA ThreadsKeepTableInv ==
    ASSUME ServiceInv, MgrInv, HandlerInv, NEW t \in Thread, Call(t) \/ Continue(t)
    PROVE  TableInv'
<1> USE DEF HandlerInv
<1>0. /\ UNCHANGED <<delQ, dels>>
      /\ \A u \in Thread \ {t} : pc'[u] = pc[u] /\ at'[u] = at[u]
      /\ pc \in [Thread -> {"idle", "connect", "lookup", "send",
                            "handshake", "pick", "wrap", "own", "add"}]
      /\ at \in [Thread -> Handler \cup {NoHandler}]
      /\ life \in [Handler -> {"unborn", "live", "freed"}]
      /\ workers \in [Peer -> Handler \cup {NoHandler}]
  BY ThreadLeavesLoops, ThreadMovesAlone DEF ServiceInv, SvcTypeOK, ThreadTypes, HandlerTypes,
     MgrTypeOK
<1>1. ASSUME pc'[t] # "handshake" \/ UNCHANGED <<pc, at>>, UNCHANGED <<mgrVars, life, giveVars, late>>
      PROVE  TableInv'
  BY <1>0, <1>1, QuietKeepsTableInv DEF mgrVars, giveVars, Registered, GivenUp, Listed
<1>2. ASSUME NEW h \in Handler, NewHandler(t, h)
      PROVE  TableInv'
  <2>1. /\ life[h] = "unborn" /\ life' = [life EXCEPT ![h] = "live"]
        /\ pc'[t] = "handshake" /\ at'[t] = h
        /\ UNCHANGED <<workers, fin, late>>
    BY <1>0, <1>2 DEF NewHandler, Goto, mgrVars, giveVars, history
  <2>2. ~Registered(h) /\ ~GivenUp(h)
    BY <2>1 DEF TableInv
  <2>3. \A g \in Handler : /\ Registered(g)' <=> Registered(g)
                           /\ GivenUp(g)' <=> GivenUp(g)
                           /\ Listed(g)' <=> Listed(g)
    BY <1>0, <2>1 DEF Registered, GivenUp, Listed
  <2> QED
    BY <1>0, <2>1, <2>2, <2>3 DEF TableInv
<1>3. ASSUME t \in User, NEW p \in Peer, Disconnect(t, p)
      PROVE  TableInv'
  <2>1. UNCHANGED <<pc, at, life, late>>
    BY <1>3 DEF Disconnect, threadVars, handlerVars, history
  <2> QED
    BY <1>3, <2>1, DisconnectTakes DEF TableInv
<1>4. CASE HandshakeFails(t) \/ FailsAfterPut(t)
  <2>1. /\ at[t] \in Handler /\ pc'[t] = "idle" /\ pc[t] \in {"handshake", "pick"}
        /\ late' = IF pc[t] = "pick" THEN late \cup {at[t]} ELSE late
        /\ life' = [life EXCEPT ![at[t]] = "freed"]
        /\ UNCHANGED <<workers, fin>>
    BY <1>0, <1>4 DEF HandshakeFails, FailsAfterPut, Return, mgrVars, giveVars, history, ServiceInv,
       ThreadInv
  <2>2. pc[t] = "handshake" => ~Registered(at[t])
    BY <2>1 DEF TableInv
  <2>3. \A g \in Handler : /\ Registered(g)' <=> Registered(g)
                           /\ GivenUp(g)' <=> GivenUp(g)
                           /\ Listed(g)' <=> Listed(g)
    BY <1>0, <2>1 DEF Registered, GivenUp, Listed
  <2>4. \A g \in Handler : Registered(g) /\ (life[g] = "live" \/ g \in late) =>
                               life'[g] = "live" \/ g \in late'
    BY <1>0, <2>1, <2>2
  <2> QED
    BY <1>0, <2>1, <2>3, <2>4, QuietKeepsTableInv
<1>5. CASE HandshakePut(t)
  <2> DEFINE h == at[t]
  <2>1. /\ h \in Handler /\ pc[t] = "handshake" /\ pc'[t] = "pick"
        /\ workers' = [workers EXCEPT ![LogicPeer[h]] = h]
        /\ UNCHANGED <<at, life, fin, late>>
    BY <1>0, <1>5 DEF HandshakePut, Put, Goto, ServiceInv, ThreadInv, handlerVars, giveVars, history
  <2>2. life[h] = "live" /\ ~Listed(h) /\ ~GivenUp(h)
    BY <2>1, NoWorkerNoPlace DEF OwnerInv, Making, Listed, TableInv
  <2>3. \A u \in Thread : ~(pc'[u] = "handshake" /\ at'[u] = h)
    BY <1>0, <2>1 DEF OwnerInv, Making
  <2>4. \A g \in Handler : /\ Registered(g)' /\ g # h => Registered(g)
                           /\ GivenUp(g)' <=> GivenUp(g)
                           /\ Listed(g)' <=> Listed(g)
    BY <1>0, <2>1, PeersOfHandlers DEF Registered, GivenUp, Listed
  <2> QED
    BY <1>0, <2>1, <2>2, <2>3, <2>4 DEF TableInv
<1>6. CASE Call(t)
  <2>1. ASSUME NEW p \in Peer, SendMessage(t, p) PROVE TableInv'
    BY <1>0, <1>1, <2>1 DEF SendMessage, Goto, handlerVars, history
  <2> QED
    BY <1>2, <1>3, <1>6, <2>1, PeersOfHandlers DEF Call, Accept
<1>7. CASE Dial(t)
  BY <1>2, <1>7, Threads DEF Dial
<1>8. CASE AlreadyConnected(t) \/ DialRefused(t) \/ Lookup(t) \/ Push(t) \/ MoveIndex(t)
             \/ WrapIndex(t)
  <2>1. pc'[t] \in {"lookup", "idle", "send", "wrap", "own"}
    BY <1>0, <1>8 DEF AlreadyConnected, DialRefused, Lookup, Push, MoveIndex, WrapIndex, Goto,
       Return
  <2>2. UNCHANGED <<mgrVars, life, giveVars, late>>
    BY <1>8 DEF AlreadyConnected, DialRefused, Lookup, Push, MoveIndex, WrapIndex, handlerVars,
       history
  <2> QED
    BY <1>1, <2>1, <2>2
<1>9. CASE SetOwnWorker(t) \/ NoSuchWorker(t) \/ AddEvent(t) \/ ThreadFault(t)
  <2>1. pc'[t] \in {"add", "lookup", "idle"} \/ UNCHANGED <<pc, at>>
    BY <1>0, <1>9 DEF SetOwnWorker, NoSuchWorker, AddEvent, ThreadFault, Goto, Return, threadVars
  <2>2. UNCHANGED <<mgrVars, life, giveVars, late>>
    BY <1>9 DEF SetOwnWorker, NoSuchWorker, AddEvent, ThreadFault, handlerVars, history
  <2> QED
    BY <1>1, <2>1, <2>2
<1> QED
  BY <1>4, <1>5, <1>6, <1>7, <1>8, <1>9 DEF Continue

LEMMA GiveUpKeepsTableInv ==
    ASSUME ServiceInv, HandlerInv, NEW x \in Giver, GiveUp(x)
    PROVE  TableInv'
<1>1. UNCHANGED <<workers, pc, at, life, dels, late>>
  BY GiveUpLeaves DEF mgrVars, threadVars, loopVars, history
<1>2. \A h \in Handler : GivenUp(h)' => GivenUp(h)
  BY GiveUpMoves, PeersOfHandlers DEF GivenUp
<1>3. \A h \in Handler : Listed(h)' => Listed(h) \/ GivenUp(h)
  BY <1>1, GiveUpMoves, EnqueueAddsOne DEF Listed, GivenUp, ServiceInv, SvcTypeOK, QueueTypes
<1> QED
  BY <1>1, <1>2, <1>3, QuietKeepsTableInv DEF HandlerInv, Registered

\* What ProcessEvent does to the table and to the one that gives up.
LEMMA FinishTakes ==
    ASSUME ServiceInv, MgrInv, PlaceInv, NEW w \in Worker, ProcessEvent(w)
    PROVE  /\ UNCHANGED <<pc, at, life, late, delQ, dels>>
           /\ \A g \in Handler : Registered(g)' => Registered(g)
           /\ \/ \A x \in Giver : fin'[x] \in {fin[x], NoHandler}
              \/ \E h \in Handler :
                     /\ fin' = [fin EXCEPT ![w] = h]
                     /\ life[h] = "live" /\ own[h] = w /\ ~Registered(h)'
                     /\ OwnsRealPeer(h) => Registered(h)
<1> USE DEF ServiceInv, SvcTypeOK
<1>1. PICK e \in batch[w] :
          /\ e.eh \in Handler /\ life[e.eh] = "live"
          /\ \/ UNCHANGED <<mgrVars, giveVars>>
             \/ /\ RemoveByBoth(LogicPeer[e.eh], RealPeer[e.eh])
                /\ fin' = [fin EXCEPT ![w] =
                       IF RemovedByBoth(LogicPeer[e.eh], RealPeer[e.eh]) = NoHandler
                       THEN NoHandler ELSE e.eh]
  BY DEF ProcessEvent, StartRelease
<1>2. PICK h \in Handler : h = e.eh /\ own[h] = w
  BY <1>1 DEF PlaceInv
<1>3. UNCHANGED <<pc, at, life, late, delQ, dels>>
  BY DEF ProcessEvent, threadVars, handlerVars, queueVars, history
<1>4. CASE UNCHANGED <<mgrVars, giveVars>>
  BY <1>3, <1>4 DEF mgrVars, giveVars, Registered
<1>5. CASE /\ RemoveByBoth(LogicPeer[h], RealPeer[h])
           /\ RemovedByBoth(LogicPeer[h], RealPeer[h]) = NoHandler
           /\ fin' = [fin EXCEPT ![w] = NoHandler]
  <2>1. \A g \in Handler : Registered(g)' => Registered(g)
    BY <1>5, PeersOfHandlers DEF RemoveByBoth, Registered, MgrTypeOK
  <2> QED
    BY <1>3, <1>5, <2>1 DEF GiveTypes
<1>6. CASE /\ RemoveByBoth(LogicPeer[h], RealPeer[h])
           /\ RemovedByBoth(LogicPeer[h], RealPeer[h]) # NoHandler
           /\ fin' = [fin EXCEPT ![w] = h]
  <2>1. /\ workers' = [workers EXCEPT ![LogicPeer[h]] = NoHandler]
        /\ rpLp[RealPeer[h]] # NoPeer
    BY <1>6 DEF RemoveByBoth, RemovedByBoth
  <2>2. \A g \in Handler : Registered(g)' => Registered(g) /\ g # h
    BY <2>1, PeersOfHandlers DEF Registered, MgrTypeOK
  <2>3. OwnsRealPeer(h) => Registered(h)
    BY <2>1, OnFileMeansRegistered DEF OwnsRealPeer, Registered
  <2> QED
    BY <1>1, <1>2, <1>3, <1>6, <2>2, <2>3
<1> QED
  BY <1>1, <1>2, <1>4, <1>5, <1>6

LEMMA LoopKeepsTableInv ==
    ASSUME ServiceInv, MgrInv, HandlerInv, NEW w \in Worker, Loop(w)
    PROVE  TableInv'
<1> USE DEF HandlerInv, ServiceInv, SvcTypeOK
<1>1. ASSUME UNCHANGED <<workers, pc, at, fin, late>>,
             \A h \in Handler : Listed(h)' => Listed(h),
             \A h \in Handler : life[h] # "unborn" => life'[h] # "unborn",
             \A h \in Handler : Registered(h) => life'[h] = life[h]
      PROVE  TableInv'
  BY <1>1, QuietKeepsTableInv DEF Registered, GivenUp
<1>2. CASE TakeDels(w)
  <2>1. /\ dels' = [dels EXCEPT ![w] = delQ[w]] /\ delQ' = [delQ EXCEPT ![w] = {}]
        /\ UNCHANGED <<workers, pc, at, fin, late, life>>
    BY <1>2 DEF TakeDels, mgrVars, threadVars, handlerVars, giveVars, history
  <2>2. \A h \in Handler : Listed(h)' => Listed(h)
    BY <2>1 DEF Listed, LoopTypes, QueueTypes
  <2> QED
    BY <1>1, <2>1, <2>2
<1>3. CASE ProcessEvent(w)
  <2>1. /\ UNCHANGED <<pc, at, life, late, delQ, dels>>
        /\ \A g \in Handler : Registered(g)' => Registered(g)
        /\ \A g \in Handler : Listed(g)' <=> Listed(g)
    BY <1>3, FinishTakes DEF Listed
  <2>2. CASE \A x \in Giver : fin'[x] \in {fin[x], NoHandler}
    <3>1. \A g \in Handler : GivenUp(g)' => GivenUp(g)
      BY <2>2, PeersOfHandlers DEF GivenUp
    <3> QED
      BY <2>1, <3>1, QuietKeepsTableInv
  <2>3. ASSUME NEW h \in Handler, fin' = [fin EXCEPT ![w] = h], life[h] = "live", own[h] = w,
               ~Registered(h)'
        PROVE  TableInv'
    <3>1. \A g \in Handler : GivenUp(g)' => GivenUp(g) \/ g = h
      BY <2>3 DEF GivenUp, GiveTypes
    <3>2. ~(\E t \in Thread : pc[t] = "handshake" /\ at[t] = h)
      BY <2>3, OwnNames DEF OwnerInv, Making
    <3> QED
      BY <2>1, <2>3, <3>1, <3>2 DEF TableInv
  <2> QED
    BY <1>3, <2>2, <2>3, FinishTakes
<1>4. CASE FreeDels(w)
  <2>1. /\ life' = [h \in Handler |-> IF h \in dels[w] THEN "freed" ELSE life[h]]
        /\ \A v \in Worker : dels'[v] \subseteq dels[v]
        /\ UNCHANGED <<workers, pc, at, fin, delQ, late>>
    BY <1>4 DEF FreeDels, mgrVars, threadVars, giveVars, queueVars, LoopTypes
  <2>2. \A h \in Handler : Registered(h) => h \notin dels[w]
    BY DEF TableInv, Listed
  <2>3. \A h \in Handler : Listed(h)' => Listed(h)
    BY <2>1 DEF Listed
  <2> QED
    BY <1>1, <2>1, <2>2, <2>3
<1>5. CASE EventWait(w) \/ DrainPipe(w) \/ SkipDeleted(w) \/ TakeOps(w) \/ TakeAdds(w) \/ LoopFault(w)
  <2>1. UNCHANGED <<workers, pc, at, fin, late, life, delQ, dels>>
    BY <1>5 DEF EventWait, DrainPipe, SkipDeleted, TakeOps, TakeAdds, LoopFault, mgrVars,
                threadVars, handlerVars, queueVars, giveVars, loopVars, history
  <2> QED
    BY <1>1, <2>1 DEF Listed
<1> QED
  BY <1>2, <1>3, <1>4, <1>5 DEF Loop

-----------------------------------------------------------------------------
(* Giving up once.                                                         *)
LEMMA QuietKeepsReleaseInv ==
    ASSUME ReleaseInv, UNCHANGED <<fin, rel, delQ, dels>>,
           \A w \in Worker : \A h \in delQ[w] \cup dels[w] :
               h \in Handler /\ life[h] = "live" => life'[h] = "live"
    PROVE  ReleaseInv'
BY DEF ReleaseInv, Listed, OwnsRealPeer

\* Somebody takes a handler that nobody had given up.
LEMMA TakingKeepsReleaseInv ==
    ASSUME ServiceInv, ReleaseInv, NEW x \in Giver, NEW h \in Handler,
           OwnsRealPeer(h) => ~GivenUp(h) /\ ~Listed(h),
           fin' = [fin EXCEPT ![x] = h], \A y \in Giver \ {x} : rel'[y] = rel[y],
           UNCHANGED <<life, delQ, dels>>
    PROVE  ReleaseInv'
<1>1. \A y \in Giver : y # x => fin'[y] = fin[y] /\ rel'[y] = rel[y]
  BY DEF ServiceInv, SvcTypeOK, GiveTypes
<1>2. fin'[x] = h
  BY DEF ServiceInv, SvcTypeOK, GiveTypes
<1>3. \A g \in Handler : Listed(g)' <=> Listed(g)
  BY DEF Listed
<1> QED
  BY <1>1, <1>2, <1>3 DEF ReleaseInv, GivenUp, OwnsRealPeer

LEMMA ThreadsKeepReleaseInv ==
    ASSUME ServiceInv, MgrInv, HandlerInv, NEW t \in Thread, Call(t) \/ Continue(t)
    PROVE  ReleaseInv'
<1> USE DEF HandlerInv
<1>1. ASSUME NEW h \in Handler, NewHandler(t, h)
      PROVE  ReleaseInv'
  <2>1. life' = [life EXCEPT ![h] = "live"] /\ UNCHANGED <<fin, rel, delQ, dels>>
    BY <1>1 DEF NewHandler, queueVars, giveVars, loopVars
  <2> QED
    BY <2>1, QuietKeepsReleaseInv DEF ServiceInv, SvcTypeOK, HandlerTypes
<1>2. ASSUME t \in User, NEW p \in Peer, Disconnect(t, p)
      PROVE  ReleaseInv'
  <2>1. PICK h \in Handler : Registered(h) /\ fin' = [fin EXCEPT ![t] = h]
    BY <1>2, DisconnectTakes
  <2>2. ~GivenUp(h) /\ ~Listed(h)
    BY <2>1 DEF TableInv
  <2>3. /\ \A y \in Giver \ {t} : rel'[y] = rel[y]
        /\ UNCHANGED <<life, delQ, dels>>
    BY <1>2 DEF Disconnect, StartRelease, handlerVars, queueVars, loopVars, ServiceInv, SvcTypeOK,
                GiveTypes
  <2> QED
    BY <1>2, <2>1, <2>2, <2>3, TakingKeepsReleaseInv DEF Giver
<1>3. CASE HandshakeFails(t) \/ FailsAfterPut(t)
  <2>1. /\ at[t] \in Handler /\ Making(t)
        /\ life' = [life EXCEPT ![at[t]] = "freed"]
        /\ UNCHANGED <<fin, rel, delQ, dels>>
    BY <1>3 DEF HandshakeFails, FailsAfterPut, giveVars, queueVars, loopVars, Making, ServiceInv,
                ThreadInv
  <2>2. \A w \in Worker : at[t] \notin delQ[w] \cup dels[w]
    BY <2>1, NoWorkerNoPlace DEF OwnerInv
  <2> QED
    BY <2>1, <2>2, QuietKeepsReleaseInv DEF ServiceInv, SvcTypeOK, HandlerTypes
<1>4. CASE UNCHANGED <<life, giveVars, delQ, loopVars>>
  BY <1>4, QuietKeepsReleaseInv DEF giveVars, loopVars
<1>5. CASE Call(t)
  <2>1. ASSUME NEW p \in Peer, SendMessage(t, p) PROVE ReleaseInv'
    BY <1>4, <2>1 DEF SendMessage, handlerVars, queueVars
  <2> QED
    BY <1>1, <1>2, <1>5, <2>1, PeersOfHandlers DEF Call, Accept
<1>6. CASE Dial(t)
  BY <1>1, <1>6, Threads DEF Dial
<1>7. CASE Continue(t) /\ ~(Dial(t) \/ HandshakeFails(t) \/ FailsAfterPut(t))
  BY <1>4, <1>7 DEF Continue, AlreadyConnected, DialRefused, Lookup, Push, HandshakePut, MoveIndex,
                    WrapIndex, SetOwnWorker, NoSuchWorker, AddEvent, ThreadFault, handlerVars,
                    queueVars
<1> QED
  BY <1>3, <1>5, <1>6, <1>7

\* Whoever holds the only claim on h passes it on to the delete list of h's worker.
LEMMA GiveUpKeepsReleaseInv ==
    ASSUME ServiceInv, HandlerInv, NEW x \in Giver, GiveUp(x)
    PROVE  ReleaseInv'
<1> USE DEF HandlerInv
<1>1. UNCHANGED <<life, dels>>
  BY GiveUpLeaves DEF loopVars
<1> SUFFICES ASSUME NEW h \in Handler, OwnsRealPeer(h)
             PROVE  /\ \A y, z \in Giver : fin'[y] = h /\ fin'[z] = h => y = z
                    /\ \A y \in Giver : fin'[y] = h /\ rel'[y] # "wake" => ~Listed(h)'
                    /\ \A w \in Worker :
                           /\ h \notin delQ'[w] \cap dels'[w]
                           /\ h \in delQ'[w] \cup dels'[w] => life'[h] = "live"
  BY DEF ReleaseInv, OwnsRealPeer
<1>2. \A y, z \in Giver : fin'[y] = h /\ fin'[z] = h => y = z
  BY GiveUpMoves, PeersOfHandlers DEF ReleaseInv
<1>3. CASE h # fin[x] \/ delQ' = delQ
  <2>1. \A w \in Worker : h \in delQ'[w] => h \in delQ[w]
    BY <1>3, GiveUpMoves, EnqueueAddsOne DEF ServiceInv, SvcTypeOK, QueueTypes
  <2>2. Listed(h)' => Listed(h)
    BY <1>1, <2>1 DEF Listed
  <2>3. \A y \in Giver : fin'[y] = h /\ rel'[y] # "wake" => fin[y] = h /\ rel[y] # "wake"
    BY GiveUpMoves, PeersOfHandlers
  <2> QED
    BY <1>1, <1>2, <2>1, <2>2, <2>3 DEF ReleaseInv
<1>4. CASE h = fin[x] /\ delQ' # delQ
  <2>1. rel[x] = "enlist" /\ rel'[x] = "wake" /\ life[h] = "live"
    BY <1>4, GiveUpMoves
  <2>2. \A w \in Worker : h \notin delQ[w] \cup dels[w]
    BY <1>4, <2>1 DEF ReleaseInv, Listed
  <2>3. \A y \in Giver : fin'[y] = h => y = x
    BY <1>4, GiveUpMoves, PeersOfHandlers DEF ReleaseInv
  <2> QED
    BY <1>1, <1>2, <2>1, <2>2, <2>3
<1> QED
  BY <1>3, <1>4

LEMMA LoopKeepsReleaseInv ==
    ASSUME ServiceInv, MgrInv, HandlerInv, NEW w \in Worker, Loop(w)
    PROVE  ReleaseInv'
<1> USE DEF HandlerInv, ServiceInv, SvcTypeOK
<1>1. CASE TakeDels(w)
  <2>1. /\ phase[w] = "dels"
        /\ dels' = [dels EXCEPT ![w] = delQ[w]] /\ delQ' = [delQ EXCEPT ![w] = {}]
        /\ UNCHANGED <<life, fin, rel>>
    BY <1>1 DEF TakeDels, Step, handlerVars, giveVars
  <2>2. /\ \A v \in Worker : delQ'[v] \cup dels'[v] = delQ[v] \cup dels[v]
        /\ \A v \in Worker : delQ'[v] \cap dels'[v] = delQ[v] \cap dels[v]
    BY <2>1 DEF PlaceInv, LoopTypes, QueueTypes
  <2> QED
    BY <2>1, <2>2 DEF ReleaseInv, Listed, OwnsRealPeer
<1>2. CASE ProcessEvent(w)
  <2>1. UNCHANGED <<life, delQ, dels>> /\ \A y \in Giver \ {w} : rel'[y] = rel[y]
    BY <1>2, FinishTakes DEF ProcessEvent, StartRelease, giveVars, GiveTypes
  <2>2. CASE \A x \in Giver : fin'[x] \in {fin[x], NoHandler}
    <3>1. fin[w] = NoHandler
      BY <1>2 DEF ProcessEvent, Processing
    <3>2. \A x \in Giver : \A h \in Handler : fin'[x] = h => fin[x] = h /\ rel'[x] = rel[x]
      BY <2>1, <2>2, <3>1, PeersOfHandlers
    <3> QED
      BY <2>1, <3>2 DEF ReleaseInv, Listed, OwnsRealPeer
  <2>3. ASSUME NEW h \in Handler, fin' = [fin EXCEPT ![w] = h], OwnsRealPeer(h) => Registered(h)
        PROVE  ReleaseInv'
    <3>1. OwnsRealPeer(h) => ~GivenUp(h) /\ ~Listed(h)
      BY <2>3 DEF TableInv
    <3> QED
      BY <2>1, <2>3, <3>1, TakingKeepsReleaseInv DEF Giver
  <2> QED
    BY <1>2, <2>2, <2>3, FinishTakes
<1>3. CASE FreeDels(w)
  <2>1. /\ life' = [h \in Handler |-> IF h \in dels[w] THEN "freed" ELSE life[h]]
        /\ dels' = [dels EXCEPT ![w] = {}]
        /\ UNCHANGED <<fin, rel, delQ>>
    BY <1>3 DEF FreeDels, queueVars, giveVars
  <2>2. dels'[w] = {} /\ \A v \in Worker \ {w} : dels'[v] = dels[v]
    BY <2>1 DEF LoopTypes
  <2>3. ASSUME NEW h \in Handler, OwnsRealPeer(h), NEW v \in Worker, h \in delQ'[v] \cup dels'[v]
        PROVE  h \notin dels[w]
    <3>1. CASE v = w
      BY <2>1, <2>2, <2>3, <3>1 DEF ReleaseInv
    <3>2. CASE v # w
      BY <2>1, <2>2, <2>3, <3>2 DEF PlaceInv
    <3> QED
      BY <3>1, <3>2
  <2> QED
    BY <2>1, <2>2, <2>3 DEF ReleaseInv, Listed, OwnsRealPeer
<1>4. CASE EventWait(w) \/ DrainPipe(w) \/ SkipDeleted(w) \/ TakeOps(w) \/ TakeAdds(w) \/ LoopFault(w)
  <2>1. UNCHANGED <<life, fin, rel, delQ, dels>>
    BY <1>4 DEF EventWait, DrainPipe, SkipDeleted, TakeOps, TakeAdds, LoopFault, handlerVars,
                queueVars, giveVars, loopVars
  <2> QED
    BY <2>1, QuietKeepsReleaseInv
<1> QED
  BY <1>1, <1>2, <1>3, <1>4 DEF Loop

-----------------------------------------------------------------------------
LEMMA NextKeepsHandlerInv == ServiceInv /\ MgrInv /\ HandlerInv /\ [Next]_vars => HandlerInv'
<1> SUFFICES ASSUME ServiceInv, MgrInv, HandlerInv, [Next]_vars PROVE HandlerInv'
  OBVIOUS
<1>1. ASSUME NEW t \in Thread, Call(t) \/ Continue(t) PROVE HandlerInv'
  <2>1. OwnerInv' /\ PlaceInv'
    BY <1>1, ThreadsKeepOwnerInv, ThreadsKeepPlaceInv DEF HandlerInv
  <2>2. TableInv' /\ ReleaseInv'
    BY <1>1, ThreadsKeepTableInv, ThreadsKeepReleaseInv
  <2> QED
    BY <2>1, <2>2 DEF HandlerInv
<1>2. ASSUME NEW x \in Giver, GiveUp(x) PROVE HandlerInv'
  <2>1. OwnerInv'
    BY <1>2, GiveUpLeaves DEF HandlerInv, OwnerInv, Making, Kept, threadVars, history
  <2>2. PlaceInv' /\ TableInv' /\ ReleaseInv'
    BY <1>2, GiveUpKeepsPlaceInv, GiveUpKeepsTableInv, GiveUpKeepsReleaseInv DEF HandlerInv
  <2> QED
    BY <2>1, <2>2 DEF HandlerInv
<1>3. ASSUME NEW w \in Worker, Loop(w) PROVE HandlerInv'
  <2>1. OwnerInv' /\ PlaceInv'
    BY <1>3, LoopKeepsOwnerInv, LoopKeepsPlaceInv DEF HandlerInv
  <2>2. TableInv' /\ ReleaseInv'
    BY <1>3, LoopKeepsTableInv, LoopKeepsReleaseInv
  <2> QED
    BY <2>1, <2>2 DEF HandlerInv
<1>4. ASSUME Remote \/ UNCHANGED vars PROVE HandlerInv'
  <2>1. UNCHANGED <<workers, pc, at, life, own, addQ, rwQ, delQ, phase, batch, dels, fin, rel, epoll,
                    late, stray>>
    BY <1>4 DEF Remote, RemoteCloses, DataArrives, vars, mgrVars, threadVars, handlerVars,
                queueVars, giveVars, loopVars, kernelVars, history
  <2>2. OwnerInv' /\ PlaceInv'
    BY <2>1 DEF HandlerInv, OwnerInv, PlaceInv, Making, Kept
  <2>3. TableInv' /\ ReleaseInv'
    BY <2>1 DEF HandlerInv, TableInv, ReleaseInv, Registered, GivenUp, Listed, OwnsRealPeer
  <2> QED
    BY <2>2, <2>3 DEF HandlerInv
<1> QED
  BY <1>1, <1>2, <1>3, <1>4 DEF Next, Crashed

LEMMA HandlerInvAlways == Spec => []HandlerInv
<1>1. Spec => []MgrInv
  BY ServiceUsesTable, TableConsistent, PTL
<1> QED
  BY <1>1, InitHandlerInv, NextKeepsHandlerInv, ServiceInvAlways, PTL DEF Spec

\* An event fetched from epoll, and the on_finish it leads to, meet no handler that was
\* deleted, but for those deleted before they were registered (nb-socket-service.cc:168
\* knows no exception): for any number of users, workers and connections.
THEOREM FinishNeverMeetsDeletedHandler == Spec => []FinishMeetsLiveHandler
<1>1. HandlerInv => FinishMeetsLiveHandler
  BY DEF HandlerInv, PlaceInv, Kept, FinishMeetsLiveHandler
<1> QED
  BY <1>1, HandlerInvAlways, PTL

\* Epoll of a worker holds handlers of that worker only, and deleted ones only if they
\* were deleted while on the way to it.
THEOREM EpollKeepsOnlyStrays == Spec => []EpollForgetsDeleted
<1>1. HandlerInv => EpollForgetsDeleted
  BY DEF HandlerInv, PlaceInv, Kept, EpollForgetsDeleted
<1> QED
  BY <1>1, HandlerInvAlways, PTL

\* A connection with a real peer of its own is deleted once, by its own worker, in
\* whatever order the steps of Disconnect and on_finish get at it.
THEOREM HandlersAreDeletedOnce == Spec => []DeletedOnce
<1>1. ServiceInv /\ HandlerInv => DeletedOnce
  BY DEF ServiceInv, SvcTypeOK, QueueTypes, LoopTypes, HandlerInv, PlaceInv, ReleaseInv, DeletedOnce
<1> QED
  BY <1>1, HandlerInvAlways, ServiceInvAlways, PTL

\* What SendMessage and Disconnect look up has not been deleted, unless its handshake
\* failed after its registration; handshakes may fail so at any time.
THEOREM LookupMeetsOnlyLateDeleted == Spec => []LookupMeetsLiveHandler
<1>1. MgrInv /\ HandlerInv => LookupMeetsLiveHandler
  BY DEF MgrInv, MgrTypeOK, WorkersFiledRight, HandlerInv, TableInv, Registered,
         LookupMeetsLiveHandler
<1>2. Spec => []MgrInv
  BY ServiceUsesTable, TableConsistent, PTL
<1> QED
  BY <1>1, <1>2, HandlerInvAlways, PTL
=============================================================================
