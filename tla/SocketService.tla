--------------------------- MODULE SocketService ---------------------------
(***************************************************************************)
(* The life of connections in NBSocketService: user threads that send to   *)
(* and disconnect logic peers, thread-pool tasks that shake hands with     *)
(* accepted sockets, and event workers that run PosixEventManager's        *)
(* worker_loop.  They share the connection table, the handlers' reference  *)
(* counts and, per worker, three locked lists (add to epoll, read/write    *)
(* operation, delete) and a wake-up pipe.                                  *)
(*                                                                         *)
(* Messages, buffers and the handshake's own protocol are other modules';  *)
(* here a connection is open or broken, and using a handler after its      *)
(* delete, or the missing own worker of one, ends the behaviour in `fault`.*)
(* Every handler value stands for one object: addresses are not reused.    *)
(***************************************************************************)
EXTENDS UniqueWorkerManager, Integers

CONSTANTS User,          \* threads that call SendMessage and Disconnect
          Pool,          \* threads of the server handler's pool
          Worker,        \* connection event workers
          Dialled,       \* the handlers connect() makes; the others are accepted
          LocalHandler, NoWorker, None

ASSUME Threads == User \cap Pool = {} /\ User \cap Worker = {} /\ Dialled \subseteq Handler
ASSUME OwnNames == /\ LocalHandler \notin Handler \cup {NoHandler}
                   /\ NoWorker \notin Worker
\* connect() gives the socket the address of the logic peer itself.
ASSUME DialledPeers == \A h \in Dialled : RealPeer[h] = LogicPeer[h]

VARIABLES
    pc, at, dest,               \* per thread: where it is, its handler, its peer
    life, ref, own, broken,     \* per handler; broken: the remote end has closed
    addQ, rwQ, delQ, pipe,      \* per worker: the shared lists, bytes in the pipe
    fin, rel,                   \* per user and worker: whom it gives up, the place in Release
    phase, batch, dels,         \* per worker: locals of worker_loop
    epoll, readable, writable,  \* kernel: registrations and pending edges
    fault,
    late,                       \* history: handlers whose handshake failed after Put
    stray                       \* history: handlers freed while still to be registered

threadVars == <<pc, at, dest>>
handlerVars == <<life, ref, own>>
queueVars == <<addQ, rwQ, delQ, pipe>>
giveVars == <<fin, rel>>
loopVars == <<phase, batch, dels>>
kernelVars == <<broken, epoll, readable, writable>>
history == <<late, stray>>
vars == <<mgrVars, threadVars, handlerVars, queueVars, giveVars, loopVars, kernelVars, fault,
          history>>

Thread == User \cup Pool
Giver == User \cup Worker    \* Disconnect runs on a user's thread, on_finish on a worker
Event == [eh : Handler \cup {LocalHandler}, read : BOOLEAN]

Init == /\ MgrInit
        /\ pc = [t \in Thread |-> "idle"]
        /\ at = [t \in Thread |-> NoHandler]
        /\ dest = [t \in Thread |-> NoPeer]
        /\ life = [h \in Handler |-> "unborn"]
        /\ ref = [h \in Handler |-> 1]
        /\ own = [h \in Handler |-> NoWorker]
        /\ addQ = [w \in Worker |-> {}]
        /\ rwQ = [w \in Worker |-> {}]
        /\ delQ = [w \in Worker |-> {}]
        /\ pipe = [w \in Worker |-> FALSE]
        /\ phase = [w \in Worker |-> "wait"]
        /\ batch = [w \in Worker |-> {}]
        /\ dels = [w \in Worker |-> {}]
        /\ fin = [x \in Giver |-> NoHandler]
        /\ rel = [x \in Giver |-> "no"]
        /\ epoll = [w \in Worker |-> {}]
        /\ broken = {} /\ readable = {} /\ writable = {}
        /\ fault = None
        /\ late = {} /\ stray = {}

-----------------------------------------------------------------------------
Goto(t, l) == pc' = [pc EXCEPT ![t] = l]
Return(t) == /\ pc' = [pc EXCEPT ![t] = "idle"]
             /\ at' = [at EXCEPT ![t] = NoHandler]
             /\ dest' = [dest EXCEPT ![t] = NoPeer]

\* The external lists are filled under their lock and Wakeup follows at once.
Enqueue(q, w, h) == [q EXCEPT ![w] = @ \cup {h}]
Wakeup(w) == pipe' = [pipe EXCEPT ![w] = TRUE]

-----------------------------------------------------------------------------
(* Giving up a handler: ClearMessage, then AFileEventHandler::Release, in  *)
(* which the handler may be deleted at any step by its worker.             *)
StartRelease(x, h) == /\ fin' = [fin EXCEPT ![x] = h]
                      /\ rel' = [rel EXCEPT ![x] = IF h = NoHandler THEN "no" ELSE "drop"]

Releasing(x, step) == /\ fin[x] # NoHandler /\ rel[x] = step
                      /\ life[fin[x]] = "live"

EndRelease(x) == StartRelease(x, NoHandler)

GoOn(x, step) == rel' = [rel EXCEPT ![x] = step] /\ UNCHANGED fin

DropReference(x) ==
    /\ Releasing(x, "drop")
    /\ ref' = [ref EXCEPT ![fin[x]] = @ - 1]
    /\ GoOn(x, "count")
    /\ UNCHANGED <<mgrVars, threadVars, life, own, queueVars, loopVars, kernelVars, fault,
                   history>>

\* GetRef is a fetch_and(1): it returns the count and leaves its lowest bit.
ReadCount(x) ==
    /\ Releasing(x, "count")
    /\ ref' = [ref EXCEPT ![fin[x]] = @ % 2]
    /\ IF ref[fin[x]] = 0 THEN GoOn(x, "enlist") ELSE EndRelease(x)
    /\ UNCHANGED <<mgrVars, threadVars, life, own, queueVars, loopVars, kernelVars, fault,
                   history>>

AddDelEvent(x) ==
    /\ Releasing(x, "enlist")
    /\ \/ /\ own[fin[x]] # NoWorker
          /\ delQ' = Enqueue(delQ, own[fin[x]], fin[x])
          /\ GoOn(x, "wake")
       \/ own[fin[x]] = NoWorker /\ EndRelease(x) /\ UNCHANGED delQ
    /\ UNCHANGED <<mgrVars, threadVars, handlerVars, addQ, rwQ, pipe, loopVars, kernelVars,
                   fault, history>>

\* The handler is asked for its worker once more, after it was put on the delete list.
WakeOwner(x) ==
    /\ Releasing(x, "wake")
    /\ Wakeup(own[fin[x]])
    /\ EndRelease(x)
    /\ UNCHANGED <<mgrVars, threadVars, handlerVars, addQ, rwQ, delQ, loopVars, kernelVars,
                   fault, history>>

\* Giving up a handler that has been deleted.
ReleaseFault(x) ==
    /\ fin[x] # NoHandler /\ life[fin[x]] = "freed"
    /\ fault' = rel[x]
    /\ UNCHANGED <<mgrVars, threadVars, handlerVars, queueVars, giveVars, loopVars, kernelVars,
                   history>>

-----------------------------------------------------------------------------
(* User threads: SendMessage and the connect() it may need.                *)
SendMessage(t, p) ==
    /\ pc[t] = "idle"
    /\ dest' = [dest EXCEPT ![t] = p]
    /\ at' = [at EXCEPT ![t] = workers[p]]
    /\ Goto(t, IF workers[p] # NoHandler THEN "send" ELSE "connect")
    /\ UNCHANGED <<mgrVars, handlerVars, queueVars, giveVars, loopVars, kernelVars, fault,
                   history>>

\* connect() finds that another thread has connected meanwhile.
AlreadyConnected(t) ==
    /\ pc[t] = "connect" /\ workers[dest[t]] # NoHandler
    /\ Goto(t, "lookup")
    /\ UNCHANGED <<mgrVars, at, dest, handlerVars, queueVars, giveVars, loopVars, kernelVars,
                   fault, history>>

NewHandler(t, h) ==
    /\ life[h] = "unborn"
    /\ life' = [life EXCEPT ![h] = "live"]
    /\ at' = [at EXCEPT ![t] = h]
    /\ Goto(t, "handshake")
    /\ UNCHANGED <<mgrVars, dest, ref, own, queueVars, giveVars, loopVars, kernelVars, fault,
                   history>>

Dial(t) == /\ pc[t] = "connect" /\ workers[dest[t]] = NoHandler
           /\ \E h \in Dialled : LogicPeer[h] = dest[t] /\ NewHandler(t, h)

DialRefused(t) ==
    /\ pc[t] = "connect" /\ workers[dest[t]] = NoHandler
    /\ Return(t)
    /\ UNCHANGED <<mgrVars, handlerVars, queueVars, giveVars, loopVars, kernelVars, fault,
                   history>>

\* The lookup after connect() returned true.
Lookup(t) ==
    /\ pc[t] = "lookup"
    /\ IF workers[dest[t]] = NoHandler
       THEN Return(t)
       ELSE at' = [at EXCEPT ![t] = workers[dest[t]]] /\ Goto(t, "send") /\ UNCHANGED dest
    /\ UNCHANGED <<mgrVars, handlerVars, queueVars, giveVars, loopVars, kernelVars, fault,
                   history>>

\* ANetStackMessageWorker::SendMessage: the first message of an empty queue asks the
\* handler's worker for a write.  What the queue holds is module SendQueue's subject.
Push(t) ==
    /\ pc[t] = "send" /\ life[at[t]] = "live"
    /\ Return(t)
    /\ \/ UNCHANGED <<queueVars, fault>>
       \/ /\ own[at[t]] # NoWorker
          /\ rwQ' = Enqueue(rwQ, own[at[t]], at[t]) /\ Wakeup(own[at[t]])
          /\ UNCHANGED <<addQ, delQ, fault>>
       \/ own[at[t]] = NoWorker /\ fault' = "no own worker" /\ UNCHANGED queueVars
    /\ UNCHANGED <<mgrVars, handlerVars, giveVars, loopVars, kernelVars, history>>

\* Disconnect of a peer that has a connection: unregister, then give up.
Disconnect(t, p) ==
    /\ pc[t] = "idle" /\ workers[p] # NoHandler
    /\ RemoveByLogic(p)
    /\ StartRelease(t, workers[p])
    /\ UNCHANGED <<threadVars, handlerVars, queueVars, loopVars, kernelVars, fault, history>>

-----------------------------------------------------------------------------
(* Pool threads shake hands with accepted sockets; from there on dialled   *)
(* and accepted handlers take the same steps.                              *)
Accept(t) == /\ pc[t] = "idle"
             /\ \E h \in Handler \ Dialled : NewHandler(t, h)

\* Initialize fails, or on_logic_connect is refused: the handler is deleted.
HandshakeFails(t) ==
    /\ pc[t] = "handshake"
    /\ life' = [life EXCEPT ![at[t]] = "freed"]
    /\ Return(t)
    /\ UNCHANGED <<mgrVars, ref, own, queueVars, giveVars, loopVars, kernelVars, fault,
                   history>>

HandshakePut(t) ==
    /\ pc[t] = "handshake" /\ CanPut(at[t])
    /\ Put(at[t])
    /\ Goto(t, "pick")
    /\ UNCHANGED <<at, dest, handlerVars, queueVars, giveVars, loopVars, kernelVars, fault,
                   history>>

\* A failure after on_logic_connect (the last Send, SetNonBlocking) deletes the handler
\* and leaves it registered.
FailsAfterPut(t) ==
    /\ pc[t] = "pick"
    /\ life' = [life EXCEPT ![at[t]] = "freed"]
    /\ late' = late \cup {at[t]}
    /\ Return(t)
    /\ UNCHANGED <<mgrVars, ref, own, queueVars, giveVars, loopVars, kernelVars, fault, stray>>

\* PosixEventManager::AddEvent.  The round robin index is moved on and wrapped under a
\* lock...
MoveIndex(t) ==
    /\ pc[t] = "pick" /\ \A u \in Thread : pc[u] # "wrap"
    /\ Goto(t, "wrap")
    /\ UNCHANGED <<mgrVars, at, dest, handlerVars, queueVars, giveVars, loopVars, kernelVars,
                   fault, history>>

WrapIndex(t) ==
    /\ pc[t] = "wrap"
    /\ Goto(t, "own")
    /\ UNCHANGED <<mgrVars, at, dest, handlerVars, queueVars, giveVars, loopVars, kernelVars,
                   fault, history>>

\* ... and read after it: any worker may be the one,
SetOwnWorker(t) ==
    /\ pc[t] = "own" /\ life[at[t]] = "live"
    /\ \E w \in Worker : own' = [own EXCEPT ![at[t]] = w]
    /\ Goto(t, "add")
    /\ UNCHANGED <<mgrVars, at, dest, life, ref, queueVars, giveVars, loopVars, kernelVars,
                   fault, history>>

\* and none, if another thread has moved the index past the end and not wrapped it yet.
NoSuchWorker(t) ==
    /\ pc[t] = "own" /\ \E u \in Thread : pc[u] = "wrap"
    /\ fault' = "no such worker"
    /\ UNCHANGED <<mgrVars, threadVars, handlerVars, queueVars, giveVars, loopVars, kernelVars,
                   history>>

\* Mutant of AddEvent: the worker is not woken.
AddEventUnwoken(t) ==
    /\ pc[t] = "add"
    /\ addQ' = Enqueue(addQ, own[at[t]], at[t])
    /\ IF t \in User THEN Goto(t, "lookup") /\ UNCHANGED <<at, dest>> ELSE Return(t)
    /\ UNCHANGED <<mgrVars, handlerVars, rwQ, delQ, pipe, giveVars, loopVars, kernelVars, fault,
                   history>>

\* The list takes the pointer as it is, whatever has become of the handler.
AddEvent(t) ==
    /\ pc[t] = "add"
    /\ addQ' = Enqueue(addQ, own[at[t]], at[t]) /\ Wakeup(own[at[t]])
    /\ IF t \in User THEN Goto(t, "lookup") /\ UNCHANGED <<at, dest>> ELSE Return(t)
    /\ UNCHANGED <<mgrVars, handlerVars, rwQ, delQ, giveVars, loopVars, kernelVars, fault,
                   history>>

\* A thread about to dereference a handler that has been deleted.
ThreadFault(t) ==
    /\ pc[t] \in {"send", "own"} /\ life[at[t]] = "freed"
    /\ fault' = pc[t]
    /\ UNCHANGED <<mgrVars, threadVars, handlerVars, queueVars, giveVars, loopVars, kernelVars,
                   history>>

-----------------------------------------------------------------------------
(* worker_loop.                                                            *)
Step(w, from, to) == phase[w] = from /\ phase' = [phase EXCEPT ![w] = to]

\* EventWait: edge triggered, so fetching the events clears them.
EventWait(w) ==
    LET ready == epoll[w] \cap (readable \cup writable) IN
    /\ Step(w, "wait", "dels")
    /\ ready # {} \/ pipe[w]
    /\ batch' = [batch EXCEPT ![w] =
           [eh : ready \ readable, read : {FALSE}] \cup [eh : ready \cap readable, read : {TRUE}]
             \cup (IF pipe[w] THEN [eh : {LocalHandler}, read : {TRUE}] ELSE {})]
    /\ readable' = readable \ ready /\ writable' = writable \ ready
    /\ UNCHANGED <<mgrVars, threadVars, handlerVars, queueVars, dels, giveVars, broken, epoll,
                   fault, history>>

\* The handlers the loop dereferences next, of which one is enough for LoopFault.
Touches(w) == CASE phase[w] = "dels" -> delQ[w]
                [] phase[w] = "adds" -> addQ[w]
                [] OTHER -> {e.eh : e \in batch[w]} \cap (Handler \ dels[w])

AllLive(H) == \A h \in H : life[h] = "live"

\* Mutant of TakeDels: the handlers stay registered with epoll.
TakeDelsKeepsEpoll(w) ==
    /\ Step(w, "dels", "events")
    /\ dels' = [dels EXCEPT ![w] = delQ[w]]
    /\ delQ' = [delQ EXCEPT ![w] = {}]
    /\ UNCHANGED <<mgrVars, threadVars, handlerVars, addQ, rwQ, pipe, batch, giveVars,
                   kernelVars, fault, history>>

\* GetExternalEpDelEvents swaps the list out, DeleteHandler unregisters each.
TakeDels(w) ==
    /\ Step(w, "dels", "events") /\ AllLive(Touches(w))
    /\ dels' = [dels EXCEPT ![w] = delQ[w]]
    /\ delQ' = [delQ EXCEPT ![w] = {}]
    /\ epoll' = [epoll EXCEPT ![w] = @ \ delQ[w]]
    /\ UNCHANGED <<mgrVars, threadVars, handlerVars, addQ, rwQ, pipe, batch, giveVars, broken,
                   readable, writable, fault, history>>

\* What process_event can return.  A read meets the end of a broken connection; a
\* write may, if there is something to write.
Returns(e) == IF e.eh \notin broken THEN {TRUE} ELSE IF e.read THEN {FALSE} ELSE BOOLEAN

Processing(w) == phase[w] \in {"events", "ops"} /\ fin[w] = NoHandler

Done(w, e) == batch' = [batch EXCEPT ![w] = @ \ {e}]

\* The local handler reads the pipe empty, whenever its bytes were written.
DrainPipe(w) ==
    /\ Processing(w)
    /\ \E e \in batch[w] : e.eh = LocalHandler /\ Done(w, e)
    /\ pipe' = [pipe EXCEPT ![w] = FALSE]
    /\ UNCHANGED <<mgrVars, threadVars, handlerVars, addQ, rwQ, delQ, phase, dels, giveVars,
                   kernelVars, fault, history>>

SkipDeleted(w) ==
    /\ Processing(w)
    /\ \E e \in batch[w] : e.eh \in dels[w] /\ Done(w, e)
    /\ UNCHANGED <<mgrVars, threadVars, handlerVars, queueVars, phase, dels, giveVars,
                   kernelVars, fault, history>>

\* process_event and, when it fails, on_finish up to the release of the handler, if the
\* handler's addresses had a connection.
ProcessEvent(w) ==
    /\ Processing(w)
    /\ \E e \in batch[w] :
        /\ e.eh \in Handler \ dels[w] /\ life[e.eh] = "live"
        /\ Done(w, e)
        /\ \/ TRUE \in Returns(e) /\ UNCHANGED <<mgrVars, giveVars>>
           \/ /\ FALSE \in Returns(e)
              /\ RemoveByBoth(LogicPeer[e.eh], RealPeer[e.eh])
              /\ StartRelease(w, IF RemovedByBoth(LogicPeer[e.eh], RealPeer[e.eh]) = NoHandler
                                 THEN NoHandler ELSE e.eh)
    /\ UNCHANGED <<threadVars, handlerVars, queueVars, phase, dels, kernelVars, fault, history>>

\* GetExternalRWOpEvents swaps the list out once the epoll events are done.
TakeOps(w) ==
    /\ Step(w, "events", "ops") /\ Processing(w) /\ batch[w] = {}
    /\ batch' = [batch EXCEPT ![w] = [eh : rwQ[w], read : {FALSE}]]
    /\ rwQ' = [rwQ EXCEPT ![w] = {}]
    /\ UNCHANGED <<mgrVars, threadVars, handlerVars, addQ, delQ, pipe, dels, giveVars,
                   kernelVars, fault, history>>

\* AddEvent was given h and epoll was not.
ToBeAdded(h) == \/ \E t \in Thread : pc[t] = "add" /\ at[t] = h
                \/ \E w \in Worker : h \in addQ[w]

\* Mutant of FreeDels: the list is freed and not cleared.
FreeDelsKeepsList(w) ==
    /\ Step(w, "ops", "adds") /\ Processing(w) /\ batch[w] = {}
    /\ life' = [h \in Handler |-> IF h \in dels[w] THEN "freed" ELSE life[h]]
    /\ readable' = readable \ dels[w] /\ writable' = writable \ dels[w]
    /\ stray' = stray \cup {h \in dels[w] : ToBeAdded(h)}
    /\ UNCHANGED <<mgrVars, threadVars, ref, own, queueVars, giveVars, batch, dels, broken,
                   epoll, fault, late>>

FreeDels(w) ==
    /\ Step(w, "ops", "adds") /\ Processing(w) /\ batch[w] = {}
    /\ life' = [h \in Handler |-> IF h \in dels[w] THEN "freed" ELSE life[h]]
    /\ readable' = readable \ dels[w] /\ writable' = writable \ dels[w]
    /\ stray' = stray \cup {h \in dels[w] : ToBeAdded(h)}
    /\ dels' = [dels EXCEPT ![w] = {}]
    /\ UNCHANGED <<mgrVars, threadVars, ref, own, queueVars, giveVars, batch, broken, epoll,
                   fault, late>>

\* GetExternalEpAddEvents swaps the list out; registering reports what is ready.  A
\* handler may have been deleted since it was put there.  What the loop then reads as its
\* descriptor is closed, or another socket's, and epoll is given the stale pointer.
TakeAdds(w) ==
    LET gone == {h \in addQ[w] : life[h] = "freed"} IN
    /\ Step(w, "adds", "wait")
    /\ \E refused \in SUBSET gone :
        LET added == addQ[w] \ refused IN
        /\ epoll' = [epoll EXCEPT ![w] = @ \cup added]
        /\ writable' = writable \cup added
        /\ readable' = readable \cup (added \cap broken)
    /\ addQ' = [addQ EXCEPT ![w] = {}]
    /\ UNCHANGED <<mgrVars, threadVars, handlerVars, rwQ, delQ, pipe, giveVars, batch, dels,
                   broken, fault, history>>

\* The loop about to dereference a handler that has been deleted.
LoopFault(w) ==
    /\ phase[w] # "wait" /\ fin[w] = NoHandler /\ ~AllLive(Touches(w))
    /\ fault' = phase[w]
    /\ UNCHANGED <<mgrVars, threadVars, handlerVars, queueVars, giveVars, loopVars, kernelVars,
                   history>>

-----------------------------------------------------------------------------
(* The remote end, through the kernel.                                     *)
RemoteCloses(h) ==
    /\ life[h] = "live" /\ h \notin broken
    /\ broken' = broken \cup {h}
    /\ readable' = IF \E w \in Worker : h \in epoll[w] THEN readable \cup {h} ELSE readable
    /\ UNCHANGED <<mgrVars, threadVars, handlerVars, queueVars, giveVars, loopVars, epoll,
                   writable, fault, history>>

DataArrives(h) ==
    /\ \E w \in Worker : h \in epoll[w]
    /\ h \notin broken
    /\ readable' = readable \cup {h}
    /\ UNCHANGED <<mgrVars, threadVars, handlerVars, queueVars, giveVars, loopVars, broken,
                   epoll, writable, fault, history>>

-----------------------------------------------------------------------------
\* What a thread does by itself once it is inside a call.
Continue(t) ==
    \/ AlreadyConnected(t) \/ Dial(t) \/ DialRefused(t) \/ Lookup(t) \/ Push(t)
    \/ HandshakeFails(t) \/ HandshakePut(t) \/ FailsAfterPut(t) \/ MoveIndex(t) \/ WrapIndex(t)
    \/ SetOwnWorker(t) \/ NoSuchWorker(t) \/ AddEvent(t) \/ ThreadFault(t)

Call(t) == \/ /\ t \in User /\ fin[t] = NoHandler
              /\ \E p \in {LogicPeer[h] : h \in Handler} : SendMessage(t, p) \/ Disconnect(t, p)
           \/ t \in Pool /\ Accept(t)

GiveUp(x) == \/ DropReference(x) \/ ReadCount(x) \/ AddDelEvent(x) \/ WakeOwner(x)
             \/ ReleaseFault(x)

Loop(w) ==
    \/ EventWait(w) \/ TakeDels(w) \/ DrainPipe(w) \/ SkipDeleted(w) \/ ProcessEvent(w)
    \/ TakeOps(w) \/ FreeDels(w) \/ TakeAdds(w) \/ LoopFault(w)

Remote == \E h \in Handler : RemoteCloses(h) \/ DataArrives(h)

\* After undefined behaviour nothing more is said.
Crashed == fault # None /\ UNCHANGED vars

Next == \/ /\ fault = None
           /\ \/ \E t \in Thread : Call(t) \/ Continue(t)
              \/ \E x \in Giver : GiveUp(x)
              \/ \E w \in Worker : Loop(w)
              \/ Remote
        \/ Crashed

Spec == Init /\ [][Next]_vars

-----------------------------------------------------------------------------
ThreadTypes ==
    /\ pc \in [Thread -> {"idle", "connect", "lookup", "send",
                         "handshake", "pick", "wrap", "own", "add"}]
    /\ at \in [Thread -> Handler \cup {NoHandler}]
    /\ dest \in [Thread -> Peer \cup {NoPeer}]

HandlerTypes ==
    /\ life \in [Handler -> {"unborn", "live", "freed"}]
    /\ ref \in [Handler -> Int]
    /\ own \in [Handler -> Worker \cup {NoWorker}]

QueueTypes ==
    /\ addQ \in [Worker -> SUBSET Handler]
    /\ rwQ \in [Worker -> SUBSET Handler]
    /\ delQ \in [Worker -> SUBSET Handler]
    /\ pipe \in [Worker -> BOOLEAN]

LoopTypes ==
    /\ phase \in [Worker -> {"wait", "dels", "events", "ops", "adds"}]
    /\ batch \in [Worker -> SUBSET Event]
    /\ dels \in [Worker -> SUBSET Handler]

GiveTypes == /\ fin \in [Giver -> Handler \cup {NoHandler}]
             /\ rel \in [Giver -> {"no", "drop", "count", "enlist", "wake"}]
             /\ \A x \in Giver : rel[x] = "no" => fin[x] = NoHandler

KernelTypes ==
    /\ epoll \in [Worker -> SUBSET Handler]
    /\ broken \subseteq Handler /\ readable \subseteq Handler /\ writable \subseteq Handler

FaultTypes == /\ fault \in {None, "no own worker", "no such worker", "send", "own", "drop", "count",
                            "enlist", "wake", "dels", "events", "ops", "adds"}
              /\ late \subseteq Handler /\ stray \subseteq Handler

SvcTypeOK == /\ MgrTypeOK /\ ThreadTypes /\ HandlerTypes /\ QueueTypes /\ GiveTypes /\ LoopTypes
             /\ KernelTypes /\ FaultTypes

\* "No need to worry that Disconnect is called first and the handler is freed while
\* on_finish below still uses it" (nb-socket-service.cc:168): an event fetched from
\* epoll, and the on_finish it leads to, meet no deleted handler, unless that was
\* deleted before its worker registered it.  The comment knows no exception.
FinishMeetsLiveHandler ==
    \A w \in Worker :
        /\ phase[w] = "events" =>
               \A e \in batch[w] : e.eh \in Handler \ dels[w] =>
                   life[e.eh] = "live" \/ e.eh \in stray
        /\ fin[w] # NoHandler => life[fin[w]] = "live"

\* A handler is deleted once, by the worker that owns it, as long as no other handler
\* has its real peer: whoever releases it, Disconnect or on_finish, it is live when it
\* is on a delete list and on no other worker's list.  (Three dialled handlers of one
\* peer are enough to delete the first of them twice: on_finish takes the second for it.)
DeletedOnce ==
    \A w \in Worker : \A h \in delQ[w] \cup dels[w] :
        OwnsRealPeer(h) => life[h] = "live" /\ own[h] = w

\* A handler a user can look up has not been deleted, unless its handshake failed after
\* it was registered.
LookupMeetsLiveHandler ==
    \A p \in Peer : workers[p] # NoHandler =>
        life[workers[p]] = "live" \/ workers[p] \in late

\* Epoll holds handlers of its own worker, and a deleted one only if it was deleted
\* between its AddEvent and its registration: the delete list is taken before the add list
\* in a round, and nothing takes a handler off the second.
EpollForgetsDeleted ==
    \A w \in Worker : \A h \in epoll[w] : own[h] = w /\ (life[h] = "live" \/ h \in stray)

\* Requests to register a handler or to write are heard, whenever in its loop the
\* worker is woken: a worker about to sleep on a list that is not empty finds a byte in
\* the pipe.
RequestsAwaken ==
    \A w \in Worker : phase[w] = "wait" /\ addQ[w] \cup rwQ[w] # {} => pipe[w]
=============================================================================
