------------------------------ MODULE Lifecycle ------------------------------
(***************************************************************************)
(* Start and Stop of NBSocketService around everything that runs between   *)
(* them: the listening worker and its accept loop, the pool that shakes    *)
(* hands with accepted sockets, the connection workers, and users that     *)
(* dial and disconnect.  Module SocketService has the rounds of a          *)
(* connection worker and the steps of a release in more detail, and the    *)
(* three maps of the connection table; its theorem ServiceTableConsistent  *)
(* is why a set of handlers is enough here: no two of them have one logic  *)
(* peer, and a real peer is on file exactly while its handler is.          *)
(*                                                                         *)
(* m_bStopped is tested before the shared object it stands for is used, so *)
(* that each such test is a step of its own.  The owner's program counter  *)
(* follows Start and Stop line by line.                                    *)
(***************************************************************************)
EXTENDS Integers, FiniteSets

CONSTANTS
  Users, Pool,        \* threads
  Workers,            \* m_iConnWorkersCnt connection workers, numbered from 0
  Handlers,           \* bound: the connections there will ever be
  Dialled,            \* those that connect() makes; the others are accepted
  LogicPeer,          \* of each handler: the address that users name
  RealPeer,           \* of each handler: the remote end of its socket
  Listener, NoThread, None

ASSUME LifecycleAssumption ==
  /\ IsFiniteSet(Workers) /\ Workers # {} /\ Workers = 0 .. Cardinality(Workers) - 1
  /\ Handlers \subseteq Nat /\ IsFiniteSet(Handlers) /\ Dialled \subseteq Handlers
  /\ \A g, h \in Handlers : RealPeer[g] = RealPeer[h] => LogicPeer[g] = LogicPeer[h]
  /\ \A h \in Dialled : RealPeer[h] = LogicPeer[h]
  /\ Users \cap Pool = {}
  /\ Listener \notin Workers

VARIABLES
  owner,       \* where the thread that calls Start and Stop is
  turn,        \* the worker its loop has come to
  m_bStopped,  \* of the service
  mgrStopped,  \* of the event manager
  slot,        \* m_vConnsWorkerEventLoopCtxs: "none" before the resize
  loop, pipe,  \* per worker: where its thread is, is there a byte
  fin,         \* the handler that a worker's on_finish is about
  addQ, delQ, epoll,
  pending,     \* connections in the backlog of the listening socket
  listening, edge,
  leftBehind,  \* history: an accept error ended the loop before the backlog was empty
  tasks, poolStopping,
  pc, at,      \* per thread: where it is and its handler
  m_iCurWorkerIdx,
  life, own, ref, table, tableAlive,
  late,        \* history: handlers whose handshake failed after on_logic_connect
  orphans,     \* history: handlers released before they had a worker
  uncounted,   \* history: handlers released, and their count was not zero
  dropped,     \* history: handlers unregistered by another one's on_finish
  fault

ownerVars == <<owner, turn, m_bStopped, mgrStopped, slot>>
loopVars == <<loop, pipe, fin, addQ, delQ, epoll>>
listenVars == <<pending, listening, edge, leftBehind>>
taskVars == <<tasks, poolStopping, m_iCurWorkerIdx>>
threadVars == <<taskVars, pc, at>>
history == <<late, orphans, uncounted, dropped>>
handlerVars == <<life, own, ref, table, tableAlive, history>>
vars == <<ownerVars, loopVars, listenVars, threadVars, handlerVars, fault>>

Threads == Users \cup Pool
Unborn == {h \in Handlers : life[h] = "unborn"}
ToBeAccepted == Unborn \ Dialled

\* Handlers of the same addresses are born in their order: they differ in nothing else.
Fresh(h) ==
  /\ h \in Unborn
  /\ \A g \in Unborn : (g \in Dialled <=> h \in Dialled) /\ RealPeer[g] = RealPeer[h]
                       => h <= g
Loops == Workers \cup {Listener}

Init ==
  /\ owner = "new" /\ turn = 0
  /\ m_bStopped = TRUE /\ mgrStopped = TRUE
  /\ slot = [w \in Workers |-> "none"]
  /\ loop = [w \in Loops |-> "none"] /\ pipe = [w \in Loops |-> FALSE]
  /\ fin = [w \in Loops |-> None]
  /\ addQ = [w \in Workers |-> {}] /\ delQ = [w \in Workers |-> {}]
  /\ epoll = [w \in Workers |-> {}]
  /\ pending = 0 /\ listening = FALSE /\ edge = FALSE /\ leftBehind = FALSE
  /\ tasks = {} /\ poolStopping = FALSE
  /\ pc = [t \in Threads |-> "idle"] /\ at = [t \in Threads |-> None]
  /\ m_iCurWorkerIdx = -1
  /\ life = [h \in Handlers |-> "unborn"]
  /\ own = [h \in Handlers |-> NoThread]
  /\ ref = [h \in Handlers |-> 1]
  /\ table = {} /\ tableAlive = TRUE
  /\ late = {} /\ orphans = {} /\ uncounted = {} /\ dropped = {}
  /\ fault = "none"

Fault(what) ==
  /\ fault' = what
  /\ UNCHANGED <<ownerVars, loopVars, listenVars, threadVars, handlerVars>>

-----------------------------------------------------------------------------
(* The owner: Start. *)

Owner(from, to) == owner = from /\ owner' = to

\* The flag falls before there is an event manager.
Start ==
  /\ Owner("new", "make")
  /\ m_bStopped' = FALSE
  /\ UNCHANGED <<turn, mgrStopped, slot, loopVars, listenVars, threadVars, handlerVars, fault>>

StartManager ==
  /\ Owner("make", "listen")
  /\ mgrStopped' = FALSE
  /\ UNCHANGED <<turn, m_bStopped, slot, loopVars, listenVars, threadVars, handlerVars, fault>>

\* A new EventWorker and its thread, which has nothing to do yet.
RunLoop(w) == loop' = [loop EXCEPT ![w] = "wait"]

\* The handler of the listening socket is on the add list when its worker is woken.
StartListener ==
  /\ Owner("listen", "resize")
  /\ RunLoop(Listener)
  /\ pipe' = [pipe EXCEPT ![Listener] = TRUE]
  /\ UNCHANGED <<turn, m_bStopped, mgrStopped, slot, fin, addQ, delQ, epoll, listenVars,
                 threadVars, handlerVars, fault>>

\* socket, bind or listen fails: the constructor throws out of Start.
ListenFails ==
  /\ Owner("listen", "failed")
  /\ UNCHANGED <<turn, m_bStopped, mgrStopped, slot, loopVars, listenVars, threadVars,
                 handlerVars, fault>>

Resize ==
  /\ Owner("resize", "workers")
  /\ slot' = [w \in Workers |-> "null"]
  /\ UNCHANGED <<turn, m_bStopped, mgrStopped, loopVars, listenVars, threadVars, handlerVars,
                 fault>>

StartWorker ==
  /\ owner = "workers"
  /\ slot' = [slot EXCEPT ![turn] = "made"]
  /\ RunLoop(turn)
  /\ IF turn + 1 \in Workers THEN turn' = turn + 1 /\ UNCHANGED owner
                             ELSE turn' = 0 /\ owner' = "running"
  /\ UNCHANGED <<m_bStopped, mgrStopped, pipe, fin, addQ, delQ, epoll, listenVars, threadVars,
                 handlerVars, fault>>

-----------------------------------------------------------------------------
(* The owner: Stop. *)

Stop ==
  /\ Owner("running", "manager")
  /\ m_bStopped' = TRUE
  /\ UNCHANGED <<turn, mgrStopped, slot, loopVars, listenVars, threadVars, handlerVars, fault>>

\* Stop, or the destructor, after a Start that threw: there is no listening worker.
StopAfterFailure == owner = "failed" /\ Fault("stop without start")

StopManager ==
  /\ Owner("manager", "wakeListener")
  /\ mgrStopped' = TRUE
  /\ UNCHANGED <<turn, m_bStopped, slot, loopVars, listenVars, threadVars, handlerVars, fault>>

Wake(w) == pipe' = [pipe EXCEPT ![w] = TRUE]

WakeListener ==
  /\ Owner("wakeListener", "joinListener")
  /\ Wake(Listener)
  /\ UNCHANGED <<turn, m_bStopped, mgrStopped, slot, loop, fin, addQ, delQ, epoll, listenVars,
                 threadVars, handlerVars, fault>>

\* The server's handler goes: its socket is closed, then ~ThreadPool begins.
JoinListener ==
  /\ loop[Listener] = "ended"
  /\ Owner("joinListener", "joinPool")
  /\ listening' = FALSE /\ edge' = FALSE /\ pending' = 0 /\ leftBehind' = FALSE
  /\ poolStopping' = TRUE
  /\ UNCHANGED <<turn, m_bStopped, mgrStopped, slot, loopVars, tasks, pc, at, m_iCurWorkerIdx,
                 handlerVars, fault>>

\* Mutant of JoinPool: the pool's threads are left running.
JoinPoolDetached ==
  /\ Owner("joinPool", "wakeWorker")
  /\ UNCHANGED <<turn, m_bStopped, mgrStopped, slot, loopVars, listenVars, threadVars,
                 handlerVars, fault>>

\* Tasks still queued are dropped; a handshake in progress is waited for.
JoinPool ==
  /\ \A t \in Pool : pc[t] = "idle"
  /\ Owner("joinPool", "wakeWorker")
  /\ UNCHANGED <<turn, m_bStopped, mgrStopped, slot, loopVars, listenVars, threadVars,
                 handlerVars, fault>>

\* Mutant of WakeWorker: the flag alone has to do.
WakeWorkerQuietly ==
  /\ Owner("wakeWorker", "joinWorker")
  /\ UNCHANGED <<turn, m_bStopped, mgrStopped, slot, loopVars, listenVars, threadVars,
                 handlerVars, fault>>

WakeWorker ==
  /\ Owner("wakeWorker", "joinWorker")
  /\ Wake(turn)
  /\ UNCHANGED <<turn, m_bStopped, mgrStopped, slot, loop, fin, addQ, delQ, epoll, listenVars,
                 threadVars, handlerVars, fault>>

\* ~EventWorker: its epoll, its pipe and its lists go; the handlers they name are left
\* alone.  (delQ stays on record for StopLeavesOnly.)
NextWorker ==
  /\ slot' = [slot EXCEPT ![turn] = "deleted"]
  /\ pipe' = [pipe EXCEPT ![turn] = FALSE]
  /\ addQ' = [addQ EXCEPT ![turn] = {}] /\ epoll' = [epoll EXCEPT ![turn] = {}]
  /\ IF turn + 1 \in Workers THEN turn' = turn + 1 /\ owner' = "wakeWorker"
                             ELSE turn' = 0 /\ owner' = "resetTable"
  /\ UNCHANGED <<m_bStopped, mgrStopped, loop, fin, delQ, listenVars, threadVars, handlerVars,
                 fault>>

JoinWorker == owner = "joinWorker" /\ loop[turn] = "ended" /\ NextWorker

\* Mutant of ResetTable: the map goes, the handlers it points to stay.
ResetTableForgets ==
  /\ owner = "resetTable"
  /\ owner' = "stopped" /\ table' = {} /\ tableAlive' = FALSE
  /\ UNCHANGED <<turn, m_bStopped, mgrStopped, slot, loopVars, listenVars, threadVars, life,
                 own, ref, history, fault>>

\* ~UniqueWorkerManager deletes every handler it has, once more if it was deleted.
ResetTable ==
  /\ owner = "resetTable"
  /\ IF \E h \in table : life[h] = "freed" THEN Fault("deleted twice")
     ELSE /\ owner' = "stopped"
          /\ life' = [h \in Handlers |-> IF h \in table THEN "freed" ELSE life[h]]
          /\ table' = {} /\ tableAlive' = FALSE
          /\ UNCHANGED <<turn, m_bStopped, mgrStopped, slot, loopVars, listenVars, threadVars,
                         own, ref, history, fault>>

-----------------------------------------------------------------------------
(* worker_loop.  A round that serves the lists and a round that finishes a *)
(* handler are two rounds here.                                            *)

\* The loop's test of m_bStopped is the end of the step before it.
AtTest(w) == loop' = [loop EXCEPT ![w] = IF mgrStopped THEN "ended" ELSE "wait"]

Awake(w) == loop[w] = "wait" /\ AtTest(w)

\* Handlers are deleted before others are added.  A handler deleted before it is added is
\* read nevertheless, and epoll may be given the stale pointer.
ServeLists(w) ==
  /\ w \in Workers
  /\ pipe[w] \/ epoll[w] # {}
  /\ IF \E h \in delQ[w] : life[h] = "freed"
     THEN loop[w] = "wait" /\ Fault("deleted handler")
     ELSE /\ Awake(w)
          /\ pipe' = [pipe EXCEPT ![w] = FALSE]
          /\ life' = [h \in Handlers |-> IF h \in delQ[w] THEN "freed" ELSE life[h]]
          /\ own' = [h \in Handlers |-> IF h \in delQ[w] THEN NoThread ELSE own[h]]
          /\ ref' = [h \in Handlers |-> IF h \in delQ[w] THEN 0 ELSE ref[h]]
          /\ \E refused \in SUBSET {h \in addQ[w] : life'[h] = "freed"} :
               epoll' = [epoll EXCEPT ![w] = (@ \ delQ[w]) \cup (addQ[w] \ refused)]
          /\ addQ' = [addQ EXCEPT ![w] = {}] /\ delQ' = [delQ EXCEPT ![w] = {}]
          /\ UNCHANGED <<ownerVars, fin, listenVars, threadVars, table, tableAlive, history,
                         fault>>

\* The remote has closed: process_event calls on_finish, which tests m_bStopped...
FinishTests(w) ==
  /\ w \in Workers /\ loop[w] = "wait"
  /\ \E h \in epoll[w] :
       IF life[h] = "freed" THEN Fault("deleted handler")
       ELSE /\ IF m_bStopped THEN AtTest(w) /\ UNCHANGED fin
               ELSE /\ loop' = [loop EXCEPT ![w] = "finish"]
                    /\ fin' = [fin EXCEPT ![w] = h]
            /\ UNCHANGED <<ownerVars, pipe, addQ, delQ, epoll, listenVars, threadVars,
                           handlerVars, fault>>

FinishEnds(w) == AtTest(w) /\ fin' = [fin EXCEPT ![w] = None]

\* The connection that on_finish(h) unregisters: whichever has the addresses of h.
SameSocket(h) == {g \in table : RealPeer[g] = RealPeer[h]}

\* ... and then goes to the table.  If it removes a connection it releases h.
FinishRemoves(w) ==
  LET found == SameSocket(fin[w])
  IN  /\ loop[w] = "finish"
      /\ IF ~tableAlive THEN Fault("table after reset")
         ELSE /\ IF found # {}
                 THEN loop' = [loop EXCEPT ![w] = "drop"] /\ UNCHANGED fin
                 ELSE FinishEnds(w)
              /\ table' = table \ found
              /\ dropped' = dropped \cup (found \ {fin[w]})
              /\ UNCHANGED <<ownerVars, pipe, addQ, delQ, epoll, listenVars, threadVars, life,
                             own, ref, tableAlive, late, orphans, uncounted, fault>>

\* AFileEventHandler::Release takes a reference away, and then looks at the count, which
\* leaves its lowest bit.
DropReference(h) == ref' = [ref EXCEPT ![h] = @ - 1]

\* The delete list takes the handler when its count is zero and it has a worker.
ReadCount(h) ==
  /\ ref' = [ref EXCEPT ![h] = @ % 2]
  /\ uncounted' = IF ref[h] # 0 THEN uncounted \cup {h} ELSE uncounted
  /\ orphans' = IF ref[h] = 0 /\ own[h] = NoThread THEN orphans \cup {h} ELSE orphans
  /\ IF ref[h] = 0 /\ own[h] # NoThread
     THEN delQ' = [delQ EXCEPT ![own[h]] = @ \cup {h}] /\ Wake(own[h])
     ELSE UNCHANGED <<delQ, pipe>>

FinishDrops(w) ==
  /\ loop[w] = "drop"
  /\ DropReference(fin[w])
  /\ loop' = [loop EXCEPT ![w] = "count"]
  /\ UNCHANGED <<ownerVars, pipe, fin, addQ, delQ, epoll, listenVars, threadVars, life, own,
                 table, tableAlive, history, fault>>

FinishCounts(w) ==
  /\ loop[w] = "count"
  /\ ReadCount(fin[w])
  /\ FinishEnds(w)
  /\ UNCHANGED <<ownerVars, addQ, epoll, listenVars, threadVars, life, own, table, tableAlive,
                 late, dropped, fault>>

-----------------------------------------------------------------------------
(* The listening worker.                                                   *)

\* The first byte brings the listening socket with it; what is in its backlog is an edge.
ServeListener ==
  /\ pipe[Listener] /\ Awake(Listener)
  /\ pipe' = [pipe EXCEPT ![Listener] = FALSE]
  /\ listening' = TRUE
  /\ edge' = IF listening THEN edge ELSE pending > 0
  /\ UNCHANGED <<ownerVars, fin, addQ, delQ, epoll, pending, leftBehind, threadVars,
                 handlerVars, fault>>

AcceptBegins ==
  /\ loop[Listener] = "wait" /\ edge
  /\ edge' = FALSE /\ leftBehind' = FALSE
  /\ loop' = [loop EXCEPT ![Listener] = "accept"]
  /\ UNCHANGED <<ownerVars, pipe, fin, addQ, delQ, epoll, pending, listening, threadVars,
                 handlerVars, fault>>

\* One round of the accept loop: a new handler and a task for the pool.
Accept(h) ==
  /\ loop[Listener] = "accept" /\ pending > 0 /\ Fresh(h) /\ h \notin Dialled
  /\ pending' = pending - 1
  /\ life' = [life EXCEPT ![h] = "live"]
  /\ tasks' = tasks \cup {h}
  /\ UNCHANGED <<ownerVars, loopVars, listening, edge, leftBehind, poolStopping, pc, at,
                 m_iCurWorkerIdx, own, ref, table, tableAlive, history, fault>>

\* Mutant of AcceptEnds: an interrupted accept ends the loop like EAGAIN.
AcceptInterrupted ==
  /\ loop[Listener] = "accept"
  /\ AtTest(Listener)
  /\ UNCHANGED <<ownerVars, pipe, fin, addQ, delQ, epoll, listenVars, threadVars, handlerVars,
                 fault>>

\* EAGAIN.
AcceptEnds ==
  /\ loop[Listener] = "accept" /\ pending = 0
  /\ AtTest(Listener)
  /\ UNCHANGED <<ownerVars, pipe, fin, addQ, delQ, epoll, listenVars, threadVars, handlerVars,
                 fault>>

\* Any other error ends the loop; on_finish finds no peer of the listening socket.
AcceptFails ==
  /\ loop[Listener] = "accept"
  /\ leftBehind' = (pending > 0)
  /\ AtTest(Listener)
  /\ UNCHANGED <<ownerVars, pipe, fin, addQ, delQ, epoll, pending, listening, edge, threadVars,
                 handlerVars, fault>>

\* The kernel queues a connection once the socket listens.
RemoteConnects ==
  /\ loop[Listener] # "none" /\ owner \notin {"joinPool", "wakeWorker", "joinWorker",
                                               "resetTable", "stopped"}
  /\ pending < Cardinality(ToBeAccepted)
  /\ pending' = pending + 1
  /\ edge' = listening /\ leftBehind' = (leftBehind /\ ~listening)
  /\ UNCHANGED <<ownerVars, loopVars, listening, threadVars, handlerVars, fault>>

-----------------------------------------------------------------------------
(* Pool threads and users.                                                 *)

Goto(t, label) == pc' = [pc EXCEPT ![t] = label]
Return(t) == Goto(t, "idle") /\ at' = [at EXCEPT ![t] = None]
Begin(t, h, label) == pc[t] = "idle" /\ Goto(t, label) /\ at' = [at EXCEPT ![t] = h]

\* What a thread meets that the service has taken away.
Meets(t, what) == Fault(IF t \in Users THEN "user" ELSE what)

TakeTask(t, h) ==
  /\ ~poolStopping /\ h \in tasks
  /\ Begin(t, h, "shake")
  /\ tasks' = tasks \ {h}
  /\ UNCHANGED <<ownerVars, loopVars, listenVars, poolStopping, m_iCurWorkerIdx, handlerVars,
                 fault>>

\* SendMessage to a peer without a connection, and its connect().
Dial(u, h) ==
  /\ ~m_bStopped
  /\ Fresh(h) /\ h \in Dialled /\ \A g \in table : LogicPeer[g] # LogicPeer[h]
  /\ Begin(u, h, "shake")
  /\ life' = [life EXCEPT ![h] = "live"]
  /\ UNCHANGED <<ownerVars, loopVars, listenVars, taskVars, own, ref, table, tableAlive,
                 history, fault>>

Delete(t) == life' = [life EXCEPT ![at[t]] = "freed"] /\ Return(t)

\* The handshake fails, or on_logic_connect answers that the service has stopped.
HandshakeFails(t) ==
  /\ pc[t] = "shake"
  /\ Delete(t)
  /\ UNCHANGED <<ownerVars, loopVars, listenVars, taskVars, own, ref, table, tableAlive,
                 history, fault>>

LogicConnectTests(t) ==
  /\ pc[t] = "shake" /\ ~m_bStopped
  /\ Goto(t, "put")
  /\ UNCHANGED <<ownerVars, loopVars, listenVars, taskVars, at, handlerVars, fault>>

\* A peer that has a connection meanwhile refuses another.
LogicConnectPuts(t) ==
  /\ pc[t] = "put"
  /\ IF ~tableAlive THEN Meets(t, "table after reset")
     ELSE /\ IF \E g \in table : LogicPeer[g] = LogicPeer[at[t]]
             THEN Delete(t) /\ UNCHANGED table
             ELSE Goto(t, "stack") /\ table' = table \cup {at[t]} /\ UNCHANGED <<at, life>>
          /\ UNCHANGED <<ownerVars, loopVars, listenVars, taskVars, own, ref, tableAlive,
                         history, fault>>

\* The last message or SetNonBlocking fails: deleted, and still registered.
FailsLate(t) ==
  /\ pc[t] = "stack"
  /\ Delete(t)
  /\ late' = late \cup {at[t]}
  /\ UNCHANGED <<ownerVars, loopVars, listenVars, taskVars, own, ref, table, tableAlive,
                 orphans, uncounted, dropped, fault>>

\* on_stack_connect tests m_bStopped; connect() goes to AddEvent at once.
StackConnect(t) ==
  /\ pc[t] = "stack"
  /\ IF t \in Pool /\ m_bStopped THEN Return(t) ELSE Goto(t, "add") /\ UNCHANGED at
  /\ UNCHANGED <<ownerVars, loopVars, listenVars, taskVars, handlerVars, fault>>

\* AddEvent takes the workers in turn.  The index is moved on and wrapped under a lock...
MoveIndex(t) ==
  /\ pc[t] = "add" /\ \A v \in Threads : pc[v] # "wrap"
  /\ m_iCurWorkerIdx' = m_iCurWorkerIdx + 1
  /\ Goto(t, "wrap")
  /\ UNCHANGED <<ownerVars, loopVars, listenVars, tasks, poolStopping, at, handlerVars, fault>>

WrapIndex(t) ==
  /\ pc[t] = "wrap"
  /\ m_iCurWorkerIdx' = m_iCurWorkerIdx % Cardinality(Workers)
  /\ Goto(t, "index")
  /\ UNCHANGED <<ownerVars, loopVars, listenVars, tasks, poolStopping, at, handlerVars, fault>>

\* ... and read after it, when another thread may have moved it past the end.
AddEvent(t) ==
  LET w == m_iCurWorkerIdx
  IN  /\ pc[t] = "index"
      /\ CASE w \notin Workers -> Meets(t, "no such worker")
           [] w \in Workers /\ slot[w] = "deleted" -> Meets(t, "deleted worker")
           [] w \in Workers /\ slot[w] \in {"none", "null"} -> Meets(t, "no worker yet")
           [] OTHER ->
                /\ Return(t)
                /\ own' = [own EXCEPT ![at[t]] = w]
                /\ addQ' = [addQ EXCEPT ![w] = @ \cup {at[t]}] /\ Wake(w)
                /\ UNCHANGED <<ownerVars, loop, fin, delQ, epoll, listenVars, taskVars, life,
                               ref, table, tableAlive, history, fault>>

Disconnect(u) ==
  /\ ~m_bStopped
  /\ Begin(u, None, "disconnect")
  /\ UNCHANGED <<ownerVars, loopVars, listenVars, taskVars, handlerVars, fault>>

\* The peer has a connection or has none.
DisconnectRemoves(u) ==
  /\ pc[u] = "disconnect"
  /\ IF ~tableAlive THEN Meets(u, "table after reset")
     ELSE /\ \/ Return(u) /\ UNCHANGED table
             \/ \E h \in table : /\ Goto(u, "drop") /\ at' = [at EXCEPT ![u] = h]
                                 /\ table' = table \ {h}
          /\ UNCHANGED <<ownerVars, loopVars, listenVars, taskVars, life, own, ref, tableAlive,
                         history, fault>>

DisconnectDrops(u) ==
  /\ pc[u] = "drop"
  /\ IF life[at[u]] = "freed" THEN Meets(u, "deleted handler")
     ELSE /\ DropReference(at[u])
          /\ Goto(u, "count")
          /\ UNCHANGED <<ownerVars, loopVars, listenVars, taskVars, at, life, own, table,
                         tableAlive, history, fault>>

DisconnectCounts(u) ==
  LET h == at[u]
  IN  /\ pc[u] = "count"
      /\ CASE life[h] = "freed" -> Meets(u, "deleted handler")
           [] ref[h] = 0 /\ own[h] # NoThread /\ slot[own[h]] = "deleted" ->
                Meets(u, "deleted worker")
           [] OTHER ->
                /\ ReadCount(h)
                /\ Return(u)
                /\ UNCHANGED <<ownerVars, loop, fin, addQ, epoll, listenVars, taskVars, life,
                               own, table, tableAlive, late, dropped, fault>>

-----------------------------------------------------------------------------
OwnerStep ==
  \/ StartManager \/ StartListener \/ ListenFails \/ Resize \/ StartWorker
  \/ StopManager \/ WakeListener \/ JoinListener \/ JoinPool
  \/ WakeWorker \/ JoinWorker \/ ResetTable

LoopStep(w) ==
  \/ ServeLists(w) \/ FinishTests(w) \/ FinishRemoves(w) \/ FinishDrops(w) \/ FinishCounts(w)

ListenStep ==
  \/ ServeListener \/ AcceptBegins \/ AcceptEnds \/ AcceptFails
  \/ \E h \in Handlers : Accept(h)

\* A thread that is past the handshake goes on.
ThreadStep(t) ==
  \/ LogicConnectPuts(t) \/ StackConnect(t) \/ FailsLate(t)
  \/ MoveIndex(t) \/ WrapIndex(t) \/ AddEvent(t)
  \/ DisconnectRemoves(t) \/ DisconnectDrops(t) \/ DisconnectCounts(t)

HandshakeStep(t) == HandshakeFails(t) \/ LogicConnectTests(t)

Calls ==
  \/ Start \/ Stop \/ StopAfterFailure
  \/ \E u \in Users : Disconnect(u) \/ \E h \in Handlers : Dial(u, h)
  \/ \E t \in Pool, h \in Handlers : TakeTask(t, h)

Next ==
  /\ fault = "none"
  /\ \/ Calls \/ OwnerStep \/ ListenStep \/ RemoteConnects
     \/ \E w \in Workers : LoopStep(w)
     \/ \E t \in Threads : ThreadStep(t) \/ HandshakeStep(t)

\* The system runs every thread that can run.  Handshakes owe nothing.
Fairness ==
  /\ WF_vars(fault = "none" /\ OwnerStep)
  /\ WF_vars(fault = "none" /\ ListenStep)
  /\ \A w \in Workers : WF_vars(fault = "none" /\ LoopStep(w))
  /\ \A t \in Threads : WF_vars(fault = "none" /\ ThreadStep(t))

Spec == Init /\ [][Next]_vars /\ Fairness

-----------------------------------------------------------------------------
(* Every variable has its type. *)
LifecycleTypeOK ==
  /\ owner \in {"new", "make", "listen", "resize", "workers", "running", "failed", "manager",
                "wakeListener", "joinListener", "joinPool", "wakeWorker", "joinWorker",
                "resetTable", "stopped"}
  /\ turn \in Workers
  /\ {m_bStopped, mgrStopped, listening, edge, leftBehind, poolStopping, tableAlive}
       \subseteq BOOLEAN
  /\ slot \in [Workers -> {"none", "null", "made", "deleted"}]
  /\ loop \in [Loops -> {"none", "wait", "finish", "drop", "count", "accept", "ended"}]
  /\ pipe \in [Loops -> BOOLEAN]
  /\ fin \in [Loops -> Handlers \cup {None}]
  /\ {addQ, delQ, epoll} \subseteq [Workers -> SUBSET Handlers]
  /\ pending \in 0 .. Cardinality(Handlers)
  /\ tasks \subseteq Handlers
  /\ pc \in [Threads -> {"idle", "shake", "put", "stack", "add", "wrap", "index",
                        "disconnect", "drop", "count"}]
  /\ m_iCurWorkerIdx \in Int
  /\ at \in [Threads -> Handlers \cup {None}]
  /\ life \in [Handlers -> {"unborn", "live", "freed"}]
  /\ own \in [Handlers -> Workers \cup {NoThread}]
  /\ ref \in [Handlers -> Int]
  /\ table \cup late \cup orphans \cup uncounted \cup dropped \subseteq Handlers

(* The order of Stop protects the service's own threads: no pool thread    *)
(* meets a deleted event worker, and no pool thread or worker the table    *)
(* after its reset.  Users have no such protection.  Nor has anyone who    *)
(* adds a connection while Start still makes the workers, or while another *)
(* thread moves the index, nor Stop after a Start that threw.  The table   *)
(* deletes a handler a second time only after a handshake that failed late.*)
OwnThreadsAreSafe ==
  /\ fault \notin {"table after reset", "deleted worker"}
  /\ fault = "deleted twice" => late # {}

(* An event worker is deleted only when its thread has ended, and on_finish*)
(* that passed the test of m_bStopped finds the table.                     *)
LoopsOutlived ==
  /\ \A w \in Workers : slot[w] = "deleted" => loop[w] = "ended"
  /\ \A w \in Workers : loop[w] = "finish" => tableAlive

(* Types hold and no thread of the service meets what Stop has deleted.    *)
LifecycleInv == LifecycleTypeOK /\ OwnThreadsAreSafe /\ LoopsOutlived

(* Stop deletes every connection but these: accepted and dropped with its  *)
(* task, in the hands of a user's call, released and still on a delete     *)
(* list, released before it had a worker, released by two so that neither  *)
(* saw its count at zero, or unregistered by the on_finish of an older     *)
(* connection from the same address, which released the older one.         *)
StopLeavesOnly ==
  owner = "stopped" =>
    {h \in Handlers : life[h] = "live"} \subseteq
      tasks \cup {at[u] : u \in Users} \cup (UNION {delQ[w] : w \in Workers})
        \cup orphans \cup uncounted \cup dropped

(* The listening socket reports each edge once, so the accept loop must    *)
(* empty the backlog: no connection waits behind a sleeping listener, but  *)
(* after an accept error.                                                  *)
NoConnectionForgotten ==
  loop[Listener] = "wait" /\ listening /\ pending > 0 => edge \/ leftBehind

(* Stop returns if every handshake of the pool ends: each thread it joins  *)
(* is woken after the flag it will read is set.                            *)
HandshakesEnd == \A t \in Pool : []<>(pc[t] # "shake")
Stopping == owner \in {"manager", "wakeListener", "joinListener", "joinPool", "wakeWorker",
                      "joinWorker", "resetTable"}
StopReturns == HandshakesEnd => []<>(~Stopping \/ fault # "none")
=============================================================================
