# A TLA+ model of net-utility's socket service

net-utility is a C++ library for message-oriented TCP services: a non-blocking
socket service on top of an edge-triggered epoll, and the utilities it is built
from (queues, a thread pool, a timer, a memory pool, locks, byte codecs).
This directory holds a model of it in TLA+, the TLC configurations that
model-check it, and TLAPS proofs about it. Paths below are relative to `src/`;
`NA` stands for `net/net-protocol-stacks/nonblocking/socket/network-api` and
`ED` for `net/net-protocol-stacks/nonblocking/socket/event-drivers`.

1. [The system](#1-the-system)
2. [The modules and the code](#2-the-modules-and-the-code)
3. [The runs](#3-the-runs)
4. [What the code does that it should not](#4-what-the-code-does-that-it-should-not)
5. [The proofs](#5-the-proofs)
6. [What is not modelled](#6-what-is-not-modelled)
7. [Plan](#7-plan)

## 1. The system

### Components

| Component | State | Operations | What makes it correct | Module |
|---|---|---|---|---|
| `NBSocketService` (`net/net-protocol-stacks/nonblocking/nb-socket-service.cc`) | the connection table, the event manager, `m_bStopped` | `Start`, `Stop`, `SendMessage`, `Disconnect`, `connect`, callbacks `on_stack_connect`, `on_logic_connect`, `on_finish` | a handler that can be looked up or that is being finished is not deleted; a handler is deleted once; a finished connection takes no other with it; `Stop` returns and leaves no thread with something it deleted | `SocketService`, `Lifecycle` |
| `UniqueWorkerManager` (`net/net-protocol-stacks/msg-worker-managers`) | three hash maps under a spin lock: logic peer → handler, real peer → logic peer, handler → real peer | `Put…`, two `Remove…`, `Get…` | the maps describe the same connections; one connection per logic peer | `UniqueWorkerManager` |
| `PosixEventManager` and `EventWorker` (`NA/posix/event-manager.cc`, `ED/event-worker.*`) | per worker: three locked lists (add to epoll, read/write operation, delete), a wake-up pipe, the loop's locals; the vector of workers | `AddEvent`, `Wakeup`, `worker_loop`, `process_event`, `Start`, `Stop` | every request is served; no event is processed on a deleted handler | `SocketService`, `Lifecycle` |
| `EpollEventDriver` (`ED/epoll`) | registrations with the kernel | `AddEvent`, `DeleteHandler`, `EventWait` | no registration outlives its handler | `SocketService`, `SendQueue`, `MsgStream` |
| `AFileEventHandler` and its two subclasses (`NA/abstract-file-event-handler.h`, `NA/posix/tcp/*-event-handler.cc`) | reference count, own worker, the socket | `Release`, `HandleReadEvent`, `HandleWriteEvent`, the server's accept loop | the count falls to zero once; no connection is left in the backlog | `SocketService`, `Lifecycle` |
| `ANetStackMessageWorker` / `PosixTcpNetStackWorker`, sending (`NA/net-stack-msg-worker.cc`, `NA/posix/tcp/net-stack-worker.cc`) | a queue of messages, the sending buffer | `SendMessage`, `Send` | messages leave whole, once, in order, and all of them | `SendQueue` |
| the same, receiving, with the message format (`net/*message.cc`, `common/buffer.h`, `common/codec-utils.cc`) | header and payload buffers and their cursors, `m_rcvState` | `Recv`, `Encode`, `DecodeMsgHeader` | the stream is cut where it was joined; nothing unread is forgotten | `MsgStream` over `WireFormat` and `Buffer` |
| the same, handshake | the handshake state, `m_initWaitCv` | `Initialize`, `handshake` | both ends agree; the earliest connection is kept; it ends | `Handshake` |
| message memory (`net/message.*`, `net/rcv-message.h`, `net/notify-message.h`) | id counter, a free list of buffers, blocks of the pool | `GetNewBuffer`, `PutBuffer`, `get_new_id`, `~RcvMessage` | each block and buffer has one owner; ids are unique | `Messages` |
| `BlockingQueue` (`common/blocking-queue.h`) | a bounded queue, one condition variable | `Push`, `Pop`, `Try…`, `Clear` | nothing lost or reordered; nobody sleeps over work | `BlockingQueue`, `QueueClients` |
| `ThreadPool` (`common/thread-pool.*`) | a queue, worker threads, a count of the active ones | `AddTask`, `WaitAll…`, destructor | each task runs once; `WaitAll` waits for all; the destructor returns | `ThreadPool` |
| `Timer` (`common/timer.*`) | events by time, events by id, one thread | `Start`, `Stop`, `Subscribe…`, `Unsubscribe…`, `process` | an event fires once, unless cancelled, and does not wait for the next one | `Timer` |
| `MemPool` (`common/mem-pool.*`) | free lists by size class, bulk pages by size | `Get`, `Put` | a block is given to one owner; the lists, the counts and the pages agree | `MemPool` |
| `SpinLock`, hashes, factories | — | — | — | — |

### How they interact

User threads call `SendMessage` and `Disconnect`. `SendMessage` looks the peer up
in the table; without a handler it dials, shakes hands on its own thread and
registers the connection; then it looks up again and pushes the message to the
handler's queue. Only the push that found the queue empty asks the handler's
event worker for a write, through a locked list and a byte in the worker's pipe.
On the other side, an event worker accepts sockets and gives each to a thread
pool, which shakes hands and registers. A registered handler is given to one of the
connection workers for good, through the worker's add list.

An event worker repeats: wait for epoll; take the delete list and unregister its
handlers; process the events fetched, skipping those handlers; take the
read/write list and process it likewise; delete the handlers; take the add list
and register its handlers. A processing step that fails calls `on_finish`,
which unregisters the connection and releases its handler; `Disconnect` does the
same from a user thread. The last release puts the handler on its worker's
delete list. `Stop` ends the listening worker, the pool and then each connection
worker, and at last deletes the table with the connections that are left in it.

Messages live in blocks of the memory pool; buffers that point into blocks come from a
free list that all threads share.

### What is hard

* **Concurrency.** Users, pool threads and workers share the table, the lists, the
  pool of memory and the handlers; handlers are used after a lookup without holding a
  reference.
* **Ordering.** Four things are taken in turn in each round of the loop, the pipe is
  drained in the middle of it, and edges are reported once.
* **Waiting.** Conditions are signalled outside the mutex of those who wait (pool,
  timer), or reach the wrong one of two kinds of waiters (queue).
* **Failure.** Handshakes fail before or after they registered; a remote end closes in
  the middle of anything; the service is stopped in the middle of anything.
* **Data in pieces.** Writes and reads stop anywhere, and resume on an edge.
* **Identity.** Two addresses name a connection, and for a dialled connection they
  are the same one, so successive connections of one peer cannot be told apart.

`PROJECT.json` lists the hazards line by line with the properties that watch each.

## 2. The modules and the code

Modules that other modules extend are in italics; `MC…` modules give the constants
their values, `…_proofs` modules hold proofs.

```
UniqueWorkerManager <- SocketService          MsgChannel <= SendQueue, MsgStream
Buffer <- WireFormat <- MsgStream             BlockingQueue <- QueueClients, ThreadPool
Lifecycle   Handshake   Messages   Timer   MemPool
      (<- is extended by, <= is implemented by)
```

### `UniqueWorkerManager`: the connection table

`workers`, `rpLp` and `handlerRp` are the three maps. Every public method holds the
spin lock from beginning to end, so `Put`, `RemoveByBoth` and `RemoveByLogic` are one
action each. `RemovedByBoth` is what the two-address removal returns. The
constants `LogicPeer` and `RealPeer` give each handler its addresses, and the one
assumption about them, `RealDeterminesLogic`, says that one remote socket address
belongs to one logic peer. The module can run alone (`MgrSpec`: arbitrary callers) and
is extended by the next one.

### `SocketService`: the life of connections

Composes the table with the service, the handlers and the event workers.

| Model | Code |
|---|---|
| `pc[t]`, `at[t]`, `dest[t]` | a user or pool thread's place in `SendMessage`, `connect`, `Disconnect` or the accept task, its handler and its peer |
| `SendMessage`, `AlreadyConnected`, `Dial`, `DialRefused`, `Lookup`, `Push` | `nb-socket-service.cc` `SendMessage` 60-86, `connect` 109-141; `net-stack-msg-worker.cc` 41-57 |
| `Disconnect` | `nb-socket-service.cc` 88-106 up to the release, which is steps of its own |
| `Accept`, `HandshakeFails`, `HandshakePut`, `FailsAfterPut` | `server-event-handler.cc` 59-107 and the callbacks |
| `MoveIndex`, `WrapIndex`, `SetOwnWorker`, `NoSuchWorker`, `AddEvent` | `event-manager.cc` `AddEvent` 87-101: the index is moved on and wrapped under a lock and read after it, so it may name no worker; the add list takes the pointer without a look at it |
| `fin[x]`, `rel[x]`: `DropReference`, `ReadCount`, `AddDelEvent`, `WakeOwner`, `ReleaseFault` | `abstract-file-event-handler.h` 43-51, the four steps of `Release` by `x`, a user or a worker. `GetRef` is a `fetch_and(1)`, so it *changes* the count: `ref` keeps the lowest bit. The handler may be deleted between any two of them, the last two included |
| `EventWait` … `TakeAdds` | one action per stage of `worker_loop`, `event-manager.cc` 103-139 |
| `ProcessEvent` | `process_event` 141-156 and `on_finish` up to the release |
| `fault` | set by the first use of a deleted handler, of a null own worker, or of an index past the workers; nothing is said of what follows |

The add and read/write lists are sets here. A handler is added once, and asking twice
in one round has the effect of asking once for the properties below. The delete list
is a `std::set` in the code. Two histories name what the properties except: `late` are the
handlers whose handshake failed after it registered (`SetNonBlocking`, or the last
message), which may happen to any, and `stray` those deleted while still on the way to
epoll. `TakeAdds` registers strays like any other handler: epoll takes the pointer, or
refuses it if the descriptor that is read from freed memory is none. A handler value
stands for one object: freed memory is not given to a new handler.

### `Lifecycle`: Start and Stop

What surrounds a running service. `owner` follows the thread that calls `Start` and
`Stop` line by line: the listening worker, the resize of the vector of workers, one
worker after another; then the wake-ups, joins and deletes in the order of
`PosixEventManager::Stop` 61-85, the pool joined by the listener's destructor, and the
table. `loop[w]` and `pc[t]` are the places of the other threads where they can meet
this: before and after each test of `m_bStopped`, in the accept loop, in a handshake.
`SocketService` has the rounds of a connection worker in more detail; here a round either
serves the lists or finishes one connection. The table is the set `table` of handlers in
it, whose `LogicPeer` differ: `SameSocket` is what `on_finish` finds by addresses, which
may be another, newer handler. A release is two steps, `DropReference` and `ReadCount`.
`AddEvent` is three, `MoveIndex`, `WrapIndex` and the unlocked read of the index. `late`
are the handlers whose handshake failed after registration, `orphans` those released
before they had a worker, `uncounted` those whose release did not find the count at zero,
`dropped` those unregistered by another one's `on_finish`. `ListenFails` is a `bind` that
throws out of `Start`. A user may dial as soon as `m_bStopped` is false, which is the
first thing `Start` does.

### `SendQueue`: from `SendMessage` to the socket

Senders read the queue's size and push under two separate holds of its lock
(`ReadSize`, `Push`), and ask if the size was zero (`Ask`). The worker's loop is as
above, with `Send`'s own loop one turn at a time: `PopAndEncode`, `Write` (what fits),
`NoRoom` (EAGAIN), `QueueEmpty`. `full` and `writable` are the kernel's half of the
edge-triggered contract: room after a refused write is an edge, and any edge of the
socket reports its room too. `stage` follows the connection's end, which a user's
`Disconnect` or the worker's `OnFinish` begins: `ClearMessage`, `Release`, and then
`TakeDels` and `Free` in the worker's loop. Senders that found the handler before that go on pushing,
and the worker writing, until the handler is deleted; what a sender does to a deleted handler is
undefined, so it stops there. `accepted`, `delivered` and `late` (written after the end began) are
history variables, and so is `cut`.

### `Buffer`, `WireFormat`, `MsgStream`: from a message to bytes and back

`Buffer` is `common/buffer.h`: a block of cells, the cursors `pos` and `last`, and what
moves them (`MoveHeadBack`, `MoveTailBack`, `UnusedSize`, `AvailableLength`). The code
checks none of the moves; `Inside` says that the cursors stay in the block. `WireFormat` is the
codec: integers most significant byte first (`WriteUInt`, `ReadUInt`), `Encode` of
`snd-message.cc` field by field, `DecodeMsgHeader` of `rcv-message.cc` with its tests of
the magic number and of the length. A cell is `<<byte, m, i>>`: the program sees the
byte, the properties see which message and place it was written for. `MsgStream` puts a
wire between the two: `Write` puts any piece that fits on it, `ReadHeader` and
`ReadPayload` follow `Recv`'s four states, `ReadWouldBlock` and `ReadAtEnd` its exits.
`lost` counts payload buffers that were overwritten while set: a payload whose first read
met EAGAIN costs one.

### `MsgChannel`: what both halves promise

Accepted messages come out once each and in order, until the channel breaks.
`SendQueue` and `MsgStream` both implement it; for the sender it breaks when the connection's
end begins.

### `Handshake`: the four messages

Each connection has two ends, each a state machine whose states carry the names of the
code's. `ServerPut` and `ClientPut` are `on_logic_connect` on either side, against
that node's table. `GivesUp` is an end of file in the handshake; `Hangs` is a short
read, after which `Recv` returns true and `Initialize` waits for `m_initWaitCv`, which
only the same thread could signal.

### `Messages`: who owns memory

Threads (event workers, handshakes) take a block for a payload (`GetPayload`), a `Buffer`
for it (`TakeBuffer`, from the free list or new; `RefreshBuffer`), and, when the payload is
whole, a block for the `RcvMessage` itself (`NewRcvMessage`). A sender takes a block and a
`Buffer` in the same way and gives the `Buffer` back when it is written
(`PutSendingBuffer`). Between two events a connection keeps its `Buffer`: `Pause` and
`GoOn`. A payload of which no byte has come yet (`blank`) is started again by the next
event, and `RefreshBuffer` then overwrites the pointer to the first `Buffer`
(`Overwritten`); `NestedRecvFails` is the handshake's `Recv` within `Recv`, after which the
outer one clears the pointer to what the inner one left. Either way the `Buffer` is `lost`.
`CloseConnection` is the destructor.

A message is handed to the user, who keeps it (`HandleMessage`: the release function is
never stored), or destroyed. `~RcvMessage` is three steps, `ReleaseMemory`,
`ReleaseBuffer`, `ClearPointer`: it gives the block it lives in back *before* it reads its
own `m_pBuffer`. In between `Get` may hand that block to another thread (`reused`), and
`Put`, at once or later, may free the page it lies in (`exposed`, `unmapped`), after which
the read may find anything. `Places` and `Uses` are where a `Buffer` and a block can be.
`get_new_id` skips `IdMax` and 0.

### `BlockingQueue`, `QueueClients`, `ThreadPool`

`BlockingQueue` has the mutex's critical sections as steps and the condition variable as
a wait set: `sleepers` are in `wait`, `signals` have unlocked and have yet to notify, and
`Notify` wakes any one sleeper, of either kind. `WakeUnasked` is a spurious wake-up.
`QueueClients` are producers and consumers of one queue. `ThreadPool` composes an
unbounded queue with `proc` (take, test for the stop, count, run, uncount, notify: one
step each), with `WaitAll` and the timed wait, whose two tests and whose wait are three
steps, since `proc` does not hold their mutex, and with the destructor.

### `Timer`

A subscription is a node `[when, how, n]`, `n` counting the subscriptions. The multimap is
the set of its nodes; it keeps them by time and equals in the order of insertion (`Before`),
so `begin()` is `First`, and an insertion is in front if it is earlier than all (`ComesFirst`).
The table of ids is a set of nodes too. `EventId::operator<` is true in both directions for ids with
crossed components, so once two such ids have been in the table (`crossed`, until it is
cleared) a search may miss what is there (`Crosses`, `Search`). `Process` is
the thread's loop: it fires under the spin lock (`Fire`), notes the first event
(`UnlockEvents`), and waits (`BeginWait`) — the spin lock is free between the two, and a
notification that comes then is lost (`raced`), as is the node it noted when somebody
cancels it. The destructor of a timer that was never started ends in `crashed`.

### `MemPool`

`slots` are the Tiny, Small and Big classes, each with its pages, free objects and count.
Bulk objects are indexed three times in the code, and here: `bulkPages`, `hash` and
`tree`. `Get` and `Put` work under the lock of a slot and are one step each, an action for each
of their ways: `GetFixed` and `PutFixed` for the three classes that work alike; of a bulk object
`GetBulkExact`, `GetBulkLarger`, `GetBulkNew`, `DropBulk` (too large to keep) and `PutBulk`.
Which page is taken is left open where the code walks an unordered map. `heap` is what the
system gave and for which slot; object `o` of a page is its bytes from `Begin` to `End`. `GetBulkLarger`
has what happens when a larger slot gives its last object: the entry is erased and its
iterator is then read again (`HashKeysErased`). `GetBulkNew` replaces the set of a slot's pages
by a new one. `forgotten` and `emptied` record that either has happened.

## 3. The runs

| Run | Instance | Shows |
|---|---|---|
| `service_races` | one dialled and one accepted handler of a peer, a user, a pool thread, a worker; handshakes that fail early and late | `FinishMeetsLiveHandler`: no fetched event and no `on_finish` meets a deleted handler, unless it was deleted before its registration. `LookupMeetsLiveHandler`: the table names live handlers only, and those that failed late. `DeletedOnce`: a handler with a real peer of its own is deleted once, by its own worker. `MapsAgree`: the table stays consistent under the service's calls |
| `service_reconnect` | two handlers dialled to one peer, a user, two workers, late failures | `EpollForgetsDeleted`: epoll holds handlers of its own worker, and a deleted one only if it was deleted between its `AddEvent` and its registration. `RequestsAwaken`: no add or write request meets a sleeping worker without a byte in its pipe |
| `lifecycle` | two dialled connections and an accepted one of the same logic peer, a user, a pool thread, the listener and two workers; a `bind` that throws, accepts and handshakes that fail | `LifecycleInv`: types; `Stop` deletes nothing that a thread of the service still uses (`OwnThreadsAreSafe`, `LoopsOutlived`). `StopLeavesOnly` names every way a connection is still there after `Stop`, six of them. `NoConnectionForgotten`: the accept loop leaves nothing behind its edge. `StopReturns` |
| `send_queue` | two senders, two messages of two units, a socket of one; a connection that is disconnected or breaks | `AskIsHeard`, `BlockedSendResumes`, `ImplementsChannel`; `EndKeepsOrder`: what is written while a connection ends is in order, and nothing follows a message that was cut; under fairness `AskedIsWritten` and `TrafficFlushes` |
| `send_stuck` | two senders, two messages | the violation of section 4 |
| `stream` | payloads of 1, 2 and 3 bytes, the longest allowed, a wire of 8 | `StreamInv`: types, cursors inside their blocks, and framing that survives every cut. At most one buffer is lost per message (`OneBufferLostPerMessage` in it). `ImplementsChannel`; no unread data without an edge (`NoDataForgotten`); delivery (`WrittenIsDelivered`) |
| `handshake` | three connections between two nodes, two one way and one the other, clients that die, short reads | a connected client has a connected server, at most one connection per pair, and every handshake ends unless a short read hangs it |
| `messages` | two threads, three blocks, three buffers, ids 1 and 2 | `MessagesInv`: each `Buffer` is in one place, and `lost` is one (`OneOwner`); a destructor goes wrong only after its block was given out or its page was released. `MemoryAccounted`: each block has one use. `IdsApart`: ids differ across the counter's restart |
| `blocking_queue` | two producers, two consumers, three items each; no bound, three and four places | `QueueInv`: types, and nothing is lost or reordered. `StrandsNobody`; `EverythingArrives` |
| `thread_pool` | two workers, two users, three tasks | `PoolInv`: the active count is exact, and each task is in one place. `WaitAllMissesOnlyUncounted`, `AddedTaskRuns`, `DestructorReturns` |
| `timer` | two callbacks, three subscriptions, two instants | `TimerInv`: types, `TablesAgree`, `OneFate`. `OversleepsOnlyAfterRace`, `SubscribedFires`, `DestructorReturns` |
| `mem_pool` | eight-bit sizes, pages of eight bytes, six sets of sizes | `MemPoolInv`: lists, counts and pages agree, the reserve has its bound, every page is known or forgotten by name. `ObjectsAreApart`: no byte has two owners, and an object lies in a page of its slot. `CrashesOnlyAfterLoss` |

Every property of a passing run is known to be breakable: `PROJECT.json` names, for
each, a mutated definition of the model (a bug one could well write in that code) under
which TLC reports the property violated.

Several properties have the form "goes wrong only after …". The defect they name is in the
code (section 4) and is kept in the model; the property says that it is the only way there.

### Bounds

There are no state constraints: the instances are finite because handlers, messages,
tasks and events are used once, or because a named constant bounds a guard.

* *The service.* Two handlers of one peer are what a race on a peer needs (dialled against
  accepted in `service_races`, old against new in `service_reconnect`), and a
  user with a pool thread and a worker, or with two workers, gives each step of one actor
  a place between any two steps of another. What needs more is proved instead (section 5), as that part of
  `DeletedOnce` which speaks of two workers, or named: *three*
  successive connections of one peer are needed for the double delete of section 4.
  Users, workers and dialled handlers of one peer are interchangeable, which `MCSymmetry`
  uses; runs with liveness use no symmetry.
* *`lifecycle`.* Two workers are the fewest for which one runs while the other's place in
  the vector is empty. Two dialled connections of one peer are an old one and the new one
  that its `on_finish` takes for it; the accepted one is in the backlog or in a task
  meanwhile. An index past the workers takes two threads in `AddEvent`: the user and the
  pool's.
* *`send_queue`.* The socket takes half a message, so a write is refused in the middle of one
  and at the start of the next; with two messages one is queued behind the one in flight, or is
  cleared and followed by a late one.
* *`stream`.* A header has three fields of two bytes (`FieldBytes`) of four values
  (`Base`), so lengths and ids carry into the second byte. Data arrives in pieces of any size, so
  a read ends inside headers, inside payloads and between them. `Cap` is less than the
  longest message, and as long as the end of one with the header of the next.
* *`messages`.* Three blocks are a message and its payload, and the payload that another
  thread is about to receive; a user who keeps a message leaves one block. Three buffers are one lost, one kept and one in use.
  `IdMax` is the value that ids skip.
* *`blocking_queue`.* Six items over three places fill and drain the queue.
  `SizesAssumption` asks for places enough (section 4 tells why, section 5 that these are).
* *`thread_pool`.* One task more than workers; two users, so that one adds while the other
  waits or both wait.
* *`timer`.* Two events at one instant, one refused because of a later one, and ids each
  less than the other need three subscriptions (`MaxEvents`) over two instants
  (`Horizon`).
* *`mem_pool`.* Pages of eight bytes and eight-bit sizes give each class slots with several
  objects to a page. The size sets are
  one class at a time and the bulk sizes for which a search goes exact, goes larger, or
  adds a slot. `MaxPages` and `MaxHeld` bound what the system gives and what users hold.
  Requests in the last page below `2 ^ Width` are left out by the assumption: they round
  up to 0 (section 4).

Deadlock is checked where the system never has to stop: the service, and the
queue's clients, whom nothing but a notification (or a spurious wake-up) lets go on. A deleted connection, a stream that broke, handshakes that ended,
a destroyed pool, timer or memory pool, a stopped service and exhausted blocks are real
ends, and those runs turn the check off.

### Fairness

* `SendQueue`: the worker, a sender inside `SendMessage` (nothing in there blocks), whoever
  has begun the connection's end, and the remote's reading. Nobody has to send again and no other traffic need arrive:
  `TrafficFlushes` names it as its hypothesis instead.
* `MsgStream`: both event workers. Nobody has to push or to close.
* `Handshake`: the thread of each connection's ends. Nobody has to dial.
* `QueueClients`: each client's own steps. Which sleeper a notification reaches is never
  fair, and spurious wake-ups are never owed.
* `ThreadPool`: workers, notifications already under way, the end of a timed wait, a user
  inside a wait or in the destructor. Nobody has to add a task or to wait.
* `Timer`: the timer's thread, the clock, and `Stop` once it is called.
* `Lifecycle`: the thread in `Start` or `Stop`, the listener, each worker, and threads past
  their handshake. A handshake waits for a remote end that owes nothing, so `StopReturns` has
  `HandshakesEnd` as its hypothesis.
* `SocketService`, `Messages`, `MemPool`: none; only safety is stated.

Each of these is a thread that nothing but the scheduler holds back, and weak fairness is
enough.

## 4. What the code does that it should not

All of these are in the model, which is why the properties above are stated as they are.
Four contradict a comment of the code:

* `NA/net-stack-msg-worker.cc:45`: whoever makes the queue non-empty wakes the worker, since
  nothing else may. A run of its own, `send_stuck`, has TLC refute it.
* `common/thread-pool.h:71`, of `WaitAll`: "wait until all tasks are finished". A task that is taken
  and not yet counted is overlooked; `WaitAllMissesOnlyUncounted` has that exception.
* `common/thread-pool.h:76` and `:81`, of the timed wait: "until all are finished or the time has
  come". It returns at once when the queue is empty *or* no worker is active, and after
  any wake-up.
* `net/net-protocol-stacks/nonblocking/nb-socket-service.cc:168-171`: `on_finish` need not fear that
  `Disconnect` has had the handler freed; once `Disconnect` has acted `on_finish` is not
  called. A handler deleted before it was registered (`stray`) is read by its worker
  nevertheless, and `on_finish` is called for a handler whose `Disconnect` is over but for
  the worker's next round. `FinishMeetsLiveHandler` is what is left of the comment.

The findings of `PROJECT.json` hold the first; the others were met as exceptions that a
property needs, and are stated there.

### Sending and receiving

* **A pushed message can be stranded** (`send_stuck`; the comment at
  `NA/net-stack-msg-worker.cc:45`). The size is read before the push. If the worker
  empties the queue in between, the sender does not ask, and nothing else does until
  another event of that connection. `TrafficFlushes` shows that the next event repairs it,
  `AskedIsWritten` that it is the only gap.
* **`Disconnect` leaves a gap and then more messages.** It clears the queue while senders that
  found the handler before still push, and the worker may write what they push; `EndKeepsOrder` bounds
  it. `Clear` drops pointers, so cleared messages are not deleted, as those that the
  destructor finds are. A request made after the worker has taken its operations
  names a handler that is deleted when the next round processes it.
* **A close can go unnoticed.** A short read ends `Recv` before the end of file
  that came with it.
* **A payload may cost a buffer and its block.** When its first read meets EAGAIN the
  next `Recv` allocates again and overwrites the pointer
  (`NA/posix/tcp/net-stack-worker.cc:181-182`): `lost` in `MsgStream`, which bounds it by one for each
  message, and in `Messages`, which has them stay in use for good. A `Recv` that fails within the
  handshake's `Recv` loses one as well (line 78).

### The life of a connection

* **A deletion can be stranded.** The delete list is taken (`NA/posix/event-manager.cc:107`)
  before the pipe is drained: a release in between has its byte eaten and its entry left
  until the worker next wakes. The other two lists are taken afterwards and do not have this
  gap: that is `RequestsAwaken`, proved.
* **A deleted handler can be added to epoll.** Handlers are deleted before the add list
  is taken (line 133), and deletion does not look there. Epoll then reports events with a
  stale pointer. `EpollForgetsDeleted` says that it holds no other deleted handler.
* **The old connection finishes the new one.** `on_finish` finds its connection by (logic
  peer, real peer), and for a dialled connection both are the dialled address. After
  `Disconnect` and a new connect, the end of the old one unregisters the new one (which
  nobody will release, and which is left after `Stop`: `dropped` in `StopLeavesOnly`) and releases the old one again. With a third connection the count
  comes back to one and to zero, and the old handler is deleted twice. `DeletedOnce` is therefore
  stated for handlers whose real peer no other handler has.
* **A handler is found before it has a worker** (`NA/net-stack-msg-worker.cc:47`), and
  **used after it is deleted**, since a lookup takes no reference. The model ends in `fault`.
* **`Release` uses the handler after giving it away.** Line 47 of
  `NA/abstract-file-event-handler.h` puts it on the delete list, line 48 reads its worker, who may
  have deleted it. Two releases at once may both miss the zero: then nobody deletes it.
* **A worker that is none.** `AddEvent` reads `m_iCurWorkerIdx` after the lock under which it is
  moved and wrapped; between those two steps of another thread it equals the number of workers.
* **A failed last message leaves a dangling handler** in the table, which the table's
  destructor deletes again.
* **Crossing dials may lose both connections**: each server has registered its end when the
  client's turn comes, and each client gives its connection up.
* **`Stop` does not wait for users.** A `SendMessage` or `Disconnect` past its test of
  `m_bStopped` uses the table or a worker after they are deleted; `Stop` after a `Start` that threw
  does so itself. Connections remain as `StopLeavesOnly` lists them.

### Message memory

* **`~RcvMessage` gives its own block back first** and then reads `m_pBuffer` from it
  (`net/rcv-message.h:28`); another thread may own the block by then, or the pool may have given
  its page back to the system in that very call (`common/mem-pool.cc:289-297`). The handshake
  does the like with the text of a refusal (`NA/posix/tcp/net-stack-worker.cc:271-272`, printed after
  `Put`), which is not modelled.
* **What a user is handed is never released**: `NotifyMessage` does not store the release
  function (`net/notify-message.h:80`).

### Queue, pool, timer

* **A bounded queue can strand everybody** when it has fewer places than threads less one: `Pop`
  notifies one sleeper, which may be another consumer while producers sleep. `Clear` makes
  room and notifies nobody (`common/blocking-queue.h:145`).
* **`WaitAll` can return early, or sleep on.** A task taken and not yet counted is seen by
  neither of its two tests (`common/thread-pool.cc:63`), and the notification is not under the waiter's
  mutex (line 76) and reaches one waiter. The timed wait joins the tests with *and*
  (line 47), so it returns at once when either is false.
* **The timer can oversleep.** Its thread unlocks the spin lock, then waits under another
  mutex (`common/timer.cc:119`): a notification in between is lost, and an event cancelled
  in between leaves it with an erased iterator. `raced` names both. Callbacks run under
  the spin lock (line 106): one that subscribes would wait for itself.
* **A timer that was never started cannot be destroyed**: `~Timer` joins a null thread
  (`common/timer.cc:18`).
* **`EventId::operator<` is no order**: of two ids with crossed components each is less than
  the other, so a lookup may miss an id that is there.

### Memory pool

* **A bulk slot forgets its pages** when it gets another: the set is replaced, not extended
  (`common/mem-pool.cc:197-201`). A later `Put` of an object of the old pages dereferences
  the end of a map.
* **An erased entry is read again** when a larger slot has given its last object (519-520,
  533-534).
* `CrashesOnlyAfterLoss` shows that there is no third way. Rounding a size up wraps to 0 in the
  last page below the top of its type (`common/mem-pool.h:198`), and `split_mem_page` then divides by it.

## 5. The proofs

All for arbitrary constants, under the modules' named assumptions only. Each proof has
the same shape: an invariant that is inductive, which TLC checked on the run's instance
before it was proved; one lemma for each action (or for each group of actions that disturb
the same part of it); and theorems that read the properties off. What follows says, for each, what
the property alone does not know.

**The table** (first part of `SocketService_proofs`, from `PeersOfHandlers` and
`RealDeterminesLogic`). `MapsAgree` is not inductive: `RemoveByLogic` erases the real
peer that `handlerRp` remembers, so it matters that this is the handler's own, and
`Put` must not overwrite another handler's entry. `MgrInv` adds the types and
`WorkersFiledRight`. One lemma per operation, then `TableConsistent`, `TableMapsAgree`
and `FinishIsPrecise` (`on_finish` of a handler with a real peer of its own drops no
other).

**The service** (the rest of `SocketService_proofs`, from those, `Threads`, `OwnNames` and
`DialledPeers`).
* `ServiceTypeCorrect`: types for any number of threads, workers and handlers. The
  strengthening `ThreadInv` says that a thread inside a call has the handler
  and the peer the rest of the call needs.
* `ServiceUsesTable`: every behaviour of the service is a behaviour of the
  table's own specification, a step-by-step refinement with the identity mapping. So
  `ServiceTableConsistent`: the table's theorems hold in the composed system.
* `RequestsAreHeardByWorkers`: `RequestsAwaken`. The strengthening `RequestInv` says, for
  each stage of the loop, which list is still to be taken, and that the pipe's event is
  behind by the stage "ops". It is the exact statement of why the delete list, taken
  first, is different.
* `FinishNeverMeetsDeletedHandler`, `EpollKeepsOnlyStrays`, `HandlersAreDeletedOnce`
  and `LookupMeetsOnlyLateDeleted`, the deletion properties, from one `HandlerInv`:
  `OwnerInv` (a handler that is being made is live, has no worker yet and belongs to one
  thread), `PlaceInv` (a worker's lists, registrations and events name its own handlers only;
  what comes by way of the add list is live or `stray`; epoll holds none of those on the delete
  list just taken; whom a worker gives up is live), `TableInv` (a handler in the table has
  been given up by nobody, and is live or failed late) and `ReleaseInv`
  (a handler with a real peer of its own is given up by one thread, and by then on no
  list but in the last of that thread's steps; it is live until the worker frees it). The
  four steps of `Release` share a frame lemma; what a user does to a handler that was deleted
  under it is a step of its own, to `fault`, and disturbs nothing.

**The bounded queue** (`BlockingQueue_proofs`, from `SizesAssumption` and `ClientsAssumption`:
finitely many clients, each a producer or a consumer): any clients, quota and sizes.
* `QueueKeepsOrder`: `QueueInv`. `Pushed`, what was received followed by what is queued, is
  changed by `Push` alone, which appends its producer's next item.
* `NobodyIsStranded`: `StrandsNobody`, from `SleepInv`. Producers and consumers share one
  condition variable, so a notification meant for a producer may wake a consumer. That
  does no harm while only one side sleeps (`OneSideSleeps`), which is a count: since the last
  consumer fell asleep each item queued has brought a notification, which has woken a
  consumer or is still owed by a producer (`HungryAreOwed`; `BlockedAreOwed` for the other
  side). When the queue is full these are as many as the producers at least, and the one
  about to sleep owes none: no consumer sleeps. `n + 1 >= Cardinality(Clients)` is used for
  these two counts and nowhere else.

**The thread pool** (the rest of `BlockingQueue_proofs`, from `TasksAssumption` and `ThreadsAssumption`: finitely many
workers, none of them a user).
* `PoolInvariant`: `PoolInv`. `ThreadInv` says what a thread at each place holds and that
  nobody waits in a pool that is being destroyed; the active count is the
  cardinality of the workers at "run", so each step that moves one is a lemma about
  finite sets. Taking from the queue needs `QueueIsSimple`: no task twice, empty tasks any
  number of times.
* `WaitAllIsPrecise`: the action property `WaitAllMissesOnlyUncounted`, from `WaitInv`: a waiter
  that has read an empty queue knows that the tasks added before are not queued.

**Start and Stop** (`Lifecycle_proofs`, from `LifecycleAssumption`).
* `StopIsOrderly`: `LifecycleInv`. `OwnerInv` gives the meaning of the owner's place: which
  workers are made, ended or deleted at each point of `Stop`'s two loops over `turn`, when
  the pool is empty for good, when the table is gone.
* `StopLeavesNothingElse`: `StopLeavesOnly`. `NewInv` says that a new handler belongs to
  one handshake and is known to nobody else (`Known`: the table, the lists, epoll, the
  threads past the handshake and those that give up a handler), `LiveInv` that every live handler is with
  one of those who could still delete it, or is one of the named leftovers. Both hold
  for any addresses, so that an `on_finish` may find another handler than its own. `CountedIsKept` is the heart:
  a count that is read puts the handler on a delete list, or makes it an orphan or uncounted.
* `ListenerForgetsNoConnection`: `NoConnectionForgotten` is inductive with the types and the
  owner's place.

**The sending half** (`SendQueue_proofs`, from `Sizes` and `NoMsgIsNone`).
* `TypeCorrect` and `NothingLost` from `Inv`: types, conservation while the connection is
  open, and that the sending
  buffer is empty exactly when it has no message.
* `RequestsAreHeard` and `BlockedResumes` from `AskInv` and `BlockedInv`, which extend the
  two properties from the worker's sleep to each place of its loop.
* `RefinesChannel`: initial states map to initial states and each step to `Accept`,
  `Deliver`, `Break` (the end begins) or a stutter of `MsgChannel`. It rests on `Conservation`: the message whose
  last unit is written is the next one the channel owes.
* `EndsInOrder`: `EndKeepsOrder`, once the connection's end has begun and conservation no longer
  holds. `OrderInv` says that what was delivered, what is in flight and what is queued are,
  in this order, messages that were accepted in this order. Four lemmas on sequences say
  that this survives a push at the end, a message moving from one part to the next, and
  the loss of what `Clear` drops.

**The receiving half and the wire** (`MsgStream_proofs`, from `Lengths` and `Capacity`): any
messages, any width and base of integers, any capacity, pieces of any size.
* `RoundTrip`: an integer that fits is read as it was written. `WriteUInt` and `ReadUInt` recur
  over the bytes; the induction is over the set of positions at which both agree
  (`NatSets`, `Along`, below).
* `EncodeIs` and `HeaderIs` compute what `Encode` leaves in a message's buffer, cell by
  cell, and that a buffer with those cells is decoded as that header.
* `StreamIsWhole` (`StreamInv`), `ReceiverForgetsNoData` (`NoDataForgotten`) and the refinement
  `MessagesComeOutInOrder` (`ImplementsChannel`) from one `IInv`. Its centre is `WireIs`: number
  the bytes of all the messages accepted from one on; then the wire holds the bytes from the
  receiver's place (`off[Done] + Read`) to the sender's (`off[Sent]` less what its
  buffer still has). `Offsets` gives where each message begins, `Carries` the cells in
  between. The other parts say that each buffer holds the cells of its message up to its
  cursor. So a whole header is the header of the next message, `DecodeMsgHeader` takes
  it, and a whole payload is that message's: `Break` is a step of `ReadAtEnd` only.
  `EndIs` has the reason why a payload's buffer is lost once at most: a second
  allocation follows an event, and an event follows data.

**Message memory** (`Memory_proofs`, from `Domains`): any number of threads, blocks and
`Buffer` objects.
* `EveryBufferHasOnePlace` (`MessagesInv`) and `EveryBlockHasOneUse` (`MemoryAccounted`). `MemoryInv`
  holds until a block is reused under a dying message and splits into four: no two users of
  one block or one Buffer (`BlocksApart`, `BuffersApart`), and each is somewhere
  (`BlocksFound`, `BuffersFound`). The properties count the places of each; these
  parts are what a step preserves. The two about Buffers end with a bad access as well: a
  destructor that reads its pointer in an unmapped page puts no Buffer back. Buffers of connections and lost ones
  are treated as one set of three disjoint parts (`Parked`, `PartsApart`), since a step only
  moves one from part to part. `PlaceInv`, what a thread has at its place, and `PageInv`, by
  which a bad access needs a page released early, hold even after the reuse.
* `IdsStayApart`: `IdsApart`. `IdInv` gives the ids handed out last in closed form, counted back from
  `s_lastId` around the restart.

**The memory pool** (the rest of `Memory_proofs`, from `MemPoolAssumption`, which orders the
thresholds, puts each on a boundary of slots, and keeps the sizes of pages from wrapping): any sizes,
thresholds, limits and requests.
* `UsersNeverShareMemory` (`ObjectsAreApart`), `PoolTablesAgree` (`MemPoolInv`) and
  `PoolCrashesOnlyAfterLoss` (`CrashesOnlyAfterLoss`) from one `PoolIInv`. The properties speak of
  fixed slots, bulk slots, and objects in use apart; the proof reads all free lists as one
  table, `Lists`. Its centre is `Apart`, about any lists, heap and objects: each list has
  objects of pages of its own slot only, each object in use is in its slot's page and in no list,
  and no two are the same place. It is kept by the six things that a call does to memory, one
  lemma each: an object taken (`ApartTake`), a page begun, an object put back, a page released,
  a page dropped with its one object, and a list that is lost (`ApartLose`: what
  `GetBulkLarger` does to another slot by the erased iterator loses memory and shares none). Bytes
  come in at the end only: places of one page are multiples of its slot's size
  (`WorkingApart`).
* `KeptInv` has the counts and the reserve's bound. Counts are cardinalities, so each of the
  changes has a second lemma (`KeptTake`, `KeptPut`, `KeptRelease`, `KeptTakeNew`). They say why
  releasing one page is enough: the list had no whole page before, so the only one is that of the
  object put back. The largest bulk slot kept is left out, because `Get` and `put` test
  its size with `<` and `>` and take different numbers for the objects of its page.
* `PagesInv` says which pages the tables name: those allocated for the slot, less the forgotten.
  `TreeInv` holds until a larger slot was emptied. The crash is a lookup that does not find its
  slot: `put` of an object whose page is not forgotten finds it by `PagesInv`, and a
  search in the tree by `TreeInv`.
* Lemmas on integers (`RoundupIsNext`, `ExpandIsLarger`, `PageCounts`) say that a size is rounded to
  a slot that exists and holds it, and that a page has room for its objects. Here
  the assumption is needed: past it, `Roundup` gives 0.

**The timer** (`Timer_proofs`, from `TimerAssumption`): any callbacks, instants and number of
subscriptions.
* `EventsHaveOneFate`: `TimerInv`. `OneFate` needs that no two nodes have one number, and that the
  number given next is new: `NumbersInv` says that those given are 1 to some k, so that
  their cardinality, by which `NewNode` counts, is k. `TablesAgree` needs `KeysInv`: until two ids have
  crossed, no id is in the table twice, so an insertion that finds its id would contradict
  `Refused`, and a search finds the one node that is meant.
* `ThreadOversleepsOnlyAfterRace`: `OversleepsOnlyAfterRace`. `RoundInv` extends the property to
  each place of the loop: in a round in which nothing was missed, no stop was asked for since the test;
  between unlocking and the wait the node noted is not after any other; asleep, no event is due before the
  deadline. A new event that is not first cannot break it, one that is first
  wakes the thread: that is the line `insert_pos == begin()`. `FirstNode` says that the order has a
  first node whenever there is one (by `WFMin`).

**The handshake** (`Handshake_proofs`, from the module's assumption on its
constants): any nodes, any number of connections between them, in both directions.
* `HandshakeTypeCorrect`: types of the ends' states, of what is in transit, and of the tables.
* `AtMostOneConnection`: `OneConnectionPerPeer`. The strengthening `TableInv` says that an
  end which has registered and has not finished is the one its node's table names for
  that peer; a table names one.
* `ConnectedClientHasServer`: `ClientHasServer`. It says nothing of a client that is not
  yet connected, so `PhaseInv` gives, for each state of the client, the states its server can
  be in and the messages that can be on their way.

**Induction.** The library's induction theorems take an operator, which the provers cannot
instantiate. `NatSets` of `MsgStream_proofs` states induction of *sets* instead: a set of
naturals with 0 and with the successor of each of its members is `Nat` (from `WFMin` of
`WellFoundedInduction`). `Along` and `Steps` derive from it that a recursively defined
function over `0 .. N` exists and satisfies its equation. That is why `WireFormat` writes its
integers as recursive functions, one step per byte like the code's loops.

**What the proofs found in the model.** `EachTaskInOnePlace` compared the size of a set of
sets with the sum of their sizes, and two equal sets count once: it allowed a task in two
places at once. It is stated as disjointness now. `StopLeavesOnly` had a union whose precedence was
not the one its layout showed. `Lifecycle`'s `fault` had a value of another type for "no
fault". TLC saw none of these.

The pool's `heap` did not say for which slot a page was allocated, and `ObjectsAreApart` compared
numbers of objects, which two slots that cut one page differently could satisfy and still overlap:
it is stated in bytes now. The assumption on the pool's thresholds was too weak for the
integers to be right.

**Only model-checked.** All liveness (`AskedIsWritten`, `TrafficFlushes`, `WrittenIsDelivered`,
`HandshakeEnds`, `EverythingArrives`, `AddedTaskRuns`, `SubscribedFires`, both
`DestructorReturns`, `StopReturns`): fairness and ENABLED are outside the prover's reach. Every
safety property of the passing runs is stated by a theorem. `PushedIsWritten` of `send_stuck` is
refuted.

## 6. What is not modelled

* `SpinLock` itself: what it guards is one action. The hash functions: pure, and no other
  component's correctness rests on their values. Factories, configuration, interfaces and
  `DumpDebugInfo`: declarations and output. The kqueue, select, DPDK, RDMA and UDP back
  ends: placeholders without code.
* The little-endian and signed variants of the codec, and the operations of `Buffer` that no
  module calls (`SetStart`, `SetEnd`, `SetLast`).
* Corrupt input: every byte a reader meets was written by this library's writer.
* A full wake-up pipe (`ED/event-worker.cc`: the write throws in the caller), running out of
  memory (but for `MemPool`) or descriptors, a pool of zero connection workers (the index is taken modulo
  their number, `NA/posix/event-manager.cc:94`).
* Reuse of a deleted handler's address.
* What follows an undefined step: the models stop at `fault` or `crashed`.

## 7. Plan

Every component with state of its own but the spin lock is modelled, at least in part (section 6 has the
rest), and every safety property that a passing run checks is proved. What a next step could add:

1. `SpinLock` under a weak memory model: the other models take its critical sections for
   atomic.
2. Malformed bytes in `MsgStream`: the reader's tests of length and magic number
   against input that no writer of this library made.
3. Liveness proofs, when the prover has ENABLED.
