--------------------------- MODULE BlockingQueue ---------------------------
(***************************************************************************)
(* netty::common::BlockingQueue (src/common/blocking-queue.h): a FIFO with *)
(* one mutex and one condition variable, which producers waiting for room  *)
(* and consumers waiting for an item share.  Everything a call does under  *)
(* the mutex is one step; the notify_one that follows the unlock is a step *)
(* of its own, and until it has run the caller is in `signals`.            *)
(*                                                                         *)
(* A thread asleep in m_cond.wait is in `sleepers`.  Once woken it repeats *)
(* the test of its loop: the modules that use the queue keep the thread's  *)
(* call in its program counter.                                            *)
(***************************************************************************)
EXTENDS Naturals, Sequences

VARIABLES
  m_iQueueMaxSize, \* 0 is unlimited
  m_queue,
  sleepers,        \* threads inside m_cond.wait
  signals          \* threads that unlocked and have yet to notify

queueVars == <<m_iQueueMaxSize, m_queue, sleepers, signals>>

QueueInit(size) ==
  /\ m_iQueueMaxSize = size
  /\ m_queue = <<>>
  /\ sleepers = {}
  /\ signals = {}

Full == m_iQueueMaxSize # 0 /\ Len(m_queue) >= m_iQueueMaxSize

CanCall(t) == t \notin sleepers \cup signals

Sleep(t) ==
  /\ sleepers' = sleepers \cup {t}
  /\ UNCHANGED <<m_iQueueMaxSize, m_queue, signals>>

(* Push(item): either overload waits for room in a loop. *)
PushWaits(t) == CanCall(t) /\ Full /\ Sleep(t)

\* Mutants of Push: no signal, or none for an item that is not the only one;
\* the item goes in front.
PushSilent(t, item) ==
  /\ CanCall(t)
  /\ ~Full
  /\ m_queue' = Append(m_queue, item)
  /\ UNCHANGED <<m_iQueueMaxSize, sleepers, signals>>

PushSignalsFirstOnly(t, item) ==
  /\ CanCall(t)
  /\ ~Full
  /\ m_queue' = Append(m_queue, item)
  /\ signals' = IF m_queue = <<>> THEN signals \cup {t} ELSE signals
  /\ UNCHANGED <<m_iQueueMaxSize, sleepers>>

PushOnTop(t, item) ==
  /\ CanCall(t)
  /\ ~Full
  /\ m_queue' = <<item>> \o m_queue
  /\ signals' = signals \cup {t}
  /\ UNCHANGED <<m_iQueueMaxSize, sleepers>>

(* Push and TryPush where there is room; TryPush on a full queue returns   *)
(* false and changes nothing.                                              *)
Push(t, item) ==
  /\ CanCall(t)
  /\ ~Full
  /\ m_queue' = Append(m_queue, item)
  /\ signals' = signals \cup {t}
  /\ UNCHANGED <<m_iQueueMaxSize, sleepers>>

(* Pop(), Pop(item): waits for an item in a loop. *)
PopWaits(t) == CanCall(t) /\ m_queue = <<>> /\ Sleep(t)

\* Mutants of Pop: the item stays; the taker of a bounded queue does not signal.
PopPeeks(t) ==
  CanCall(t) /\ m_queue # <<>> /\ UNCHANGED queueVars

PopSilent(t) ==
  /\ CanCall(t)
  /\ m_queue # <<>>
  /\ m_queue' = Tail(m_queue)
  /\ UNCHANGED <<m_iQueueMaxSize, sleepers, signals>>

(* Pop and TryPop where there is an item: only the taker of a bounded      *)
(* queue signals.  The item taken is Head(m_queue).                        *)
Pop(t) ==
  /\ CanCall(t)
  /\ m_queue # <<>>
  /\ m_queue' = Tail(m_queue)
  /\ signals' = IF m_iQueueMaxSize # 0 THEN signals \cup {t} ELSE signals
  /\ UNCHANGED <<m_iQueueMaxSize, sleepers>>

(* m_cond.notify_one(): any one sleeper, producer or consumer, wakes. *)
Notify(t) ==
  /\ t \in signals
  /\ signals' = signals \ {t}
  /\ \/ sleepers = {} /\ UNCHANGED sleepers
     \/ \E s \in sleepers : sleepers' = sleepers \ {s}
  /\ UNCHANGED <<m_iQueueMaxSize, m_queue>>

(* A condition variable may wake a thread that nobody notified. *)
WakeUnasked(t) ==
  /\ t \in sleepers
  /\ sleepers' = sleepers \ {t}
  /\ UNCHANGED <<m_iQueueMaxSize, m_queue, signals>>
=============================================================================
