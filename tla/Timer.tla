------------------------------- MODULE Timer -------------------------------
(***************************************************************************)
(* netty::common::Timer (src/common/timer.cc): a multimap of subscribed    *)
(* events ordered by due time, a table from an event's id to its place in  *)
(* the multimap, and one thread that fires what is due and sleeps until    *)
(* the first event's time.  A spin lock guards both containers and each    *)
(* call's critical section is one step; the thread sleeps under another    *)
(* mutex, which no caller takes, so that a notification may come between   *)
(* the thread's unlocking and its wait.                                    *)
(*                                                                         *)
(* A subscription is a node [when, how, n]: `how` is the callback's        *)
(* address, n the place among all subscriptions ever made.  The multimap   *)
(* is the set of its nodes; it keeps them by time and, among equals, in    *)
(* the order of their insertion, which is the order of n.                  *)
(***************************************************************************)
EXTENDS Naturals, FiniteSets

CONSTANTS
  Callbacks,  \* addresses of callbacks
  Horizon,    \* bound: the last instant, and the last due time
  MaxEvents   \* bound: subscriptions

ASSUME TimerAssumption ==
  Callbacks \subseteq Nat /\ Horizon \in Nat \ {0} /\ MaxEvents \in Nat \ {0}

Forever == Horizon + 1
Nodes == [when : 1 .. Horizon, how : Callbacks, n : 1 .. MaxEvents]

VARIABLES
  now,
  m_stop,
  m_mapSubscribedEvents, \* the nodes of the multimap
  m_mapEventsEntry,      \* the nodes the table leads to, by (when, how)
  worker,                \* where the thread is, "none" before Start
  picked,                \* the node `min` of the worker, if there is one
  deadline,              \* when the worker's wait times out
  owner,                 \* where the thread that owns the timer is
  fired, cancelled,      \* numbers of the nodes whose callback ran, that were unsubscribed
  crossed,               \* since the table was last cleared two ids have been in it,
                         \* each less than the other
  raced                  \* what the worker missed in this round

eventVars == <<m_mapSubscribedEvents, m_mapEventsEntry, fired, cancelled, crossed>>
workerVars == <<worker, picked, deadline>>
vars == <<now, m_stop, eventVars, workerVars, owner, raced>>

Numbers(nodes) == {e.n : e \in nodes}
Issued == Numbers(m_mapSubscribedEvents) \cup fired \cup cancelled
NewNode(when, how) == [when |-> when, how |-> how, n |-> Cardinality(Issued) + 1]

(* begin(): the first node, if there is one. *)
Before(e, f) == e.when < f.when \/ (e.when = f.when /\ e.n < f.n)
First == {e \in m_mapSubscribedEvents : \A f \in m_mapSubscribedEvents \ {e} : Before(e, f)}

(* EventId::operator< is no order: two ids can each be less than the other.*)
Less(a, b) == a.when < b.when \/ a.how < b.how
Crosses(a) == \E b \in m_mapEventsEntry : Less(a, b) /\ Less(b, a)

(* The searches of std::map then may miss an id that is there, and may for *)
(* as long as the tree lives that two such ids have built.                 *)
Finds(id) == {e \in m_mapEventsEntry : e.when = id.when /\ e.how = id.how}
Search(id) == IF crossed \/ Crosses(id) THEN {{}, Finds(id)} ELSE {Finds(id)}

SpinFree == worker # "locked"

Init ==
  /\ now = 0
  /\ m_stop = TRUE
  /\ m_mapSubscribedEvents = {}
  /\ m_mapEventsEntry = {}
  /\ worker = "none" /\ picked = {} /\ deadline = Forever
  /\ owner = "idle"
  /\ fired = {} /\ cancelled = {}
  /\ crossed = FALSE
  /\ raced = {}

-----------------------------------------------------------------------------
(* Calls of any thread, while the timer is not being destroyed. *)

(* notify_one wakes the worker in its wait and is lost anywhere else.  In  *)
(* the windows given the loss matters.                                     *)
NotifyWorker(what, windows) ==
  /\ worker' = IF worker = "asleep" THEN "test" ELSE worker
  /\ raced' = IF worker \in windows THEN raced \cup {what} ELSE raced

(* The loop of SubscribeEventAt runs from the first event of this time to  *)
(* the end: a later event with the callback refuses the subscription too.  *)
Refused(when, how) ==
  /\ \E e \in m_mapSubscribedEvents : e.when = when
  /\ \E e \in m_mapSubscribedEvents : e.when >= when /\ e.how = how

(* An insertion goes behind its equals. *)
ComesFirst(when) == \A e \in m_mapSubscribedEvents : when < e.when

Subscribe(node, notify) ==
  /\ SpinFree /\ owner \in {"idle", "stopping"}
  /\ node.n <= MaxEvents
  /\ m_mapSubscribedEvents' = m_mapSubscribedEvents \cup {node}
  /\ \E same \in Search(node) :
       m_mapEventsEntry' = m_mapEventsEntry \cup (IF same = {} THEN {node} ELSE {})
  /\ crossed' = (crossed \/ Crosses(node))
  /\ IF notify THEN NotifyWorker("event", {"toWait"}) ELSE UNCHANGED <<worker, raced>>
  /\ UNCHANGED <<now, m_stop, picked, deadline, owner, fired, cancelled>>

\* Mutant of SubscribeEventAt: notified unless it is first.
SubscribeEventAtQuiet(when, how) ==
  ~Refused(when, how) /\ Subscribe(NewNode(when, how), ~ComesFirst(when))

SubscribeEventAt(when, how) ==
  ~Refused(when, how) /\ Subscribe(NewNode(when, how), ComesFirst(when))

\* Mutant of UnsubscribeEvent: only the table forgets the event.
UnsubscribeEventInTable(id) ==
  /\ SpinFree /\ owner \in {"idle", "stopping"}
  /\ \E found \in Search(id) : \E e \in found :
       /\ m_mapEventsEntry' = m_mapEventsEntry \ {e}
       /\ cancelled' = cancelled \cup {e.n}
  /\ UNCHANGED <<now, m_stop, m_mapSubscribedEvents, workerVars, owner, fired, crossed, raced>>

(* An id that is not found changes nothing and returns false.  An entry    *)
(* that a missed search left behind leads to a node that is gone: erasing  *)
(* that node again corrupts memory the model does not show.                *)
UnsubscribeEvent(id) ==
  /\ SpinFree /\ owner \in {"idle", "stopping"}
  /\ \E found \in Search(id) : \E e \in found :
       /\ m_mapSubscribedEvents' = m_mapSubscribedEvents \ {e}
       /\ m_mapEventsEntry' = m_mapEventsEntry \ {e}
       /\ cancelled' = cancelled \cup Numbers({e} \cap m_mapSubscribedEvents)
  /\ UNCHANGED <<now, m_stop, workerVars, owner, fired, crossed, raced>>

UnsubscribeAllEvent ==
  /\ SpinFree
  /\ m_mapSubscribedEvents' = {}
  /\ m_mapEventsEntry' = {}
  /\ crossed' = FALSE
  /\ cancelled' = cancelled \cup Numbers(m_mapSubscribedEvents)
  /\ UNCHANGED <<now, m_stop, workerVars, fired, raced>>

UnsubscribeAll == owner \in {"idle", "stopping"} /\ UnsubscribeAllEvent /\ UNCHANGED owner

-----------------------------------------------------------------------------
(* Calls of the owner. *)

(* A second Start finds the thread of the first, even if it has ended. *)
Start ==
  /\ SpinFree /\ owner = "idle" /\ m_stop
  /\ m_stop' = FALSE
  /\ worker' = IF worker = "none" THEN "test" ELSE worker
  /\ UNCHANGED <<now, eventVars, picked, deadline, owner, raced>>

(* Stop and, of a started timer, ~Timer: first UnsubscribeAllEvent ... *)
StopClears ==
  /\ owner = "idle"
  /\ \/ owner' = "stopping"
     \/ worker # "none" /\ ~m_stop /\ owner' = "destroying"
  /\ UnsubscribeAllEvent

\* Mutant of StopEnds: nobody is notified.
StopEndsQuietly ==
  /\ SpinFree /\ owner \in {"stopping", "destroying"}
  /\ m_stop' = TRUE
  /\ owner' = IF owner = "destroying" THEN "joining" ELSE "idle"
  /\ UNCHANGED <<now, eventVars, workerVars, raced>>

(* ... then, under the lock again, m_stop and the notification. *)
StopEnds ==
  /\ SpinFree /\ owner \in {"stopping", "destroying"}
  /\ m_stop' = TRUE
  /\ NotifyWorker("stop", {"lock", "toWait"})
  /\ owner' = IF owner = "destroying" THEN "joining" ELSE "idle"
  /\ UNCHANGED <<now, eventVars, picked, deadline>>

(* ~Timer of a stopped timer.  One that was never started has no thread,   *)
(* and joining it dereferences a null pointer.                             *)
DestroyStopped ==
  /\ owner = "idle" /\ m_stop
  /\ owner' = IF worker = "none" THEN "crashed" ELSE "joining"
  /\ UNCHANGED <<now, m_stop, eventVars, workerVars, raced>>

Join ==
  /\ owner = "joining" /\ worker = "exited"
  /\ owner' = "destroyed"
  /\ UNCHANGED <<now, m_stop, eventVars, workerVars, raced>>

-----------------------------------------------------------------------------
(* process() *)

TestStop ==
  /\ worker = "test"
  /\ worker' = IF m_stop THEN "exited" ELSE "lock"
  /\ deadline' = Forever
  /\ raced' = {}
  /\ UNCHANGED <<now, m_stop, eventVars, picked, owner>>

LockEvents ==
  /\ worker = "lock"
  /\ worker' = "locked"
  /\ UNCHANGED <<now, m_stop, eventVars, picked, deadline, owner, raced>>

Due == \E e \in First : e.when <= now

(* The callback runs under the spin lock; then both containers forget the  *)
(* event, the table by a search for its id.                                *)
Fire ==
  /\ worker = "locked" /\ Due
  /\ \E e \in First :
       /\ fired' = fired \cup {e.n}
       /\ \E found \in Search(e) : m_mapEventsEntry' = m_mapEventsEntry \ found
       /\ m_mapSubscribedEvents' = m_mapSubscribedEvents \ {e}
  /\ UNCHANGED <<now, m_stop, cancelled, crossed, workerVars, owner, raced>>

UnlockEvents ==
  /\ worker = "locked" /\ ~Due
  /\ worker' = "toWait"
  /\ picked' = First
  /\ UNCHANGED <<now, m_stop, eventVars, deadline, owner, raced>>

\* Mutant of BeginWait: no deadline.
BeginWaitForever ==
  /\ worker = "toWait"
  /\ worker' = "asleep"
  /\ picked' = {}
  /\ deadline' = Forever
  /\ UNCHANGED <<now, m_stop, eventVars, owner, raced>>

(* min->first is read after the unlock: of an erased node it is anything. *)
BeginWait ==
  /\ worker = "toWait"
  /\ worker' = "asleep"
  /\ picked' = {}
  /\ IF picked \subseteq m_mapSubscribedEvents
     THEN /\ deadline' \in IF picked = {} THEN {Forever} ELSE {e.when : e \in picked}
          /\ UNCHANGED raced
     ELSE deadline' \in {now, Forever} /\ raced' = raced \cup {"erased"}
  /\ UNCHANGED <<now, m_stop, eventVars, owner>>

TimeOut ==
  /\ worker = "asleep" /\ deadline <= now
  /\ worker' = "test"
  /\ UNCHANGED <<now, m_stop, eventVars, picked, deadline, owner, raced>>

WakeUnasked ==
  /\ worker = "asleep"
  /\ worker' = "test"
  /\ UNCHANGED <<now, m_stop, eventVars, picked, deadline, owner, raced>>

Process == TestStop \/ LockEvents \/ Fire \/ UnlockEvents \/ BeginWait \/ TimeOut

Tick ==
  /\ now < Horizon
  /\ now' = now + 1
  /\ UNCHANGED <<m_stop, eventVars, workerVars, owner, raced>>

Next ==
  \/ \E when \in 1 .. Horizon, how \in Callbacks : SubscribeEventAt(when, how)
  \/ \E id \in m_mapEventsEntry : UnsubscribeEvent(id)
  \/ UnsubscribeAll
  \/ Start \/ StopClears \/ StopEnds \/ DestroyStopped \/ Join
  \/ Process \/ WakeUnasked
  \/ Tick

(* The worker runs, time passes and a call that began goes on.  No call    *)
(* has to be made and no unasked wake-up has to happen.                    *)
Fairness == WF_vars(Process) /\ WF_vars(Tick) /\ WF_vars(StopEnds) /\ WF_vars(Join)

Spec == Init /\ [][Next]_vars /\ Fairness

-----------------------------------------------------------------------------
(* Every variable has its type. *)
TimerTypeOK ==
  /\ now \in 0 .. Horizon
  /\ m_stop \in BOOLEAN
  /\ m_mapSubscribedEvents \subseteq Nodes
  /\ m_mapEventsEntry \subseteq Nodes
  /\ worker \in {"none", "test", "lock", "locked", "toWait", "asleep", "exited"}
  /\ picked \subseteq Nodes
  /\ deadline \in 0 .. Forever
  /\ owner \in {"idle", "stopping", "destroying", "joining", "destroyed", "crashed"}
  /\ fired \cup cancelled \subseteq 1 .. MaxEvents
  /\ crossed \in BOOLEAN
  /\ raced \subseteq {"event", "stop", "erased"}

(* The table leads to every subscribed event and to no other, as long as   *)
(* no two ids have each been less than the other: an id that was returned  *)
(* can be used to cancel, and cancelling touches no erased node.           *)
TablesAgree == ~crossed => m_mapEventsEntry = m_mapSubscribedEvents

(* Each subscription has one fate: it waits, or it fired once, or it was   *)
(* cancelled.  In particular a cancelled event does not fire.              *)
OneFate ==
  /\ Numbers(m_mapSubscribedEvents) \cap (fired \cup cancelled) = {}
  /\ fired \cap cancelled = {}

(* Types hold, both tables describe the same events and each event has one *)
(* fate.                                                                   *)
TimerInv == TimerTypeOK /\ TablesAgree /\ OneFate

(* The worker sleeps past an event's time, or through a stop, only if the  *)
(* notification came, or the event it had picked was erased, between its   *)
(* unlocking and its wait.                                                 *)
OversleepsOnlyAfterRace ==
  worker = "asleep" /\ (m_stop \/ \E e \in m_mapSubscribedEvents : e.when < deadline)
    => raced # {}

(* An event of a running timer fires or is cancelled, unless the worker    *)
(* missed something in that window.                                        *)
SubscribedFires ==
  \A n \in 1 .. MaxEvents :
    (\E e \in m_mapSubscribedEvents : e.n = n) /\ ~m_stop /\ worker \notin {"none", "exited"}
      ~> (\A e \in m_mapSubscribedEvents : e.n # n) \/ m_stop \/ raced # {}

(* ~Timer of a timer that was started returns, under the same proviso. *)
DestructorReturns == owner = "joining" ~> owner = "destroyed" \/ raced # {}
=============================================================================
