---------------------------- MODULE Timer_proofs ----------------------------
(***************************************************************************)
(* The timer for any callbacks, instants and number of subscriptions: its  *)
(* two tables describe the same events, each event has one fate, and the   *)
(* thread sleeps past an event or through a stop only after it missed a    *)
(* notification or its event between unlocking and waiting.                *)
(***************************************************************************)
EXTENDS Timer, WellFoundedInduction, FiniteSetTheorems, TLAPS

\* The numbers issued are 1, 2, ... and each is the number of one node.
NumbersInv ==
  /\ \E k \in 0 .. MaxEvents : Issued = 1 .. k
  /\ \A e, f \in m_mapSubscribedEvents : e.n = f.n => e = f

\* Until ids have crossed, the table's order is one, and no id is there twice.
KeysInv ==
  ~crossed => \A a, b \in m_mapEventsEntry :
    /\ ~(Less(a, b) /\ Less(b, a))
    /\ a.when = b.when /\ a.how = b.how => a = b

\* A worker in its round that has missed nothing: no stop was asked for, the node it
\* picked comes first, and the first event is not due before its deadline.
RoundInv ==
  raced = {} =>
    /\ worker \in {"lock", "locked", "toWait", "asleep"} => ~m_stop
    /\ worker = "toWait" =>
         \A f \in m_mapSubscribedEvents : picked # {} /\ \A e \in picked : e.when <= f.when
    /\ worker = "asleep" => \A f \in m_mapSubscribedEvents : deadline <= f.when

IInv == TimerInv /\ NumbersInv /\ KeysInv /\ RoundInv
-----------------------------------------------------------------------------
(* The first node.                                                         *)

LEMMA LeastNumber == ASSUME NEW T \in SUBSET Nat, T # {} PROVE \E x \in T : \A y \in T : x <= y
<1> DEFINE R == OpToRel(<, Nat)
<1>1. \A x, y \in Nat : <<y, x>> \in R <=> y < x
  BY DEF OpToRel
<1>2. IsWellFoundedOn(R, Nat)
  BY NatLessThanWellFounded
<1> HIDE DEF R
<1>3. PICK x \in T : \A y \in T : ~(<<y, x>> \in R)
  BY <1>2, WFMin
<1>4. ASSUME NEW y \in T PROVE x <= y
  <2>1. x \in Nat /\ y \in Nat
    OBVIOUS
  <2>2. ~(y < x)
    BY <1>1, <1>3, <2>1
  <2> QED
    BY <2>1, <2>2
<1> QED
  BY <1>4

LEMMA NodeFields ==
  \A e \in Nodes : /\ e.when \in Nat /\ e.when \in 1 .. Horizon /\ e.how \in Nat
                   /\ e.n \in Nat /\ e.n \in 1 .. MaxEvents
<1>1. ASSUME NEW e \in Nodes
      PROVE  e.when \in 1 .. Horizon /\ e.how \in Callbacks /\ e.n \in 1 .. MaxEvents
  BY DEF Nodes
<1>2. 1 .. Horizon \subseteq Nat /\ Callbacks \subseteq Nat /\ 1 .. MaxEvents \subseteq Nat
  BY TimerAssumption
<1> QED
  BY <1>1, <1>2, Zenon

\* begin() is the end only of an empty multimap, and nothing is due before it.
LEMMA FirstNode ==
  ASSUME TimerTypeOK, NumbersInv
  PROVE  /\ First \subseteq m_mapSubscribedEvents
         /\ \A e \in First, f \in m_mapSubscribedEvents : e.when <= f.when
         /\ m_mapSubscribedEvents # {} => First # {}
<1>1. \A e \in m_mapSubscribedEvents : e.when \in Nat /\ e.n \in Nat
  BY NodeFields DEF TimerTypeOK
<1>2. \A e \in First, f \in m_mapSubscribedEvents : e.when <= f.when
  BY <1>1 DEF First, Before
<1>3. ASSUME m_mapSubscribedEvents # {}
      PROVE  First # {}
  <2> DEFINE Times == {e.when : e \in m_mapSubscribedEvents}
  <2>1. Times \in SUBSET Nat /\ Times # {}
    BY <1>1, <1>3
  <2>2. PICK when \in Times : \A t \in Times : when <= t
    BY <2>1, LeastNumber
  <2> DEFINE Early == {e \in m_mapSubscribedEvents : e.when = when}
             Places == {e.n : e \in Early}
  <2>3. Places \in SUBSET Nat /\ Places # {}
    BY <1>1, <2>2
  <2>4. PICK n \in Places : \A p \in Places : n <= p
    BY <2>3, LeastNumber
  <2>5. PICK e \in m_mapSubscribedEvents : e.when = when /\ e.n = n
    BY <2>4
  <2>6. ASSUME NEW f \in m_mapSubscribedEvents \ {e}
        PROVE  Before(e, f)
    <3>1. e.when <= f.when /\ e.n # f.n
      BY <2>2, <2>5, <2>6 DEF NumbersInv
    <3>2. f.when = e.when => e.n <= f.n
      BY <2>4, <2>5, <2>6
    <3> QED
      BY <1>1, <2>5, <2>6, <3>1, <3>2 DEF Before
  <2> QED
    BY <2>5, <2>6 DEF First
<1> QED
  BY <1>2, <1>3 DEF First

-----------------------------------------------------------------------------
(* Nodes that come and go.                                                 *)

\* A new subscription has the next number.
LEMMA NextNumber ==
  ASSUME NumbersInv, NEW when, NEW how, NewNode(when, how).n <= MaxEvents
  PROVE  /\ NewNode(when, how).n \in 1 .. MaxEvents
         /\ NewNode(when, how).n \notin Issued
         /\ \E k \in 0 .. MaxEvents : Issued \cup {NewNode(when, how).n} = 1 .. k
<1>1. PICK k \in 0 .. MaxEvents : Issued = 1 .. k
  BY DEF NumbersInv
<1>2. Cardinality(Issued) = k
  BY <1>1, FS_Interval
<1>3. NewNode(when, how).n = k + 1
  BY <1>2 DEF NewNode
<1>4. k + 1 \in 1 .. MaxEvents /\ k + 1 \notin 1 .. k /\ (1 .. k) \cup {k + 1} = 1 .. k + 1
  BY <1>3, TimerAssumption
<1> QED
  BY <1>1, <1>3, <1>4

\* Nodes leave the multimap when their callback runs or when they are cancelled.
LEMMA Leaving ==
  ASSUME TimerTypeOK, OneFate, NumbersInv,
         NEW Gone, Gone \subseteq m_mapSubscribedEvents,
         m_mapSubscribedEvents' = m_mapSubscribedEvents \ Gone,
         \/ fired' = fired \cup Numbers(Gone) /\ cancelled' = cancelled
         \/ fired' = fired /\ cancelled' = cancelled \cup Numbers(Gone)
  PROVE  OneFate' /\ NumbersInv' /\ fired' \cup cancelled' \subseteq 1 .. MaxEvents
<1>1. Numbers(m_mapSubscribedEvents) = Numbers(m_mapSubscribedEvents') \cup Numbers(Gone)
  BY DEF Numbers
<1>2. Numbers(m_mapSubscribedEvents') \cap Numbers(Gone) = {}
  BY DEF Numbers, NumbersInv
<1>3. Numbers(Gone) \subseteq 1 .. MaxEvents
  BY NodeFields DEF Numbers, TimerTypeOK
<1>4. Issued' = Issued
  BY <1>1 DEF Issued
<1>5. NumbersInv'
  BY <1>4 DEF NumbersInv
<1>6. OneFate'
  BY <1>1, <1>2 DEF OneFate
<1> QED
  BY <1>3, <1>5, <1>6 DEF TimerTypeOK

\* An id that is searched for before ids have crossed is found, with its node alone.
LEMMA Found ==
  ASSUME ~crossed, KeysInv, NEW e \in m_mapEventsEntry
  PROVE  Search(e) = {{e}}
<1>1. ~Crosses(e)
  BY DEF KeysInv, Crosses
<1>2. Finds(e) = {e}
  BY DEF KeysInv, Finds
<1> QED
  BY <1>1, <1>2 DEF Search

-----------------------------------------------------------------------------
(* One lemma for each kind of step.                                        *)

LEMMA InitIInv == Init => IInv
<1> SUFFICES ASSUME Init PROVE IInv
  OBVIOUS
<1>1. TimerTypeOK
  <2>1. now \in 0 .. Horizon /\ deadline \in 0 .. Forever
    BY TimerAssumption DEF Init, Forever
  <2> QED
    BY <2>1, Zenon DEF Init, TimerTypeOK
<1>2. Issued = 1 .. 0
  BY DEF Init, Issued, Numbers
<1>3. NumbersInv
  BY <1>2, TimerAssumption DEF NumbersInv, Init
<1> QED
  BY <1>1, <1>3 DEF Init, IInv, TimerInv, TablesAgree, OneFate, KeysInv, RoundInv, Numbers

\* A subscription accepted: a node of its own, in both tables, and a worker that is told if
\* its deadline is too late now.
LEMMA SubscribeStep ==
  ASSUME IInv, NEW when \in 1 .. Horizon, NEW how \in Callbacks, SubscribeEventAt(when, how)
  PROVE  IInv'
<1> DEFINE node == NewNode(when, how)
<1>0. /\ TimerTypeOK /\ TablesAgree /\ OneFate /\ NumbersInv /\ KeysInv /\ RoundInv
      /\ ~Refused(when, how) /\ Subscribe(node, ComesFirst(when))
  BY DEF IInv, TimerInv, SubscribeEventAt
<1>1. node.when = when /\ node.how = how /\ node.n <= MaxEvents
  BY <1>0 DEF NewNode, Subscribe
<1>2. /\ node.n \in 1 .. MaxEvents /\ node.n \notin Issued
      /\ \E k \in 0 .. MaxEvents : Issued \cup {node.n} = 1 .. k
  BY <1>0, <1>1, NextNumber
<1>3. node \in Nodes
  BY <1>2 DEF NewNode, Nodes
<1>4. /\ m_mapSubscribedEvents' = m_mapSubscribedEvents \cup {node}
      /\ \E same \in Search(node) :
           m_mapEventsEntry' = m_mapEventsEntry \cup (IF same = {} THEN {node} ELSE {})
      /\ crossed' = (crossed \/ Crosses(node))
      /\ UNCHANGED <<now, m_stop, picked, deadline, owner, fired, cancelled>>
  BY <1>0 DEF Subscribe
<1> HIDE DEF node
<1>5. TimerTypeOK'
  <2>1. worker' = worker \/ (worker = "asleep" /\ worker' = "test")
    BY <1>0 DEF Subscribe, NotifyWorker
  <2>2. raced' = raced \/ raced' = raced \cup {"event"}
    BY <1>0 DEF Subscribe, NotifyWorker
  <2>3. crossed' \in BOOLEAN
    BY <1>0, <1>4, Zenon DEF TimerTypeOK
  <2>4. m_mapSubscribedEvents' \subseteq Nodes /\ m_mapEventsEntry' \subseteq Nodes
    BY <1>0, <1>3, <1>4 DEF TimerTypeOK
  <2> QED
    BY <1>0, <1>4, <2>1, <2>2, <2>3, <2>4 DEF TimerTypeOK
<1>6. ASSUME ~crossed'
      PROVE  ~crossed /\ m_mapEventsEntry' = m_mapEventsEntry \cup {node} /\ Finds(node) = {}
  <2>1. ~crossed /\ ~Crosses(node)
    BY <1>4, <1>6
  <2>2. Finds(node) = {}
    <3>1. m_mapEventsEntry = m_mapSubscribedEvents
      BY <1>0, <2>1 DEF TablesAgree
    <3>2. \A e \in m_mapSubscribedEvents : e.when = when => e.when >= when
      BY <1>0, NodeFields DEF TimerTypeOK
    <3> QED
      BY <1>0, <1>1, <3>1, <3>2 DEF Refused, Finds
  <2> QED
    BY <1>4, <2>1, <2>2 DEF Search
<1>7. TablesAgree'
  BY <1>0, <1>4, <1>6 DEF TablesAgree
<1>8. KeysInv'
  <2>1. SUFFICES ASSUME ~crossed', NEW a \in m_mapEventsEntry', NEW b \in m_mapEventsEntry'
                 PROVE  /\ ~(Less(a, b) /\ Less(b, a))
                        /\ a.when = b.when /\ a.how = b.how => a = b
    BY DEF KeysInv, Less
  <2>2. ~crossed /\ ~Crosses(node) /\ Finds(node) = {}
    BY <1>4, <1>6, <2>1
  <2>3. ASSUME NEW c \in m_mapEventsEntry
        PROVE  ~(Less(node, c) /\ Less(c, node)) /\ ~(c.when = node.when /\ c.how = node.how)
    BY <2>2 DEF Crosses, Finds
  <2>4. ~Less(node, node)
    BY <1>3, NodeFields DEF Less
  <2>5. a \in m_mapEventsEntry \cup {node} /\ b \in m_mapEventsEntry \cup {node}
    BY <1>6, <2>1
  <2> QED
    BY <1>0, <2>2, <2>3, <2>4, <2>5, Zenon DEF KeysInv
<1>9. Numbers(m_mapSubscribedEvents') = Numbers(m_mapSubscribedEvents) \cup {node.n}
  BY <1>4 DEF Numbers
<1>10. OneFate'
  BY <1>0, <1>2, <1>4, <1>9 DEF OneFate, Issued
<1>11. NumbersInv'
  <2>1. Issued' = Issued \cup {node.n}
    BY <1>4, <1>9 DEF Issued
  <2>2. \A e \in m_mapSubscribedEvents : e.n # node.n
    BY <1>2 DEF Issued, Numbers
  <2> QED
    BY <1>0, <1>2, <1>4, <2>1, <2>2 DEF NumbersInv
<1>12. RoundInv'
  <2>1. CASE ComesFirst(when)
    <3>1. /\ worker' = IF worker = "asleep" THEN "test" ELSE worker
          /\ raced' = IF worker \in {"toWait"} THEN raced \cup {"event"} ELSE raced
      BY <1>0, <2>1 DEF Subscribe, NotifyWorker
    <3> QED
      BY <1>0, <1>4, <3>1 DEF RoundInv
  <2>2. CASE ~ComesFirst(when)
    <3>1. worker' = worker /\ raced' = raced
      BY <1>0, <2>2 DEF Subscribe
    <3>2. PICK e \in m_mapSubscribedEvents : ~(when < e.when)
      BY <2>2 DEF ComesFirst
    <3>3. e.when \in Nat /\ when \in Nat /\ e.when <= node.when
      BY <1>0, <1>1, <3>2, NodeFields, TimerAssumption DEF TimerTypeOK
    <3>4. deadline \in Nat /\ \A f \in picked : f.when \in Nat
      BY <1>0, NodeFields, TimerAssumption DEF TimerTypeOK, Forever
    <3> QED
      BY <1>0, <1>1, <1>4, <3>1, <3>2, <3>3, <3>4 DEF RoundInv
  <2> QED
    BY <2>1, <2>2
<1> QED
  BY <1>5, <1>7, <1>8, <1>10, <1>11, <1>12 DEF IInv, TimerInv

\* Nodes that leave disturb neither the order of the table nor the worker's round.
LEMMA LeavingRest ==
  ASSUME IInv, NEW Gone \in SUBSET m_mapSubscribedEvents,
         m_mapSubscribedEvents' = m_mapSubscribedEvents \ Gone,
         m_mapEventsEntry' \subseteq m_mapEventsEntry,
         ~crossed => m_mapEventsEntry' = m_mapEventsEntry \ Gone,
         crossed' = crossed
  PROVE  TablesAgree' /\ KeysInv'
<1>1. TablesAgree'
  BY DEF IInv, TimerInv, TablesAgree
<1>2. KeysInv'
  BY DEF IInv, KeysInv, Less
<1> QED
  BY <1>1, <1>2

LEMMA UnsubscribeStep ==
  ASSUME IInv, NEW id \in m_mapEventsEntry, UnsubscribeEvent(id)
  PROVE  IInv'
<1>1. PICK e \in UNION Search(id) :
        /\ m_mapSubscribedEvents' = m_mapSubscribedEvents \ {e}
        /\ m_mapEventsEntry' = m_mapEventsEntry \ {e}
        /\ cancelled' = cancelled \cup Numbers({e} \cap m_mapSubscribedEvents)
        /\ UNCHANGED <<now, m_stop, worker, picked, deadline, owner, fired, crossed, raced>>
  BY DEF UnsubscribeEvent, workerVars
<1> DEFINE Gone == {e} \cap m_mapSubscribedEvents
<1>2. m_mapSubscribedEvents' = m_mapSubscribedEvents \ Gone
  BY <1>1
<1>3. ~crossed => m_mapEventsEntry' = m_mapEventsEntry \ Gone
  BY <1>1 DEF IInv, TimerInv, TablesAgree
<1>4. TablesAgree' /\ KeysInv'
  BY <1>1, <1>2, <1>3, LeavingRest
<1>5. OneFate' /\ NumbersInv' /\ fired' \cup cancelled' \subseteq 1 .. MaxEvents
  BY <1>1, <1>2, Leaving DEF IInv, TimerInv
<1>6. TimerTypeOK'
  BY <1>1, <1>2, <1>5 DEF IInv, TimerInv, TimerTypeOK
<1>7. RoundInv'
  BY <1>1, <1>2 DEF IInv, RoundInv
<1> QED
  BY <1>4, <1>5, <1>6, <1>7 DEF IInv, TimerInv

LEMMA ClearStep ==
  ASSUME IInv, UnsubscribeAllEvent,
         owner' \in {"idle", "stopping", "destroying", "joining", "destroyed", "crashed"}
  PROVE  IInv'
<1>1. /\ m_mapSubscribedEvents' = m_mapSubscribedEvents \ m_mapSubscribedEvents
      /\ m_mapEventsEntry' = {} /\ crossed' = FALSE
      /\ cancelled' = cancelled \cup Numbers(m_mapSubscribedEvents)
      /\ UNCHANGED <<now, m_stop, worker, picked, deadline, fired, raced>>
  BY DEF UnsubscribeAllEvent, workerVars
<1>2. TablesAgree' /\ KeysInv'
  BY <1>1 DEF TablesAgree, KeysInv
<1>3. OneFate' /\ NumbersInv' /\ fired' \cup cancelled' \subseteq 1 .. MaxEvents
  BY <1>1, Leaving DEF IInv, TimerInv
<1>4. TimerTypeOK'
  BY <1>1, <1>3 DEF IInv, TimerInv, TimerTypeOK
<1>5. RoundInv'
  BY <1>1 DEF IInv, RoundInv
<1> QED
  BY <1>2, <1>3, <1>4, <1>5 DEF IInv, TimerInv

LEMMA FireStep == ASSUME IInv, Fire PROVE IInv'
<1>1. PICK e \in First :
        /\ worker = "locked"
        /\ fired' = fired \cup {e.n}
        /\ \E found \in Search(e) : m_mapEventsEntry' = m_mapEventsEntry \ found
        /\ m_mapSubscribedEvents' = m_mapSubscribedEvents \ {e}
        /\ UNCHANGED <<now, m_stop, worker, picked, deadline, owner, cancelled, crossed, raced>>
  BY DEF Fire, workerVars
<1>2. e \in m_mapSubscribedEvents /\ Numbers({e}) = {e.n}
  BY DEF First, Numbers
<1>3. ~crossed => m_mapEventsEntry' = m_mapEventsEntry \ {e}
  BY <1>1, <1>2, Found DEF IInv, TimerInv, TablesAgree
<1>4. TablesAgree' /\ KeysInv'
  BY <1>1, <1>2, <1>3, LeavingRest
<1>5. OneFate' /\ NumbersInv' /\ fired' \cup cancelled' \subseteq 1 .. MaxEvents
  BY <1>1, <1>2, Leaving DEF IInv, TimerInv
<1>6. TimerTypeOK'
  BY <1>1, <1>5 DEF IInv, TimerInv, TimerTypeOK
<1>7. RoundInv'
  BY <1>1 DEF IInv, RoundInv
<1> QED
  BY <1>4, <1>5, <1>6, <1>7 DEF IInv, TimerInv

\* The steps that leave both tables alone.
TablesStay == UNCHANGED eventVars

LEMMA TablesStayStep ==
  ASSUME IInv, TablesStay, TimerTypeOK', RoundInv' PROVE IInv'
<1>1. TablesAgree' /\ OneFate'
  BY DEF IInv, TimerInv, TablesStay, eventVars, TablesAgree, OneFate, Numbers
<1>2. KeysInv' /\ NumbersInv'
  BY DEF IInv, TablesStay, eventVars, KeysInv, NumbersInv, Less, Issued, Numbers
<1> QED
  BY <1>1, <1>2 DEF IInv, TimerInv

LEMMA OwnerStep == ASSUME IInv, Start \/ StopEnds \/ DestroyStopped \/ Join PROVE IInv'
<1>1. TimerTypeOK /\ RoundInv
  BY DEF IInv, TimerInv
<1>2. CASE Start
  <2>1. TimerTypeOK'
    BY <1>1, <1>2, Zenon DEF Start, eventVars, TimerTypeOK
  <2>2. RoundInv'
    BY <1>1, <1>2 DEF Start, eventVars, RoundInv
  <2> QED
    BY <1>2, <2>1, <2>2, TablesStayStep DEF Start, TablesStay
<1>3. CASE StopEnds
  <2>1. TimerTypeOK'
    <3>1. worker' = worker \/ worker' = "test"
      BY <1>3 DEF StopEnds, NotifyWorker
    <3>2. raced' = raced \/ raced' = raced \cup {"stop"}
      BY <1>3 DEF StopEnds, NotifyWorker
    <3>3. owner' \in {"joining", "idle"} /\ m_stop' \in BOOLEAN
      BY <1>3, Zenon DEF StopEnds
    <3> QED
      BY <1>1, <1>3, <3>1, <3>2, <3>3 DEF StopEnds, eventVars, TimerTypeOK
  <2>2. RoundInv'
    BY <1>1, <1>3 DEF StopEnds, SpinFree, NotifyWorker, eventVars, RoundInv
  <2> QED
    BY <1>3, <2>1, <2>2, TablesStayStep DEF StopEnds, TablesStay
<1>4. CASE DestroyStopped \/ Join
  <2>1. owner' \in {"joining", "destroyed", "crashed"} /\ UNCHANGED <<now, m_stop, eventVars, workerVars, raced>>
    BY <1>4 DEF DestroyStopped, Join
  <2>2. TimerTypeOK'
    BY <1>1, <2>1 DEF eventVars, workerVars, TimerTypeOK
  <2>3. RoundInv'
    BY <1>1, <2>1 DEF eventVars, workerVars, RoundInv
  <2> QED
    BY <2>1, <2>2, <2>3, TablesStayStep DEF TablesStay
<1> QED
  BY <1>2, <1>3, <1>4

LEMMA BeginWaitStep == ASSUME IInv, BeginWait PROVE IInv'
<1>1. TimerTypeOK /\ RoundInv
  BY DEF IInv, TimerInv
<1>2. /\ worker = "toWait" /\ worker' = "asleep" /\ picked' = {}
      /\ UNCHANGED <<now, m_stop, eventVars, owner>>
  BY DEF BeginWait
<1>3. CASE picked \subseteq m_mapSubscribedEvents
  <2>1. /\ deadline' \in IF picked = {} THEN {Forever} ELSE {e.when : e \in picked}
        /\ raced' = raced
    BY <1>3 DEF BeginWait
  <2>2. deadline' \in 0 .. Forever
    BY <1>1, <2>1, NodeFields, TimerAssumption DEF TimerTypeOK, Forever
  <2>3. TimerTypeOK'
    BY <1>1, <1>2, <2>1, <2>2 DEF eventVars, TimerTypeOK
  <2>4. RoundInv'
    <3>1. SUFFICES ASSUME raced = {}
                   PROVE  ~m_stop /\ \A f \in m_mapSubscribedEvents : deadline' <= f.when
      BY <1>2, <2>1 DEF RoundInv, eventVars
    <3> QED
      BY <1>1, <1>2, <2>1, <3>1 DEF RoundInv
  <2> QED
    BY <1>2, <2>3, <2>4, TablesStayStep DEF TablesStay
<1>4. CASE ~(picked \subseteq m_mapSubscribedEvents)
  <2>1. deadline' \in {now, Forever} /\ raced' = raced \cup {"erased"}
    BY <1>4 DEF BeginWait
  <2>2. deadline' \in 0 .. Forever
    BY <1>1, <2>1, TimerAssumption DEF TimerTypeOK, Forever
  <2>3. TimerTypeOK'
    BY <1>1, <1>2, <2>1, <2>2 DEF eventVars, TimerTypeOK
  <2>4. RoundInv'
    BY <1>2, <2>1 DEF RoundInv
  <2> QED
    BY <1>2, <2>3, <2>4, TablesStayStep DEF TablesStay
<1> QED
  BY <1>3, <1>4

LEMMA RoundStep ==
  ASSUME IInv, TestStop \/ LockEvents \/ UnlockEvents \/ TimeOut \/ WakeUnasked
  PROVE  IInv'
<1>1. TimerTypeOK /\ RoundInv /\ NumbersInv
  BY DEF IInv, TimerInv
<1>2. CASE TestStop
  <2>1. /\ worker' \in {"exited", "lock"} /\ (worker' = "lock" => ~m_stop)
        /\ deadline' = Forever /\ raced' = {}
        /\ UNCHANGED <<now, m_stop, eventVars, picked, owner>>
    BY <1>2 DEF TestStop
  <2>2. deadline' \in 0 .. Forever
    BY <2>1, TimerAssumption DEF Forever
  <2>3. TimerTypeOK'
    BY <1>1, <2>1, <2>2 DEF eventVars, TimerTypeOK
  <2>4. RoundInv'
    BY <2>1 DEF RoundInv
  <2> QED
    BY <2>1, <2>3, <2>4, TablesStayStep DEF TablesStay
<1>3. CASE LockEvents
  <2>1. TimerTypeOK'
    BY <1>1, <1>3 DEF LockEvents, eventVars, TimerTypeOK
  <2>2. RoundInv'
    BY <1>1, <1>3 DEF LockEvents, eventVars, RoundInv
  <2> QED
    BY <1>3, <2>1, <2>2, TablesStayStep DEF LockEvents, TablesStay
<1>4. CASE UnlockEvents
  <2>1. /\ worker = "locked" /\ worker' = "toWait" /\ picked' = First
        /\ UNCHANGED <<now, m_stop, eventVars, deadline, owner, raced>>
    BY <1>4 DEF UnlockEvents
  <2>2. TimerTypeOK'
    BY <1>1, <2>1, FirstNode DEF eventVars, TimerTypeOK
  <2>3. RoundInv'
    BY <1>1, <2>1, FirstNode DEF eventVars, RoundInv
  <2> QED
    BY <2>1, <2>2, <2>3, TablesStayStep DEF TablesStay
<1>5. CASE TimeOut \/ WakeUnasked
  <2>1. worker' = "test" /\ UNCHANGED <<now, m_stop, eventVars, picked, deadline, owner, raced>>
    BY <1>5 DEF TimeOut, WakeUnasked
  <2>2. TimerTypeOK'
    BY <1>1, <2>1 DEF eventVars, TimerTypeOK
  <2>3. RoundInv'
    BY <1>1, <2>1 DEF eventVars, RoundInv
  <2> QED
    BY <2>1, <2>2, <2>3, TablesStayStep DEF TablesStay
<1> QED
  BY <1>2, <1>3, <1>4, <1>5

LEMMA TickStep == ASSUME IInv, Tick PROVE IInv'
<1>1. now' \in 0 .. Horizon
  BY TimerAssumption DEF IInv, TimerInv, TimerTypeOK, Tick
<1>2. UNCHANGED <<m_stop, eventVars, workerVars, owner, raced>>
  BY DEF Tick
<1>3. TimerTypeOK'
  BY <1>1, <1>2 DEF IInv, TimerInv, eventVars, workerVars, TimerTypeOK
<1>4. RoundInv'
  BY <1>2 DEF IInv, eventVars, workerVars, RoundInv
<1> QED
  BY <1>2, <1>3, <1>4, TablesStayStep DEF TablesStay

LEMMA StutterStep == ASSUME IInv, UNCHANGED vars PROVE IInv'
<1>1. TimerTypeOK'
  BY DEF IInv, TimerInv, vars, eventVars, workerVars, TimerTypeOK
<1>2. RoundInv'
  BY DEF IInv, vars, eventVars, workerVars, RoundInv
<1> QED
  BY <1>1, <1>2, TablesStayStep DEF TablesStay, vars

LEMMA NextIInv == IInv /\ [Next]_vars => IInv'
<1> SUFFICES ASSUME IInv, [Next]_vars PROVE IInv'
  OBVIOUS
<1>1. CASE UnsubscribeAll \/ StopClears
  <2>1. UnsubscribeAllEvent /\ owner' \in {owner, "stopping", "destroying"}
    BY <1>1 DEF UnsubscribeAll, StopClears
  <2>2. owner \in {"idle", "stopping", "destroying", "joining", "destroyed", "crashed"}
    BY DEF IInv, TimerInv, TimerTypeOK
  <2> QED
    BY <2>1, <2>2, ClearStep
<1>2. CASE Process \/ WakeUnasked
  BY <1>2, FireStep, BeginWaitStep, RoundStep DEF Process
<1> QED
  BY <1>1, <1>2, SubscribeStep, UnsubscribeStep, OwnerStep, TickStep, StutterStep DEF Next

LEMMA IInvAlways == Spec => []IInv
BY InitIInv, NextIInv, PTL DEF Spec

-----------------------------------------------------------------------------
(* The theorems.                                                           *)

\* Until two ids have each been less than the other, the table of events and the multimap
\* hold the same events; and at any time each subscription waits, has fired once, or was
\* cancelled, whatever happened to the table.
THEOREM EventsHaveOneFate == Spec => []TimerInv
<1>1. IInv => TimerInv
  BY DEF IInv
<1> QED
  BY <1>1, IInvAlways, PTL

\* The thread sleeps past an event's time, or after m_stop, only if the notification, or the
\* end of the event it had picked, fell between its unlocking and its wait.
THEOREM ThreadOversleepsOnlyAfterRace == Spec => []OversleepsOnlyAfterRace
<1>1. ASSUME IInv, worker = "asleep", raced = {}
      PROVE  ~m_stop /\ \A e \in m_mapSubscribedEvents : ~(e.when < deadline)
  <2>1. deadline \in Nat /\ \A e \in m_mapSubscribedEvents : e.when \in Nat
    BY <1>1, NodeFields, TimerAssumption DEF IInv, TimerInv, TimerTypeOK, Forever
  <2>2. ~m_stop /\ \A e \in m_mapSubscribedEvents : deadline <= e.when
    BY <1>1 DEF IInv, RoundInv
  <2> QED
    BY <2>1, <2>2
<1>2. IInv => OversleepsOnlyAfterRace
  BY <1>1 DEF OversleepsOnlyAfterRace
<1> QED
  BY <1>2, IInvAlways, PTL
=============================================================================
