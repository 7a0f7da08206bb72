--------------------------- MODULE Lifecycle_proofs ---------------------------
(***************************************************************************)
(* Start and Stop for any number of users, pool threads, workers and       *)
(* connections: what the order of Stop's joins and deletions protects, and *)
(* which connections it leaves behind.                                     *)
(***************************************************************************)
EXTENDS Lifecycle, FiniteSetTheorems, TLAPS

Unmade == {"new", "make", "listen", "resize"}
AfterPool == {"wakeWorker", "joinWorker", "resetTable", "stopped"}
AllMade == {"running", "manager", "wakeListener", "joinListener", "joinPool"}

\* What the owner's place says of the things that it starts, joins and deletes.
OwnerInv ==
  /\ tableAlive <=> owner # "stopped"
  /\ owner \in AfterPool \cup {"joinPool"} => poolStopping
  /\ owner \in AfterPool => \A t \in Pool : pc[t] = "idle"
  /\ owner \in AllMade => turn = 0
  /\ \A w \in Workers :
       /\ slot[w] = "deleted" => owner \in AfterPool /\ loop[w] = "ended"
       /\ owner \in {"resetTable", "stopped"} => slot[w] = "deleted"
       /\ owner \in {"wakeWorker", "joinWorker"} /\ w < turn => slot[w] = "deleted"
       /\ owner \in Unmade \/ (owner = "workers" /\ turn <= w) => loop[w] = "none"
  /\ owner \in {"new", "make", "listen"} => loop[Listener] = "none"
  /\ loop[Listener] = "none" => ~listening

Early == {"shake", "put"}
Late == {"stack", "add", "wrap", "index", "drop", "count"}
Giving == {"drop", "count"}
Ending == {"finish", "drop", "count"}
At(places) == {at[t] : t \in {u \in Threads : pc[u] \in places}}
Finishing(places) == {fin[w] : w \in {x \in Workers : loop[x] \in places}}
Shaking == At(Early)
Going == At(Late)
Deleting == UNION {delQ[w] : w \in Workers}
Watched == UNION {addQ[w] \cup epoll[w] : w \in Workers}

\* Handlers that somebody may still find, once they are in the table or were.
Known == table \cup Deleting \cup Going \cup Watched \cup Finishing(Ending)

\* Handlers that somebody is about to delete, and those that nobody will.
Doomed == At(Giving) \cup Finishing(Giving) \cup Deleting
Left == orphans \cup uncounted \cup dropped

\* No two handshakes have one handler.
Apart ==
  \A t, v \in Threads : t # v /\ pc[t] \in Early /\ pc[v] \in Early => at[t] # at[v]

\* A handler is unborn, or waits in a task, or is one thread's alone in its handshake, and
\* only then known; the table names none that is on its way to be deleted.
NewInv ==
  /\ Unborn \cap (tasks \cup Known) = {}
  /\ tasks \cap (Known \cup Shaking) = {}
  /\ Shaking \cap Known = {}
  /\ \A h \in tasks \cup Shaking : life[h] = "live"
  /\ Apart

\* Who deletes a live handler in the end, and who deleted the dead ones of the table.
LiveInv ==
  /\ table \cap Doomed = {}
  /\ \A h \in table : life[h] = "freed" => h \in late
  /\ \A h \in Handlers :
       life[h] = "live" => h \in tasks \cup Shaking \cup table \cup Doomed \cup Left
  /\ owner = "stopped" => table = {}

-----------------------------------------------------------------------------
(* Types, one variable at a time.                                          *)
OwnerTypes ==
  /\ owner \in {"new", "make", "listen", "resize", "workers", "running", "failed", "manager",
                "wakeListener", "joinListener", "joinPool", "wakeWorker", "joinWorker",
                "resetTable", "stopped"}
  /\ turn \in Workers
  /\ m_bStopped \in BOOLEAN /\ mgrStopped \in BOOLEAN
  /\ slot \in [Workers -> {"none", "null", "made", "deleted"}]

LoopTypes ==
  /\ loop \in [Loops -> {"none", "wait", "finish", "drop", "count", "accept", "ended"}]
  /\ pipe \in [Loops -> BOOLEAN]
  /\ fin \in [Loops -> Handlers \cup {None}]
  /\ \A w \in Workers : loop[w] \in {"finish", "drop", "count"} => fin[w] \in Handlers
  /\ addQ \in [Workers -> SUBSET Handlers]
  /\ delQ \in [Workers -> SUBSET Handlers]
  /\ epoll \in [Workers -> SUBSET Handlers]

ListenTypes ==
  /\ pending \in 0 .. Cardinality(Handlers)
  /\ listening \in BOOLEAN /\ edge \in BOOLEAN /\ leftBehind \in BOOLEAN

ThreadTypes ==
  /\ tasks \subseteq Handlers /\ poolStopping \in BOOLEAN
  /\ pc \in [Threads -> {"idle", "shake", "put", "stack", "add", "wrap", "index",
                        "disconnect", "drop", "count"}]
  /\ m_iCurWorkerIdx \in Int
  /\ at \in [Threads -> Handlers \cup {None}]
  /\ \A t \in Threads : pc[t] \notin {"idle", "disconnect"} => at[t] \in Handlers

HandlerTypes ==
  /\ life \in [Handlers -> {"unborn", "live", "freed"}]
  /\ own \in [Handlers -> Workers \cup {NoThread}]
  /\ ref \in [Handlers -> Int]
  /\ table \subseteq Handlers /\ late \subseteq Handlers
  /\ orphans \subseteq Handlers /\ uncounted \subseteq Handlers /\ dropped \subseteq Handlers
  /\ tableAlive \in BOOLEAN

Types == OwnerTypes /\ LoopTypes /\ ListenTypes /\ ThreadTypes /\ HandlerTypes

IInv ==
  /\ Types /\ OwnThreadsAreSafe /\ OwnerInv /\ NewInv /\ LiveInv
  /\ NoConnectionForgotten

LEMMA TypesAreTypes == Types => LifecycleTypeOK
BY DEF LifecycleTypeOK, Types, OwnerTypes, LoopTypes, ListenTypes, ThreadTypes, HandlerTypes

LEMMA SomeUnborn ==
  /\ Cardinality(Handlers) \in Nat
  /\ Cardinality(ToBeAccepted) \in Nat /\ Cardinality(ToBeAccepted) <= Cardinality(Handlers)
BY LifecycleAssumption, FS_CardinalityType, FS_Subset DEF Unborn, ToBeAccepted

LEMMA NonePending == 0 \in 0 .. Cardinality(Handlers)
<1>1. Cardinality(Handlers) \in Nat
  BY SomeUnborn
<1> QED
  BY <1>1

LEMMA Frames ==
  /\ OwnerTypes /\ UNCHANGED ownerVars => OwnerTypes'
  /\ LoopTypes /\ UNCHANGED loopVars => LoopTypes'
  /\ ListenTypes /\ UNCHANGED listenVars => ListenTypes'
  /\ ThreadTypes /\ UNCHANGED threadVars => ThreadTypes'
  /\ HandlerTypes /\ UNCHANGED handlerVars => HandlerTypes'
<1>1. OwnerTypes /\ UNCHANGED ownerVars => OwnerTypes'
  BY DEF OwnerTypes, ownerVars
<1>2. LoopTypes /\ UNCHANGED loopVars => LoopTypes'
  BY DEF LoopTypes, loopVars
<1>3. ListenTypes /\ UNCHANGED listenVars => ListenTypes'
  BY DEF ListenTypes, listenVars
<1>4. ThreadTypes /\ UNCHANGED threadVars => ThreadTypes'
  BY DEF ThreadTypes, threadVars, taskVars
<1>5. HandlerTypes /\ UNCHANGED handlerVars => HandlerTypes'
  BY DEF HandlerTypes, handlerVars, history
<1> QED
  BY <1>1, <1>2, <1>3, <1>4, <1>5

LEMMA FaultKeepsTypes ==
  ASSUME Types, NEW what, Fault(what)
  PROVE  Types'
BY Frames DEF Fault, Types

LEMMA FirstWorker == 0 \in Workers
<1>1. Cardinality(Workers) \in Nat /\ Cardinality(Workers) # 0
  BY LifecycleAssumption, FS_CardinalityType, FS_EmptySet
<1> QED
  BY <1>1, LifecycleAssumption

LEMMA InitType == Init => Types
<1> SUFFICES ASSUME Init PROVE Types
  OBVIOUS
<1> USE DEF Init, Loops
<1>1. OwnerTypes
  BY FirstWorker DEF OwnerTypes
<1>2. LoopTypes
  BY DEF LoopTypes
<1>3. ListenTypes
  BY NonePending DEF ListenTypes
<1>4. ThreadTypes
  <2>1. m_iCurWorkerIdx \in Int
    OBVIOUS
  <2>2. pc = [t \in Threads |-> "idle"] /\ at = [t \in Threads |-> None]
    OBVIOUS
  <2> QED
    BY <2>1, <2>2 DEF ThreadTypes
<1>5. HandlerTypes
  BY DEF HandlerTypes
<1> QED
  BY <1>1, <1>2, <1>3, <1>4, <1>5 DEF Types

LEMMA OwnerKeepsTypes ==
  ASSUME Types, Start \/ Stop \/ OwnerStep
  PROVE  Types'
<1> USE DEF ownerVars, loopVars, listenVars, threadVars, taskVars, handlerVars, history, Threads
<1>1. CASE Start
  <2>1. UNCHANGED <<loopVars, listenVars, threadVars, handlerVars>>
    BY <1>1 DEF Start, Owner
  <2>2. OwnerTypes'
    BY <1>1 DEF Start, Owner, Types, OwnerTypes
  <2> QED
    BY <2>1, <2>2, Frames DEF Types
<1>14. CASE StartManager
  <2>1. UNCHANGED <<loopVars, listenVars, threadVars, handlerVars>>
    BY <1>14 DEF StartManager, Owner
  <2>2. OwnerTypes'
    BY <1>14 DEF StartManager, Owner, Types, OwnerTypes
  <2> QED
    BY <2>1, <2>2, Frames DEF Types
<1>2. CASE Stop
  <2>1. UNCHANGED <<loopVars, listenVars, threadVars, handlerVars>>
    BY <1>2 DEF Stop, Owner
  <2>2. OwnerTypes'
    BY <1>2 DEF Stop, Owner, Types, OwnerTypes
  <2> QED
    BY <2>1, <2>2, Frames DEF Types
<1>3. CASE StopManager
  <2>1. UNCHANGED <<loopVars, listenVars, threadVars, handlerVars>>
    BY <1>3 DEF StopManager, Owner
  <2>2. OwnerTypes'
    BY <1>3 DEF StopManager, Owner, Types, OwnerTypes
  <2> QED
    BY <2>1, <2>2, Frames DEF Types
<1>4. CASE ListenFails
  <2>1. UNCHANGED <<loopVars, listenVars, threadVars, handlerVars>>
    BY <1>4 DEF ListenFails, Owner
  <2>2. OwnerTypes'
    BY <1>4 DEF ListenFails, Owner, Types, OwnerTypes
  <2> QED
    BY <2>1, <2>2, Frames DEF Types
<1>5. CASE JoinPool
  <2>1. UNCHANGED <<loopVars, listenVars, threadVars, handlerVars>>
    BY <1>5 DEF JoinPool, Owner
  <2>2. OwnerTypes'
    BY <1>5 DEF JoinPool, Owner, Types, OwnerTypes
  <2> QED
    BY <2>1, <2>2, Frames DEF Types
<1>6. CASE Resize
  <2>1. UNCHANGED <<loopVars, listenVars, threadVars, handlerVars>>
    BY <1>6 DEF Resize, Owner
  <2>2. OwnerTypes'
    BY <1>6 DEF Resize, Owner, Types, OwnerTypes
  <2> QED
    BY <2>1, <2>2, Frames DEF Types
<1>7. CASE StartListener
  <2>1. UNCHANGED <<listenVars, threadVars, handlerVars>>
    BY <1>7 DEF StartListener, Owner, RunLoop
  <2>2. OwnerTypes'
    BY <1>7 DEF StartListener, Owner, RunLoop, Types, OwnerTypes
  <2>3. LoopTypes'
    BY <1>7 DEF StartListener, Owner, RunLoop, Types, LoopTypes, Loops
  <2> QED
    BY <2>1, <2>2, <2>3, Frames DEF Types
<1>8. CASE StartWorker
  <2>1. UNCHANGED <<listenVars, threadVars, handlerVars>>
    BY <1>8 DEF StartWorker, RunLoop
  <2>2. OwnerTypes'
    BY <1>8, FirstWorker DEF StartWorker, RunLoop, Types, OwnerTypes
  <2>3. LoopTypes'
    BY <1>8, FirstWorker DEF StartWorker, RunLoop, Types, LoopTypes, Loops
  <2> QED
    BY <2>1, <2>2, <2>3, Frames DEF Types
<1>9. CASE WakeListener
  <2>1. UNCHANGED <<listenVars, threadVars, handlerVars>>
    BY <1>9 DEF WakeListener, Owner, Wake
  <2>2. OwnerTypes'
    BY <1>9 DEF WakeListener, Owner, Wake, Types, OwnerTypes
  <2>3. LoopTypes'
    BY <1>9 DEF WakeListener, Owner, Wake, Types, LoopTypes, Loops
  <2> QED
    BY <2>1, <2>2, <2>3, Frames DEF Types
<1>10. CASE WakeWorker
  <2>1. UNCHANGED <<listenVars, threadVars, handlerVars>>
    BY <1>10 DEF WakeWorker, Owner, Wake
  <2>2. OwnerTypes'
    BY <1>10 DEF WakeWorker, Owner, Wake, Types, OwnerTypes
  <2>3. LoopTypes'
    BY <1>10 DEF WakeWorker, Owner, Wake, Types, LoopTypes, Loops
  <2> QED
    BY <2>1, <2>2, <2>3, Frames DEF Types
<1>11. CASE JoinListener
  <2>1. UNCHANGED <<loopVars, handlerVars>>
    BY <1>11 DEF JoinListener, Owner
  <2>2. OwnerTypes'
    BY <1>11 DEF JoinListener, Owner, Types, OwnerTypes
  <2>3. ListenTypes'
    BY <1>11, NonePending DEF JoinListener, Owner, Types, ListenTypes
  <2>4. ThreadTypes'
    BY <1>11 DEF JoinListener, Owner, Types, ThreadTypes
  <2> QED
    BY <2>1, <2>2, <2>3, <2>4, Frames DEF Types
<1>12. CASE JoinWorker
  <2>1. UNCHANGED <<listenVars, threadVars, handlerVars>>
    BY <1>12 DEF JoinWorker, NextWorker
  <2>2. OwnerTypes'
    BY <1>12, FirstWorker DEF JoinWorker, NextWorker, Types, OwnerTypes
  <2>3. LoopTypes'
    BY <1>12, FirstWorker DEF JoinWorker, NextWorker, Types, LoopTypes, Loops
  <2> QED
    BY <2>1, <2>2, <2>3, Frames DEF Types
<1>13. CASE ResetTable
  <2>1. CASE \E what : Fault(what)
    BY <2>1, FaultKeepsTypes
  <2>2. CASE ~\E what : Fault(what)
    <3>1. UNCHANGED <<loopVars, listenVars, threadVars>>
      BY <1>13, <2>2 DEF ResetTable
    <3>2. OwnerTypes'
      BY <1>13, <2>2 DEF ResetTable, Types, OwnerTypes
    <3>3. HandlerTypes'
      BY <1>13, <2>2 DEF ResetTable, Types, HandlerTypes
    <3> QED
      BY <3>1, <3>2, <3>3, Frames DEF Types
  <2> QED
    BY <2>1, <2>2
<1> QED
  BY <1>1, <1>2, <1>3, <1>4, <1>5, <1>6, <1>7, <1>8, <1>9, <1>10, <1>11, <1>12, <1>13,
     <1>14 DEF OwnerStep

\* ReadCount puts a handler on a delete list and wakes its worker, or leaves both alone.
LEMMA Counted ==
  ASSUME LoopTypes, HandlerTypes, NEW h \in Handlers, ReadCount(h)
  PROVE  /\ ref' \in [Handlers -> Int]
         /\ uncounted' \subseteq Handlers /\ orphans' \subseteq Handlers
         /\ delQ' \in [Workers -> SUBSET Handlers] /\ pipe' \in [Loops -> BOOLEAN]
         /\ \/ /\ UNCHANGED <<delQ, pipe>> /\ h \in uncounted' \cup orphans'
            \/ \E o \in Workers : delQ' = [delQ EXCEPT ![o] = delQ[o] \cup {h}]
         /\ uncounted \subseteq uncounted' /\ orphans \subseteq orphans'
         /\ uncounted' \subseteq uncounted \cup {h} /\ orphans' \subseteq orphans \cup {h}
<1>1. ref' \in [Handlers -> Int]
  <2>1. ref[h] % 2 \in Int
    BY DEF HandlerTypes
  <2> QED
    BY <2>1 DEF ReadCount, HandlerTypes
<1>2. /\ uncounted \subseteq uncounted' /\ orphans \subseteq orphans'
      /\ uncounted' \subseteq uncounted \cup {h} /\ orphans' \subseteq orphans \cup {h}
  BY DEF ReadCount
<1>3. CASE ref[h] = 0 /\ own[h] # NoThread
  <2>1. PICK o \in Workers : o = own[h]
    BY <1>3 DEF HandlerTypes
  <2>2. delQ[o] \cup {h} \in SUBSET Handlers
    BY DEF LoopTypes
  <2>3. delQ' = [delQ EXCEPT ![o] = delQ[o] \cup {h}] /\ pipe' = [pipe EXCEPT ![o] = TRUE]
    BY <1>3, <2>1 DEF ReadCount, Wake
  <2> QED
    BY <1>1, <1>2, <2>2, <2>3 DEF LoopTypes, HandlerTypes
<1>4. CASE ~(ref[h] = 0 /\ own[h] # NoThread)
  BY <1>1, <1>2, <1>4 DEF ReadCount, LoopTypes, HandlerTypes
<1> QED
  BY <1>3, <1>4

LEMMA LoopKeepsTypes ==
  ASSUME Types, NEW w \in Workers, LoopStep(w)
  PROVE  Types'
<1> USE DEF ownerVars, loopVars, listenVars, threadVars, taskVars, handlerVars, history, Threads
<1>0. LoopTypes /\ HandlerTypes /\ w \in Loops
  BY DEF Types, Loops
<1>1. CASE ServeLists(w)
  <2>1. CASE \E what : Fault(what)
    BY <2>1, FaultKeepsTypes
  <2>2. CASE ~\E what : Fault(what)
    <3>1. UNCHANGED <<ownerVars, listenVars, threadVars>>
      BY <1>1, <2>2 DEF ServeLists
    <3>2. LoopTypes'
      <4>1. /\ UNCHANGED fin /\ loop[w] = "wait"
            /\ pipe' = [pipe EXCEPT ![w] = FALSE]
            /\ addQ' = [addQ EXCEPT ![w] = {}] /\ delQ' = [delQ EXCEPT ![w] = {}]
            /\ loop' = [loop EXCEPT ![w] = IF mgrStopped THEN "ended" ELSE "wait"]
        BY <1>1, <2>2 DEF ServeLists, Awake, AtTest
      <4>2. epoll' \in [Workers -> SUBSET Handlers]
        <5>1. PICK refused \in SUBSET {h \in addQ[w] : life'[h] = "freed"} :
                 epoll' = [epoll EXCEPT ![w] = (epoll[w] \ delQ[w]) \cup (addQ[w] \ refused)]
          BY <1>1, <2>2 DEF ServeLists
        <5>2. (epoll[w] \ delQ[w]) \cup (addQ[w] \ refused) \in SUBSET Handlers
          BY <1>0 DEF LoopTypes
        <5> QED
          BY <1>0, <5>1, <5>2 DEF LoopTypes
      <4>3. \A x \in Workers : loop'[x] \in {"finish", "drop", "count"} => fin[x] \in Handlers
        BY <1>0, <4>1 DEF LoopTypes, Loops
      <4> QED
        BY <1>0, <4>1, <4>2, <4>3 DEF LoopTypes
    <3>3. HandlerTypes'
      <4>1. /\ UNCHANGED <<table, tableAlive, history>>
            /\ life' = [h \in Handlers |-> IF h \in delQ[w] THEN "freed" ELSE life[h]]
            /\ own' = [h \in Handlers |-> IF h \in delQ[w] THEN NoThread ELSE own[h]]
            /\ ref' = [h \in Handlers |-> IF h \in delQ[w] THEN 0 ELSE ref[h]]
        BY <1>1, <2>2 DEF ServeLists
      <4> QED
        BY <1>0, <4>1 DEF HandlerTypes
    <3> QED
      BY <3>1, <3>2, <3>3, Frames DEF Types
  <2> QED
    BY <2>1, <2>2
<1>2. CASE FinishTests(w)
  <2>1. CASE \E what : Fault(what)
    BY <2>1, FaultKeepsTypes
  <2>2. CASE ~\E what : Fault(what)
    <3>1. UNCHANGED <<ownerVars, listenVars, threadVars, handlerVars>>
      BY <1>2, <2>2 DEF FinishTests
    <3>2. LoopTypes'
      <4>1. PICK h \in epoll[w] :
               /\ UNCHANGED <<pipe, addQ, delQ, epoll>>
               /\ \/ /\ \E place \in {"wait", "ended"} : loop' = [loop EXCEPT ![w] = place]
                     /\ UNCHANGED fin
                  \/ /\ loop' = [loop EXCEPT ![w] = "finish"]
                     /\ fin' = [fin EXCEPT ![w] = h]
        BY <1>2, <2>2 DEF FinishTests, AtTest
      <4>2. h \in Handlers
        BY <1>0 DEF LoopTypes
      <4> QED
        BY <1>0, <4>1, <4>2 DEF LoopTypes, Loops
    <3> QED
      BY <3>1, <3>2, Frames DEF Types
  <2> QED
    BY <2>1, <2>2
<1>3. CASE FinishRemoves(w)
  <2>1. CASE \E what : Fault(what)
    BY <2>1, FaultKeepsTypes
  <2>2. CASE ~\E what : Fault(what)
    <3>1. UNCHANGED <<ownerVars, listenVars, threadVars, pipe, addQ, delQ, epoll>>
      BY <1>3, <2>2 DEF FinishRemoves
    <3>2. LoopTypes'
      <4>1. \/ loop' = [loop EXCEPT ![w] = "drop"] /\ UNCHANGED fin /\ loop[w] = "finish"
            \/ /\ \E place \in {"wait", "ended"} : loop' = [loop EXCEPT ![w] = place]
               /\ fin' = [fin EXCEPT ![w] = None]
        BY <1>3, <2>2 DEF FinishRemoves, FinishEnds, AtTest
      <4> QED
        BY <1>0, <3>1, <4>1 DEF LoopTypes, Loops
    <3>3. HandlerTypes'
      BY <1>0, <1>3, <2>2 DEF FinishRemoves, SameSocket, HandlerTypes
    <3> QED
      BY <3>1, <3>2, <3>3, Frames DEF Types
  <2> QED
    BY <2>1, <2>2
<1>4. CASE FinishDrops(w)
  <2>1. /\ UNCHANGED <<ownerVars, listenVars, threadVars, pipe, fin, addQ, delQ, epoll>>
        /\ loop[w] = "drop" /\ loop' = [loop EXCEPT ![w] = "count"]
    BY <1>4 DEF FinishDrops
  <2>2. LoopTypes'
    BY <1>0, <2>1 DEF LoopTypes, Loops
  <2>3. HandlerTypes'
    <3>1. fin[w] \in Handlers
      BY <1>0, <2>1 DEF LoopTypes
    <3>2. ref[fin[w]] - 1 \in Int
      BY <1>0, <3>1 DEF HandlerTypes
    <3> QED
      BY <1>0, <1>4, <3>2 DEF FinishDrops, DropReference, HandlerTypes
  <2> QED
    BY <2>1, <2>2, <2>3, Frames DEF Types
<1>5. CASE FinishCounts(w)
  <2>1. /\ UNCHANGED <<ownerVars, listenVars, threadVars, addQ, epoll>>
        /\ loop[w] = "count" /\ ReadCount(fin[w])
        /\ \E place \in {"wait", "ended"} : loop' = [loop EXCEPT ![w] = place]
        /\ fin' = [fin EXCEPT ![w] = None]
    BY <1>5 DEF FinishCounts, FinishEnds, AtTest
  <2>2. /\ delQ' \in [Workers -> SUBSET Handlers] /\ pipe' \in [Loops -> BOOLEAN]
        /\ HandlerTypes'
    <3>1. fin[w] \in Handlers
      BY <1>0, <2>1 DEF LoopTypes
    <3> QED
      BY <1>0, <1>5, <2>1, <3>1, Counted DEF FinishCounts, HandlerTypes
  <2>3. LoopTypes'
    BY <1>0, <2>1, <2>2 DEF LoopTypes, Loops
  <2> QED
    BY <2>1, <2>2, <2>3, Frames DEF Types
<1> QED
  BY <1>1, <1>2, <1>3, <1>4, <1>5 DEF LoopStep

LEMMA ListenKeepsTypes ==
  ASSUME Types, ListenStep \/ RemoteConnects
  PROVE  Types'
<1> USE DEF ownerVars, loopVars, listenVars, threadVars, taskVars, handlerVars, history, Threads
<1>1. CASE ServeListener
  <2>1. UNCHANGED <<ownerVars, threadVars, handlerVars>>
    BY <1>1 DEF ServeListener, Awake, AtTest
  <2>2. LoopTypes'
    BY <1>1 DEF ServeListener, Awake, AtTest, Types, LoopTypes, Loops
  <2>3. ListenTypes'
    <3>1. edge' \in BOOLEAN
      <4>1. CASE listening
        BY <1>1, <4>1 DEF ServeListener, Types, ListenTypes
      <4>2. CASE ~listening
        BY <1>1, <4>2 DEF ServeListener
      <4> QED
        BY <4>1, <4>2
    <3> QED
      BY <1>1, <3>1 DEF ServeListener, Types, ListenTypes
  <2> QED
    BY <2>1, <2>2, <2>3, Frames DEF Types
<1>2. CASE AcceptBegins
  <2>1. UNCHANGED <<ownerVars, threadVars, handlerVars>>
    BY <1>2 DEF AcceptBegins
  <2>2. LoopTypes'
    BY <1>2 DEF AcceptBegins, Types, LoopTypes, Loops
  <2>3. ListenTypes'
    BY <1>2 DEF AcceptBegins, Types, ListenTypes
  <2> QED
    BY <2>1, <2>2, <2>3, Frames DEF Types
<1>3. CASE AcceptEnds
  <2>1. UNCHANGED <<ownerVars, listenVars, threadVars, handlerVars>>
    BY <1>3 DEF AcceptEnds, AtTest
  <2>2. LoopTypes'
    BY <1>3 DEF AcceptEnds, AtTest, Types, LoopTypes, Loops
  <2> QED
    BY <2>1, <2>2, Frames DEF Types
<1>4. CASE AcceptFails
  <2>1. UNCHANGED <<ownerVars, threadVars, handlerVars>>
    BY <1>4 DEF AcceptFails, AtTest
  <2>2. LoopTypes'
    BY <1>4 DEF AcceptFails, AtTest, Types, LoopTypes, Loops
  <2>3. ListenTypes'
    BY <1>4 DEF AcceptFails, AtTest, Types, ListenTypes
  <2> QED
    BY <2>1, <2>2, <2>3, Frames DEF Types
<1>5. ASSUME NEW h \in Handlers, Accept(h) PROVE Types'
  <2>1. UNCHANGED <<ownerVars, loopVars>>
    BY <1>5 DEF Accept
  <2>2. ListenTypes'
    BY <1>5, SomeUnborn DEF Accept, Types, ListenTypes
  <2>3. ThreadTypes'
    BY <1>5, SomeUnborn DEF Accept, Types, ThreadTypes
  <2>4. HandlerTypes'
    BY <1>5, SomeUnborn DEF Accept, Types, HandlerTypes
  <2> QED
    BY <2>1, <2>2, <2>3, <2>4, Frames DEF Types
<1>6. CASE RemoteConnects
  <2>1. UNCHANGED <<ownerVars, loopVars, threadVars, handlerVars>>
    BY <1>6 DEF RemoteConnects
  <2>2. ListenTypes'
    BY <1>6, SomeUnborn DEF RemoteConnects, Types, ListenTypes
  <2> QED
    BY <2>1, <2>2, Frames DEF Types
<1> QED
  BY <1>1, <1>2, <1>3, <1>4, <1>5, <1>6 DEF ListenStep

LEMMA ThreadKeepsTypes ==
  ASSUME Types, NEW t \in Threads,
         \/ ThreadStep(t) \/ HandshakeStep(t)
         \/ Disconnect(t) \/ \E h \in Handlers : TakeTask(t, h) \/ Dial(t, h)
  PROVE  Types'
<1> USE DEF ownerVars, loopVars, listenVars, threadVars, taskVars, handlerVars, history, Threads
<1>1. ASSUME NEW h \in Handlers, TakeTask(t, h) PROVE Types'
  <2>1. UNCHANGED <<ownerVars, loopVars, listenVars, handlerVars>>
    BY <1>1 DEF TakeTask, Begin, Goto
  <2>2. ThreadTypes'
    BY <1>1 DEF TakeTask, Begin, Goto, Types, ThreadTypes
  <2> QED
    BY <2>1, <2>2, Frames DEF Types
<1>2. ASSUME NEW h \in Handlers, Dial(t, h) PROVE Types'
  <2>1. UNCHANGED <<ownerVars, loopVars, listenVars>>
    BY <1>2 DEF Dial, Begin, Goto
  <2>2. ThreadTypes'
    BY <1>2 DEF Dial, Begin, Goto, Types, ThreadTypes
  <2>3. HandlerTypes'
    BY <1>2 DEF Dial, Begin, Goto, Types, HandlerTypes
  <2> QED
    BY <2>1, <2>2, <2>3, Frames DEF Types
<1>3. CASE Disconnect(t)
  <2>1. UNCHANGED <<ownerVars, loopVars, listenVars, handlerVars>>
    BY <1>3 DEF Disconnect, Begin, Goto
  <2>2. ThreadTypes'
    BY <1>3 DEF Disconnect, Begin, Goto, Types, ThreadTypes
  <2> QED
    BY <2>1, <2>2, Frames DEF Types
<1>4. CASE HandshakeFails(t)
  <2>1. UNCHANGED <<ownerVars, loopVars, listenVars>>
    BY <1>4 DEF HandshakeFails, Delete, Return, Goto
  <2>2. ThreadTypes'
    BY <1>4 DEF HandshakeFails, Delete, Return, Goto, Types, ThreadTypes
  <2>3. HandlerTypes'
    BY <1>4 DEF HandshakeFails, Delete, Return, Goto, Types, HandlerTypes
  <2> QED
    BY <2>1, <2>2, <2>3, Frames DEF Types
<1>5. CASE LogicConnectTests(t)
  <2>1. UNCHANGED <<ownerVars, loopVars, listenVars, handlerVars>>
    BY <1>5 DEF LogicConnectTests, Goto
  <2>2. ThreadTypes'
    BY <1>5 DEF LogicConnectTests, Goto, Types, ThreadTypes
  <2> QED
    BY <2>1, <2>2, Frames DEF Types
<1>6. CASE LogicConnectPuts(t)
  <2>1. CASE \E what : Fault(what)
    BY <2>1, FaultKeepsTypes
  <2>2. CASE ~\E what : Fault(what)
    <3>0. at[t] \in Handlers /\ HandlerTypes /\ ThreadTypes
      BY <1>6 DEF LogicConnectPuts, Types, ThreadTypes
    <3>1. /\ UNCHANGED <<ownerVars, loopVars, listenVars, taskVars, own, ref, tableAlive, history>>
          /\ \/ Delete(t) /\ UNCHANGED table
             \/ Goto(t, "stack") /\ table' = table \cup {at[t]} /\ UNCHANGED <<at, life>>
      BY <1>6, <2>2 DEF LogicConnectPuts, Meets
    <3>2. ThreadTypes'
      BY <3>0, <3>1 DEF Delete, Return, Goto, ThreadTypes
    <3>3. HandlerTypes'
      BY <3>0, <3>1 DEF Delete, HandlerTypes
    <3> QED
      BY <3>1, <3>2, <3>3, Frames DEF Types
  <2> QED
    BY <2>1, <2>2
<1>7. CASE FailsLate(t)
  <2>1. UNCHANGED <<ownerVars, loopVars, listenVars>>
    BY <1>7 DEF FailsLate, Delete, Return, Goto
  <2>2. ThreadTypes'
    BY <1>7 DEF FailsLate, Delete, Return, Goto, Types, ThreadTypes
  <2>3. HandlerTypes'
    <3>1. at[t] \in Handlers
      BY <1>7 DEF FailsLate, Types, ThreadTypes
    <3> QED
      BY <1>7, <3>1 DEF FailsLate, Delete, Return, Goto, Types, HandlerTypes
  <2> QED
    BY <2>1, <2>2, <2>3, Frames DEF Types
<1>8. CASE StackConnect(t)
  <2>1. UNCHANGED <<ownerVars, loopVars, listenVars, handlerVars>>
    BY <1>8 DEF StackConnect, Return, Goto
  <2>2. ThreadTypes'
    BY <1>8 DEF StackConnect, Return, Goto, Types, ThreadTypes
  <2> QED
    BY <2>1, <2>2, Frames DEF Types
<1>9. CASE MoveIndex(t)
  <2>1. UNCHANGED <<ownerVars, loopVars, listenVars, handlerVars>>
    BY <1>9 DEF MoveIndex
  <2>2. ThreadTypes'
    BY <1>9 DEF MoveIndex, Goto, Types, ThreadTypes
  <2> QED
    BY <2>1, <2>2, Frames DEF Types
<1>10. CASE WrapIndex(t)
  <2>1. UNCHANGED <<ownerVars, loopVars, listenVars, handlerVars>>
    BY <1>10 DEF WrapIndex
  <2>2. m_iCurWorkerIdx' \in Int
    <3>1. Cardinality(Workers) \in Nat /\ Cardinality(Workers) > 0
      BY FirstWorker, LifecycleAssumption, FS_CardinalityType
    <3> QED
      BY <1>10, <3>1 DEF WrapIndex, Types, ThreadTypes
  <2>3. ThreadTypes'
    BY <1>10, <2>2 DEF WrapIndex, Goto, Types, ThreadTypes
  <2> QED
    BY <2>1, <2>3, Frames DEF Types
<1>11. CASE AddEvent(t)
  <2>1. CASE \E what : Fault(what)
    BY <2>1, FaultKeepsTypes
  <2>2. CASE ~\E what : Fault(what)
    <3> DEFINE w == m_iCurWorkerIdx
    <3>0. w \in Workers /\ at[t] \in Handlers /\ Types
      BY <1>11, <2>2 DEF AddEvent, Meets, Types, ThreadTypes
    <3>1. /\ UNCHANGED <<ownerVars, listenVars, taskVars, loop, fin, delQ, epoll, life, ref,
                         table, tableAlive, history>>
          /\ Return(t) /\ own' = [own EXCEPT ![at[t]] = w]
          /\ addQ' = [addQ EXCEPT ![w] = addQ[w] \cup {at[t]}] /\ pipe' = [pipe EXCEPT ![w] = TRUE]
      <4>1. slot[w] \in {"none", "null", "made", "deleted"}
        BY <3>0 DEF Types, OwnerTypes
      <4>2. slot[w] = "made"
        BY <1>11, <2>2, <3>0, <4>1 DEF AddEvent, Meets
      <4> QED
        BY <1>11, <2>2, <3>0, <4>2 DEF AddEvent, Wake
    <3>2. LoopTypes'
      <4>1. addQ[w] \cup {at[t]} \in SUBSET Handlers
        BY <3>0 DEF Types, LoopTypes
      <4> QED
        BY <3>0, <3>1, <4>1 DEF Types, LoopTypes
    <3>3. ThreadTypes'
      BY <3>0, <3>1 DEF Return, Goto, Types, ThreadTypes
    <3>4. HandlerTypes'
      BY <3>0, <3>1 DEF Types, HandlerTypes
    <3> QED
      BY <3>1, <3>2, <3>3, <3>4, Frames DEF Types
  <2> QED
    BY <2>1, <2>2
<1>12. CASE DisconnectRemoves(t)
  <2>1. CASE \E what : Fault(what)
    BY <2>1, FaultKeepsTypes
  <2>2. CASE ~\E what : Fault(what)
    <3>1. /\ UNCHANGED <<ownerVars, loopVars, listenVars, taskVars, life, own, ref, tableAlive,
                         history>>
          /\ \/ Return(t) /\ UNCHANGED table
             \/ \E h \in table : /\ Goto(t, "drop") /\ at' = [at EXCEPT ![t] = h]
                                 /\ table' = table \ {h}
      BY <1>12, <2>2 DEF DisconnectRemoves, Meets
    <3>2. ThreadTypes'
      BY <3>1 DEF Return, Goto, Types, ThreadTypes, HandlerTypes
    <3>3. HandlerTypes'
      BY <3>1 DEF Types, HandlerTypes
    <3> QED
      BY <3>1, <3>2, <3>3, Frames DEF Types
  <2> QED
    BY <2>1, <2>2
<1>13. CASE DisconnectDrops(t)
  <2>1. CASE \E what : Fault(what)
    BY <2>1, FaultKeepsTypes
  <2>2. CASE ~\E what : Fault(what)
    <3>1. /\ UNCHANGED <<ownerVars, loopVars, listenVars, taskVars, at, life, own, table,
                         tableAlive, history>>
          /\ Goto(t, "count") /\ DropReference(at[t]) /\ pc[t] = "drop"
      BY <1>13, <2>2 DEF DisconnectDrops, Meets
    <3>2. ThreadTypes'
      BY <3>1 DEF Goto, Types, ThreadTypes
    <3>3. HandlerTypes'
      <4>1. at[t] \in Handlers
        BY <3>1 DEF Types, ThreadTypes
      <4>2. ref[at[t]] - 1 \in Int
        BY <4>1 DEF Types, HandlerTypes
      <4> QED
        BY <3>1, <4>2 DEF DropReference, Types, HandlerTypes
    <3> QED
      BY <3>1, <3>2, <3>3, Frames DEF Types
  <2> QED
    BY <2>1, <2>2
<1>14. CASE DisconnectCounts(t)
  <2>1. CASE \E what : Fault(what)
    BY <2>1, FaultKeepsTypes
  <2>2. CASE ~\E what : Fault(what)
    <3>1. /\ UNCHANGED <<ownerVars, loop, fin, addQ, epoll, listenVars, taskVars, life, own,
                         table, tableAlive, late, dropped>>
          /\ Return(t) /\ ReadCount(at[t]) /\ pc[t] = "count"
      BY <1>14, <2>2 DEF DisconnectCounts, Meets
    <3>2. /\ ThreadTypes' /\ at[t] \in Handlers
      BY <3>1 DEF Return, Goto, Types, ThreadTypes
    <3>3. HandlerTypes' /\ LoopTypes'
      BY <3>1, <3>2, Counted DEF Types, HandlerTypes, LoopTypes
    <3> QED
      BY <3>1, <3>2, <3>3, Frames DEF Types
  <2> QED
    BY <2>1, <2>2
<1> QED
  BY <1>1, <1>2, <1>3, <1>4, <1>5, <1>6, <1>7, <1>8, <1>9, <1>10, <1>11, <1>12, <1>13, <1>14
     DEF ThreadStep, HandshakeStep

-----------------------------------------------------------------------------
(* The owner's place.                                                      *)
LEMMA InitOwnerInv == Init => OwnerInv /\ NoConnectionForgotten
BY DEF Init, OwnerInv, NoConnectionForgotten, AfterPool, AllMade, Loops

\* A step of another thread: it ends no loop but its own and starts none, and begins no
\* task once the pool stops.
LEMMA OwnerStays ==
  ASSUME OwnerInv, UNCHANGED <<ownerVars, tableAlive, poolStopping, listening>>,
         \A l \in Loops : /\ loop[l] = "ended" => loop'[l] = "ended"
                          /\ loop[l] = "none" <=> loop'[l] = "none",
         \A t \in Pool : pc'[t] # "idle" => pc[t] # "idle" \/ ~poolStopping
  PROVE  OwnerInv'
BY DEF OwnerInv, ownerVars, Loops, AfterPool, AllMade

LEMMA OwnerKeepsOwnerInv ==
  ASSUME Types, OwnerInv, Start \/ Stop \/ OwnerStep
  PROVE  OwnerInv'
<1> USE DEF Owner, AfterPool, AllMade, Unmade
<1>1. CASE Start \/ StartManager \/ Stop \/ StopManager \/ ListenFails \/ Resize
  BY <1>1 DEF Start, StartManager, Stop, StopManager, ListenFails, Resize, OwnerInv, loopVars,
              threadVars, taskVars, listenVars, handlerVars
<1>2. CASE StartListener
  BY <1>2, LifecycleAssumption
     DEF StartListener, RunLoop, OwnerInv, Types, LoopTypes, Loops, threadVars, taskVars,
         listenVars, handlerVars
<1>3. CASE StartWorker
  <2>1. turn \in Workers /\ turn # Listener /\ loop' = [loop EXCEPT ![turn] = "wait"]
        /\ slot' = [slot EXCEPT ![turn] = "made"] /\ loop'[Listener] = loop[Listener]
    BY <1>3, LifecycleAssumption
       DEF StartWorker, RunLoop, Types, OwnerTypes, LoopTypes, Loops
  <2>2. \A w \in Workers : slot'[w] # "deleted"
    BY <1>3, <2>1 DEF StartWorker, OwnerInv, Types, OwnerTypes
  <2>3. (owner' = "workers" /\ turn' = turn + 1) \/ (owner' = "running" /\ turn' = 0)
    BY <1>3 DEF StartWorker
  <2>4. \A w \in Workers : turn + 1 <= w => turn <= w /\ turn # w
    BY <2>1, LifecycleAssumption, FS_CardinalityType
  <2>5. \A w \in Workers : w # turn => loop'[w] = loop[w]
    BY <2>1 DEF Types, LoopTypes, Loops
  <2>6. \A w \in Workers : owner' = "workers" /\ turn' <= w => loop'[w] = "none"
    BY <1>3, <2>1, <2>3, <2>4, <2>5 DEF OwnerInv, StartWorker
  <2> QED
    BY <1>3, <2>1, <2>2, <2>3, <2>6
       DEF StartWorker, OwnerInv, threadVars, taskVars, listenVars, handlerVars
<1>4. CASE WakeListener \/ WakeWorker
  BY <1>4 DEF WakeListener, WakeWorker, OwnerInv, loopVars, threadVars, taskVars, listenVars,
              handlerVars
<1>5. CASE JoinListener
  BY <1>5 DEF JoinListener, OwnerInv, loopVars, handlerVars
<1>6. CASE JoinPool
  <2>1. \A w \in Workers : ~(w < turn)
    BY <1>6, LifecycleAssumption, SomeUnborn, FS_CardinalityType DEF JoinPool, OwnerInv
  <2> QED
    BY <1>6, <2>1 DEF JoinPool, OwnerInv, loopVars, threadVars, taskVars, listenVars, handlerVars
<1>7. CASE JoinWorker
  <2>1. /\ owner = "joinWorker" /\ loop[turn] = "ended" /\ turn \in Workers
        /\ slot' = [slot EXCEPT ![turn] = "deleted"]
        /\ UNCHANGED <<loop, listenVars, threadVars, handlerVars>>
    BY <1>7 DEF JoinWorker, NextWorker, Types, OwnerTypes
  <2>2. \A w \in Workers : slot'[w] = "deleted" <=> w = turn \/ slot[w] = "deleted"
    BY <2>1 DEF Types, OwnerTypes
  <2>3. \A w \in Workers : w < turn + 1 <=> w = turn \/ w < turn
    BY <2>1, LifecycleAssumption, FS_CardinalityType
  <2>4. turn + 1 \notin Workers => \A w \in Workers : w < turn + 1
    BY <2>1, LifecycleAssumption, FS_CardinalityType
  <2>5. CASE turn + 1 \in Workers
    BY <1>7, <2>1, <2>2, <2>3, <2>5
       DEF JoinWorker, NextWorker, OwnerInv, threadVars, taskVars, listenVars, handlerVars
  <2>6. CASE turn + 1 \notin Workers
    BY <1>7, <2>1, <2>2, <2>3, <2>4, <2>6
       DEF JoinWorker, NextWorker, OwnerInv, threadVars, taskVars, listenVars, handlerVars
  <2> QED
    BY <2>5, <2>6
<1>8. CASE ResetTable
  BY <1>8 DEF ResetTable, Fault, OwnerInv, ownerVars, loopVars, threadVars, taskVars,
              listenVars, handlerVars
<1> QED
  BY <1>1, <1>2, <1>3, <1>4, <1>5, <1>6, <1>7, <1>8 DEF OwnerStep

LEMMA FaultKeepsOwnerInv ==
  ASSUME OwnerInv, NEW what, Fault(what)
  PROVE  OwnerInv'
BY OwnerStays DEF Fault, loopVars, listenVars, threadVars, taskVars, handlerVars

LEMMA LoopKeepsOwnerInv ==
  ASSUME Types, OwnerInv, NEW w \in Workers, LoopStep(w)
  PROVE  OwnerInv'
<1>1. CASE \E what : Fault(what)
  BY <1>1, FaultKeepsOwnerInv
<1>2. CASE ~\E what : Fault(what)
  <2>1. /\ UNCHANGED <<ownerVars, tableAlive, poolStopping, listening, pc>>
        /\ loop[w] \in {"wait", "finish", "drop", "count"}
        /\ \E place \in {"wait", "finish", "drop", "count", "ended"} :
             loop' = [loop EXCEPT ![w] = place]
    <3> USE DEF AtTest, FinishEnds, listenVars, threadVars, taskVars, handlerVars
    <3>1. CASE ServeLists(w)
      BY <1>2, <3>1 DEF ServeLists, Awake
    <3>2. CASE FinishTests(w)
      BY <1>2, <3>2 DEF FinishTests
    <3>3. CASE FinishRemoves(w)
      BY <1>2, <3>3 DEF FinishRemoves
    <3>4. CASE FinishDrops(w)
      BY <3>4 DEF FinishDrops
    <3>5. CASE FinishCounts(w)
      BY <3>5 DEF FinishCounts
    <3> QED
      BY <3>1, <3>2, <3>3, <3>4, <3>5 DEF LoopStep
  <2>2. w \in Loops
    BY DEF Loops
  <2> QED
    BY <2>1, <2>2, OwnerStays DEF Types, LoopTypes
<1> QED
  BY <1>1, <1>2

LEMMA ListenKeepsOwnerInv ==
  ASSUME Types, OwnerInv, ListenStep \/ RemoteConnects
  PROVE  OwnerInv'
<1> USE DEF Types, LoopTypes, Loops
<1>1. CASE ServeListener
  <2>1. UNCHANGED <<ownerVars, tableAlive, poolStopping, pc>>
    BY <1>1 DEF ServeListener, threadVars, taskVars, handlerVars
  <2>2. /\ loop[Listener] = "wait" /\ loop'[Listener] # "none"
        /\ \A w \in Workers : loop'[w] = loop[w]
    BY <1>1, LifecycleAssumption DEF ServeListener, Awake, AtTest
  <2> QED
    BY <2>1, <2>2 DEF OwnerInv, AfterPool, AllMade, ownerVars
<1>2. CASE AcceptBegins \/ AcceptEnds \/ AcceptFails
  <2>1. UNCHANGED <<ownerVars, tableAlive, poolStopping, listening, pc>>
    BY <1>2 DEF AcceptBegins, AcceptEnds, AcceptFails, listenVars, threadVars, taskVars, handlerVars
  <2>2. /\ loop[Listener] \in {"wait", "accept"}
        /\ \E place \in {"accept", "wait", "ended"} : loop' = [loop EXCEPT ![Listener] = place]
    BY <1>2 DEF AcceptBegins, AcceptEnds, AcceptFails, AtTest
  <2> QED
    BY <2>1, <2>2, OwnerStays
<1>3. ASSUME NEW h \in Handlers, Accept(h) PROVE OwnerInv'
  BY <1>3, OwnerStays DEF Accept, loopVars
<1>4. CASE RemoteConnects
  BY <1>4, OwnerStays DEF RemoteConnects, loopVars, threadVars, taskVars, handlerVars
<1> QED
  BY <1>1, <1>2, <1>3, <1>4 DEF ListenStep

LEMMA ThreadKeepsOwnerInv ==
  ASSUME Types, OwnerInv, NEW t \in Threads,
         \/ ThreadStep(t) \/ HandshakeStep(t)
         \/ t \in Users /\ (Disconnect(t) \/ \E h \in Handlers : Dial(t, h))
         \/ \E h \in Handlers : TakeTask(t, h)
  PROVE  OwnerInv'
<1> USE DEF Goto, Return, Begin, Types, ThreadTypes
<1>1. CASE \E what : Fault(what)
  BY <1>1, FaultKeepsOwnerInv
<1>2. CASE ~\E what : Fault(what)
  <2>1. /\ UNCHANGED <<ownerVars, tableAlive, poolStopping, listening, loop>>
        /\ \E label : Goto(t, label)
        /\ pc[t] # "idle" \/ ~poolStopping \/ t \in Users
    <3> USE <1>2 DEF Meets, Delete, loopVars, listenVars, threadVars, taskVars, handlerVars
    <3>1. CASE HandshakeStep(t)
      BY <3>1 DEF HandshakeStep, HandshakeFails, LogicConnectTests
    <3>2. CASE LogicConnectPuts(t) \/ FailsLate(t) \/ StackConnect(t)
      BY <3>2 DEF LogicConnectPuts, FailsLate, StackConnect
    <3>3. CASE MoveIndex(t) \/ WrapIndex(t) \/ AddEvent(t)
      BY <3>3 DEF MoveIndex, WrapIndex, AddEvent
    <3>4. CASE DisconnectRemoves(t) \/ DisconnectDrops(t) \/ DisconnectCounts(t)
      BY <3>4 DEF DisconnectRemoves, DisconnectDrops, DisconnectCounts
    <3>5. CASE t \in Users /\ (Disconnect(t) \/ \E h \in Handlers : Dial(t, h))
      BY <3>5 DEF Disconnect, Dial
    <3>6. CASE \E h \in Handlers : TakeTask(t, h)
      BY <3>6 DEF TakeTask
    <3> QED
      BY <3>1, <3>2, <3>3, <3>4, <3>5, <3>6 DEF ThreadStep
  <2>2. \A v \in Pool : pc'[v] # "idle" => pc[v] # "idle" \/ ~poolStopping
    BY <2>1, LifecycleAssumption DEF Threads
  <2> QED
    BY <2>1, <2>2, OwnerStays
<1> QED
  BY <1>1, <1>2
-----------------------------------------------------------------------------
(* The backlog.                                                            *)
LEMMA BacklogStays ==
  ASSUME NoConnectionForgotten, UNCHANGED <<pending, listening, edge, leftBehind>>,
         loop'[Listener] = "wait" => loop[Listener] = "wait"
  PROVE  NoConnectionForgotten'
BY DEF NoConnectionForgotten

LEMMA NextForgetsNoConnection ==
  ASSUME Types, OwnerInv, NoConnectionForgotten, [Next]_vars
  PROVE  NoConnectionForgotten'
<1> USE DEF Types, LoopTypes, Loops
<1>1. CASE Start \/ StartManager \/ Stop \/ StopManager \/ ListenFails \/ Resize \/ WakeListener
           \/ WakeWorker \/ JoinPool \/ ResetTable \/ StopAfterFailure \/ UNCHANGED vars
  BY <1>1, BacklogStays
     DEF Start, StartManager, Stop, StopManager, ListenFails, Resize, WakeListener, WakeWorker,
         JoinPool, ResetTable, StopAfterFailure, Fault, vars, loopVars, listenVars
<1>2. CASE StartListener
  BY <1>2 DEF StartListener, Owner, OwnerInv, NoConnectionForgotten, listenVars
<1>3. CASE StartWorker \/ JoinWorker
  <2>1. /\ turn \in Workers /\ turn # Listener /\ UNCHANGED listenVars
        /\ loop' = loop \/ loop' = [loop EXCEPT ![turn] = "wait"]
    BY <1>3, LifecycleAssumption
       DEF StartWorker, JoinWorker, NextWorker, RunLoop, OwnerTypes
  <2> QED
    BY <2>1, BacklogStays DEF listenVars
<1>4. CASE JoinListener
  BY <1>4 DEF JoinListener, NoConnectionForgotten
<1>5. ASSUME NEW w \in Workers, LoopStep(w) PROVE NoConnectionForgotten'
  <2>1. /\ w # Listener /\ UNCHANGED listenVars
        /\ loop' = loop \/ \E place : loop' = [loop EXCEPT ![w] = place]
    BY <1>5, LifecycleAssumption
       DEF LoopStep, ServeLists, FinishTests, FinishRemoves, FinishDrops, FinishCounts,
           FinishEnds, Awake, AtTest, Fault, loopVars
  <2> QED
    BY <2>1, BacklogStays DEF listenVars
<1>6. CASE ServeListener
  BY <1>6 DEF ServeListener, Awake, NoConnectionForgotten
<1>7. CASE AcceptBegins
  BY <1>7 DEF AcceptBegins, NoConnectionForgotten
<1>8. CASE AcceptEnds
  BY <1>8 DEF AcceptEnds, NoConnectionForgotten, listenVars
<1>9. CASE AcceptFails
  BY <1>9 DEF AcceptFails, NoConnectionForgotten
<1>10. ASSUME NEW h \in Handlers, Accept(h) PROVE NoConnectionForgotten'
  BY <1>10 DEF Accept, NoConnectionForgotten, loopVars
<1>11. CASE RemoteConnects
  BY <1>11 DEF RemoteConnects, NoConnectionForgotten, loopVars, Types, ListenTypes
<1>12. ASSUME NEW t \in Threads,
              \/ ThreadStep(t) \/ HandshakeStep(t)
              \/ Disconnect(t) \/ \E h \in Handlers : TakeTask(t, h) \/ Dial(t, h)
       PROVE  NoConnectionForgotten'
  <2>1. UNCHANGED <<listenVars, loop>>
    BY <1>12 DEF ThreadStep, HandshakeStep, TakeTask, Dial, Disconnect, HandshakeFails,
                 LogicConnectTests, LogicConnectPuts, FailsLate, StackConnect, MoveIndex,
                 WrapIndex, AddEvent, DisconnectRemoves, DisconnectDrops, DisconnectCounts,
                 Meets, Fault, loopVars
  <2> QED
    BY <2>1, BacklogStays DEF listenVars
<1> QED
  BY <1>1, <1>2, <1>3, <1>4, <1>5, <1>6, <1>7, <1>8, <1>9, <1>10, <1>11, <1>12
     DEF Next, Calls, OwnerStep, ListenStep, Threads

-----------------------------------------------------------------------------
(* What the threads of the service meet.                                   *)
LEMMA SafeStays ==
  ASSUME OwnThreadsAreSafe, fault = "none", UNCHANGED late,
         fault' \in {"none", "stop without start", "user", "no worker yet", "no such worker",
                     "deleted handler"}
  PROVE  OwnThreadsAreSafe'
BY DEF OwnThreadsAreSafe

\* Only a user's thread is still there when something has been taken away.
LEMMA OnlyUsersMeet ==
  ASSUME OwnerInv, NEW t \in Threads, pc[t] # "idle",
         ~tableAlive \/ \E w \in Workers : slot[w] = "deleted"
  PROVE  t \in Users
BY DEF OwnerInv, AfterPool, Threads

LEMMA LateGrows ==
  ASSUME OwnThreadsAreSafe, fault = "none", UNCHANGED fault
  PROVE  OwnThreadsAreSafe'
BY DEF OwnThreadsAreSafe

LEMMA NextIsSafe ==
  ASSUME Types, OwnerInv, LiveInv, OwnThreadsAreSafe, [Next]_vars
  PROVE  OwnThreadsAreSafe'
<1>0. CASE UNCHANGED vars
  BY <1>0 DEF vars, handlerVars, history, OwnThreadsAreSafe
<1> SUFFICES ASSUME Next PROVE OwnThreadsAreSafe'
  BY <1>0
<1>n. fault = "none"
  BY DEF Next
<1>1. CASE UNCHANGED fault
  BY <1>n, <1>1, LateGrows
<1>2. CASE StopAfterFailure
  BY <1>n, <1>2, SafeStays DEF StopAfterFailure, Fault, handlerVars, history
<1>3. CASE ResetTable
  <2>1. CASE \E h \in table : life[h] = "freed"
    BY <1>3, <2>1 DEF ResetTable, Fault, LiveInv, OwnThreadsAreSafe, handlerVars, history
  <2>2. CASE ~\E h \in table : life[h] = "freed"
    BY <1>3, <1>1, <2>2 DEF ResetTable
  <2> QED
    BY <2>1, <2>2
<1>4. ASSUME NEW w \in Workers, LoopStep(w) PROVE OwnThreadsAreSafe'
  <2>1. CASE ServeLists(w)
    BY <1>1, <1>n, <2>1, SafeStays DEF ServeLists, Fault, handlerVars, history
  <2>2. CASE FinishTests(w)
    BY <1>1, <1>n, <2>2, SafeStays DEF FinishTests, Fault, handlerVars, history
  <2>3. CASE FinishRemoves(w)
    <3>1. tableAlive
      BY <2>3 DEF FinishRemoves, OwnerInv
    <3> QED
      BY <1>1, <2>3, <3>1 DEF FinishRemoves
  <2> QED
    BY <1>1, <1>4, <2>1, <2>2, <2>3 DEF LoopStep, FinishDrops, FinishCounts
<1>5. ASSUME NEW t \in Threads, ThreadStep(t) PROVE OwnThreadsAreSafe'
  <2>1. ASSUME NEW what, pc[t] # "idle", Meets(t, what),
               \/ what \in {"no worker yet", "no such worker", "deleted handler"}
               \/ ~tableAlive
               \/ \E w \in Workers : slot[w] = "deleted"
        PROVE  OwnThreadsAreSafe'
    <3>1. /\ fault' \in {"user", "no worker yet", "no such worker", "deleted handler"}
          /\ UNCHANGED late
      BY <2>1, OnlyUsersMeet DEF Meets, Fault, handlerVars, history
    <3> QED
      BY <1>n, <3>1, SafeStays
  <2>2. CASE LogicConnectPuts(t)
    BY <1>1, <2>1, <2>2 DEF LogicConnectPuts
  <2>3. CASE StackConnect(t) \/ FailsLate(t) \/ MoveIndex(t) \/ WrapIndex(t)
    BY <1>1, <2>3 DEF StackConnect, FailsLate, MoveIndex, WrapIndex
  <2>4. CASE AddEvent(t)
    BY <1>1, <2>1, <2>4 DEF AddEvent
  <2>5. CASE DisconnectRemoves(t)
    BY <1>1, <2>1, <2>5 DEF DisconnectRemoves
  <2>6. CASE DisconnectDrops(t)
    BY <1>1, <2>1, <2>6 DEF DisconnectDrops
  <2>7. CASE DisconnectCounts(t)
    <3>1. at[t] \in Handlers
      BY <2>7 DEF DisconnectCounts, Types, ThreadTypes
    <3>2. own[at[t]] \in Workers \cup {NoThread}
      BY <3>1 DEF Types, HandlerTypes
    <3> QED
      BY <1>1, <2>1, <2>7, <3>2 DEF DisconnectCounts
  <2> QED
    BY <1>5, <2>2, <2>3, <2>4, <2>5, <2>6, <2>7 DEF ThreadStep
<1>6. CASE Start \/ Stop \/ (OwnerStep /\ ~ResetTable) \/ ListenStep \/ RemoteConnects
  BY <1>1, <1>6
     DEF Start, Stop, OwnerStep, StartManager, StartListener, ListenFails, Resize, StartWorker,
         StopManager, WakeListener, JoinListener, JoinPool, WakeWorker, JoinWorker, NextWorker,
         ListenStep, ServeListener, AcceptBegins, AcceptEnds, AcceptFails, Accept, RemoteConnects
<1>7. ASSUME NEW t \in Threads,
             \/ HandshakeStep(t) \/ Disconnect(t)
             \/ \E h \in Handlers : TakeTask(t, h) \/ Dial(t, h)
      PROVE  OwnThreadsAreSafe'
  BY <1>1, <1>7 DEF HandshakeStep, HandshakeFails, LogicConnectTests, TakeTask, Dial, Disconnect
<1> QED
  BY <1>2, <1>3, <1>4, <1>5, <1>6, <1>7 DEF Next, Calls, Threads
-----------------------------------------------------------------------------
(* Handlers and who may find them.                                         *)
Others(t, places) == {at[v] : v \in {u \in Threads \ {t} : pc[u] \in places}}
OtherLoops(w, places) == {fin[x] : x \in {y \in Workers \ {w} : loop[y] \in places}}

\* The three sets of threads, for one that is somewhere, and that goes somewhere.
LEMMA ThreadIs ==
  ASSUME NEW t \in Threads
  PROVE  /\ pc[t] \in {"idle", "disconnect"} =>
              /\ Shaking = Others(t, Early) /\ Going = Others(t, Late)
              /\ At(Giving) = Others(t, Giving)
         /\ pc[t] \in {"shake", "put"} =>
              /\ Shaking = Others(t, Early) \cup {at[t]} /\ Going = Others(t, Late)
              /\ At(Giving) = Others(t, Giving)
         /\ pc[t] \in {"stack", "add", "wrap", "index"} =>
              /\ Shaking = Others(t, Early) /\ Going = Others(t, Late) \cup {at[t]}
              /\ At(Giving) = Others(t, Giving)
         /\ pc[t] \in {"drop", "count"} =>
              /\ Shaking = Others(t, Early) /\ Going = Others(t, Late) \cup {at[t]}
              /\ At(Giving) = Others(t, Giving) \cup {at[t]}
<1>1. /\ pc[t] \in Early => Shaking = Others(t, Early) \cup {at[t]}
      /\ pc[t] \notin Early => Shaking = Others(t, Early)
  BY DEF At, Others, Shaking
<1>2. /\ pc[t] \in Late => Going = Others(t, Late) \cup {at[t]}
      /\ pc[t] \notin Late => Going = Others(t, Late)
  BY DEF At, Others, Going
<1>3. /\ pc[t] \in Giving => At(Giving) = Others(t, Giving) \cup {at[t]}
      /\ pc[t] \notin Giving => At(Giving) = Others(t, Giving)
  BY DEF At, Others
<1> QED
  BY <1>1, <1>2, <1>3 DEF Early, Late, Giving

LEMMA ThreadGoes ==
  ASSUME ThreadTypes, NEW t \in Threads, NEW label, Goto(t, label),
         NEW h, at' = [at EXCEPT ![t] = h]
  PROVE  /\ label \in {"idle", "disconnect"} =>
              /\ Shaking' = Others(t, Early) /\ Going' = Others(t, Late)
              /\ At(Giving)' = Others(t, Giving)
         /\ label \in {"shake", "put"} =>
              /\ Shaking' = Others(t, Early) \cup {h} /\ Going' = Others(t, Late)
              /\ At(Giving)' = Others(t, Giving)
         /\ label \in {"stack", "add", "wrap", "index"} =>
              /\ Shaking' = Others(t, Early) /\ Going' = Others(t, Late) \cup {h}
              /\ At(Giving)' = Others(t, Giving)
         /\ label \in {"drop", "count"} =>
              /\ Shaking' = Others(t, Early) /\ Going' = Others(t, Late) \cup {h}
              /\ At(Giving)' = Others(t, Giving) \cup {h}
<1>0. /\ pc'[t] = label /\ at'[t] = h
      /\ \A v \in Threads \ {t} : pc'[v] = pc[v] /\ at'[v] = at[v]
  BY DEF ThreadTypes, Goto
<1>1. /\ label \in Early => Shaking' = Others(t, Early) \cup {h}
      /\ label \notin Early => Shaking' = Others(t, Early)
  BY <1>0 DEF At, Others, Shaking
<1>2. /\ label \in Late => Going' = Others(t, Late) \cup {h}
      /\ label \notin Late => Going' = Others(t, Late)
  BY <1>0 DEF At, Others, Going
<1>3. /\ label \in Giving => At(Giving)' = Others(t, Giving) \cup {h}
      /\ label \notin Giving => At(Giving)' = Others(t, Giving)
  BY <1>0 DEF At, Others
<1> QED
  BY <1>1, <1>2, <1>3 DEF Early, Late, Giving

LEMMA ThreadsApart ==
  ASSUME ThreadTypes, NewInv, NEW t \in Threads, NEW label, Goto(t, label),
         NEW h, at' = [at EXCEPT ![t] = h],
         label \in Early => h \notin Others(t, Early)
  PROVE  Apart'
<1>1. /\ pc'[t] = label /\ at'[t] = h
      /\ \A v \in Threads \ {t} : pc'[v] = pc[v] /\ at'[v] = at[v]
  BY DEF ThreadTypes, Goto
<1> QED
  BY <1>1 DEF NewInv, Apart, Others

LEMMA EarlyIsAlone ==
  ASSUME NewInv, NEW t \in Threads, pc[t] \in Early
  PROVE  /\ at[t] \notin Others(t, Early)
         /\ at[t] \in Shaking
BY DEF NewInv, Apart, Others, At, Shaking

LEMMA ThreadsStay ==
  ASSUME UNCHANGED <<pc, at>>
  PROVE  /\ UNCHANGED <<Shaking, Going>> /\ At(Giving)' = At(Giving)
         /\ Apart => Apart'
BY DEF Shaking, Going, At, Apart

\* The same of a worker and the handler that it finishes.
LEMMA WorkerIs ==
  ASSUME LoopTypes, NEW w \in Workers, NEW places,
         \A x \in Workers \ {w} : loop'[x] = loop[x] /\ fin'[x] = fin[x]
  PROVE  /\ loop[w] \in places => Finishing(places) = OtherLoops(w, places) \cup {fin[w]}
         /\ loop[w] \notin places => Finishing(places) = OtherLoops(w, places)
         /\ loop'[w] \in places => Finishing(places)' = OtherLoops(w, places) \cup {fin'[w]}
         /\ loop'[w] \notin places => Finishing(places)' = OtherLoops(w, places)
BY DEF Finishing, OtherLoops

LEMMA LoopsStay ==
  ASSUME UNCHANGED <<loop, fin>>
  PROVE  /\ Finishing(Giving)' = Finishing(Giving) /\ Finishing(Ending)' = Finishing(Ending)
BY DEF Finishing

LEMMA ListsStay ==
  ASSUME UNCHANGED <<addQ, delQ, epoll>>
  PROVE  UNCHANGED <<Deleting, Watched>>
BY DEF Deleting, Watched

LEMMA DeletingGrows ==
  ASSUME LoopTypes, NEW w \in Workers, NEW h, delQ' = [delQ EXCEPT ![w] = delQ[w] \cup {h}]
  PROVE  Deleting' = Deleting \cup {h}
<1>1. delQ'[w] = delQ[w] \cup {h} /\ \A x \in Workers \ {w} : delQ'[x] = delQ[x]
  BY DEF LoopTypes
<1> QED
  BY <1>1 DEF Deleting

\* A handler whose count has been read is on a delete list, or left.
LEMMA CountedIsKept ==
  ASSUME LoopTypes, HandlerTypes, NEW h \in Handlers, ReadCount(h), UNCHANGED dropped
  PROVE  /\ Deleting \subseteq Deleting' /\ Deleting' \subseteq Deleting \cup {h}
         /\ Deleting' \cup Left' = Deleting \cup Left \cup {h}
<1>1. /\ \/ UNCHANGED delQ /\ h \in uncounted' \cup orphans'
         \/ \E o \in Workers : delQ' = [delQ EXCEPT ![o] = delQ[o] \cup {h}]
      /\ uncounted \subseteq uncounted' /\ orphans \subseteq orphans'
      /\ uncounted' \subseteq uncounted \cup {h} /\ orphans' \subseteq orphans \cup {h}
  BY Counted
<1>2. \/ Deleting' = Deleting /\ h \in uncounted' \cup orphans'
      \/ Deleting' = Deleting \cup {h}
  <2>1. CASE UNCHANGED delQ /\ h \in uncounted' \cup orphans'
    BY <2>1 DEF Deleting
  <2>2. ASSUME NEW o \in Workers, delQ' = [delQ EXCEPT ![o] = delQ[o] \cup {h}]
        PROVE  Deleting' = Deleting \cup {h}
    BY <2>2, DeletingGrows
  <2> QED
    BY <1>1, <2>1, <2>2
<1> QED
  BY <1>1, <1>2 DEF Left

\* A step that makes no handler and deletes none: who has one may pass it on.
LEMMA HandlersMove ==
  ASSUME NewInv, LiveInv, Apart', UNCHANGED <<tasks, life, late, Shaking>>,
         table' \subseteq table, Known' \subseteq Known, table' \cap Doomed' = {},
         table \cup Doomed \cup Left \subseteq table' \cup Doomed' \cup Left',
         owner' = "stopped" => owner = "stopped"
  PROVE  NewInv' /\ LiveInv'
<1>1. UNCHANGED Unborn
  BY DEF Unborn
<1>2. NewInv'
  BY <1>1 DEF NewInv
<1>3. LiveInv'
  BY DEF LiveInv
<1> QED
  BY <1>2, <1>3

LEMMA HandlersStay ==
  ASSUME NewInv, LiveInv,
         UNCHANGED <<delQ, tasks, pc, at, life, table, history>>,
         Watched' \subseteq Watched,
         Finishing(Giving)' = Finishing(Giving), Finishing(Ending)' = Finishing(Ending),
         owner' = "stopped" => owner = "stopped"
  PROVE  NewInv' /\ LiveInv'
<1>1. UNCHANGED <<Deleting, Left, late>>
  BY DEF Deleting, Left, history
<1>2. /\ UNCHANGED <<Shaking, Going>> /\ At(Giving)' = At(Giving) /\ Apart'
  BY ThreadsStay DEF NewInv
<1>3. Known' \subseteq Known /\ Doomed' = Doomed
  BY <1>1, <1>2 DEF Known, Doomed
<1>4. table' \cap Doomed' = {}
  BY <1>3 DEF LiveInv
<1> QED
  BY <1>1, <1>2, <1>3, <1>4, HandlersMove

-----------------------------------------------------------------------------
(* Threads, step by step.                                                  *)
LEMMA HandshakeBegins ==
  ASSUME Types, NewInv, LiveInv, NEW t \in Threads, NEW h \in Handlers,
         TakeTask(t, h) \/ Dial(t, h)
  PROVE  NewInv' /\ LiveInv'
<1>1. /\ pc[t] = "idle" /\ Goto(t, "shake") /\ at' = [at EXCEPT ![t] = h]
      /\ UNCHANGED <<loopVars, table, history, owner>>
  BY DEF TakeTask, Dial, Begin, handlerVars, ownerVars
<1>2. /\ \/ h \in tasks /\ tasks' = tasks \ {h} /\ UNCHANGED life
         \/ h \in Unborn /\ tasks' = tasks /\ life' = [life EXCEPT ![h] = "live"]
      /\ life'[h] = "live" /\ \A g \in Handlers \ {h} : life'[g] = life[g]
  BY DEF TakeTask, Dial, Fresh, handlerVars, taskVars, Types, HandlerTypes, NewInv
<1>3. /\ Shaking = Others(t, Early) /\ Shaking' = Others(t, Early) \cup {h}
      /\ Going' = Going /\ At(Giving)' = At(Giving)
  <2>1. ThreadTypes
    BY DEF Types
  <2>2. /\ Shaking = Others(t, Early) /\ Going = Others(t, Late)
        /\ At(Giving) = Others(t, Giving)
    BY <1>1, ThreadIs
  <2>3. /\ Shaking' = Others(t, Early) \cup {h} /\ Going' = Others(t, Late)
        /\ At(Giving)' = Others(t, Giving)
    BY <1>1, <2>1, ThreadGoes
  <2> QED
    BY <2>2, <2>3
<1>4. h \notin Known /\ h \notin Shaking
  <2>1. CASE h \in tasks
    BY <2>1 DEF NewInv
  <2>2. CASE h \in Unborn
    BY <2>2 DEF NewInv, Unborn
  <2> QED
    BY <1>2, <2>1, <2>2
<1>5. Apart'
  BY <1>1, <1>3, <1>4, ThreadsApart DEF Types
<1>6. Known' = Known /\ Doomed' = Doomed /\ Left' = Left
  BY <1>1, <1>3, ListsStay, LoopsStay DEF Known, Doomed, Left, loopVars, history
<1>7. Unborn' = Unborn \ {h}
  BY <1>2 DEF Unborn
<1>8. Shaking \subseteq Handlers /\ tasks \subseteq Handlers
  BY DEF At, Shaking, Early, Types, ThreadTypes
<1>9. NewInv'
  BY <1>1, <1>2, <1>3, <1>4, <1>5, <1>6, <1>7, <1>8 DEF NewInv
<1>10. LiveInv'
  <2>1. table \subseteq Handlers /\ h \notin table
    BY <1>4 DEF Types, HandlerTypes, Known
  <2> QED
    BY <1>1, <1>2, <1>3, <1>6, <2>1 DEF LiveInv, history
<1> QED
  BY <1>9, <1>10

LEMMA HandshakeTested ==
  ASSUME Types, NewInv, LiveInv, NEW t \in Threads, LogicConnectTests(t)
  PROVE  NewInv' /\ LiveInv'
<1>1. /\ pc[t] = "shake" /\ Goto(t, "put") /\ at' = [at EXCEPT ![t] = at[t]]
      /\ UNCHANGED <<loopVars, tasks, life, table, history, owner>>
  BY DEF LogicConnectTests, handlerVars, ownerVars, taskVars, Types, ThreadTypes
<1>2. Shaking' = Shaking /\ Going' = Going /\ At(Giving)' = At(Giving)
  <2>1. ThreadTypes
    BY DEF Types
  <2> QED
    BY <1>1, <2>1, ThreadIs, ThreadGoes
<1>3. Apart'
  BY <1>1, ThreadsApart, EarlyIsAlone DEF Types, Early
<1>4. Known' = Known /\ Doomed' = Doomed /\ Left' = Left
  BY <1>1, <1>2, ListsStay, LoopsStay DEF Known, Doomed, Left, loopVars, history
<1>5. table' \cap Doomed' = {} /\ UNCHANGED late
  BY <1>1, <1>4 DEF LiveInv, history
<1> QED
  BY <1>1, <1>2, <1>3, <1>4, <1>5, HandlersMove

\* The handshake fails, early or late, or the table refuses the handler.
LEMMA HandshakeEndsBadly ==
  ASSUME Types, NewInv, LiveInv, NEW t \in Threads, pc[t] \in {"shake", "put", "stack"},
         Delete(t), UNCHANGED <<loopVars, tasks, table, orphans, uncounted, dropped, owner>>,
         late' = late \/ late' = late \cup {at[t]}, pc[t] = "stack" => at[t] \in late'
  PROVE  NewInv' /\ LiveInv'
<1>1. /\ Goto(t, "idle") /\ at' = [at EXCEPT ![t] = None]
      /\ life' = [life EXCEPT ![at[t]] = "freed"]
  BY DEF Delete, Return
<1>2. at[t] \in Handlers /\ life'[at[t]] = "freed"
      /\ \A g \in Handlers \ {at[t]} : life'[g] = life[g]
  BY <1>1 DEF Types, ThreadTypes, HandlerTypes
<1>3. /\ Shaking' = Others(t, Early) /\ Going' = Others(t, Late)
      /\ At(Giving)' = At(Giving)
      /\ Shaking \subseteq Others(t, Early) \cup {at[t]}
      /\ pc[t] = "stack" => at[t] \in Going
      /\ Others(t, Early) \subseteq Shaking /\ Others(t, Late) \subseteq Going
  <2>1. ThreadTypes
    BY DEF Types
  <2>2. /\ Shaking' = Others(t, Early) /\ Going' = Others(t, Late)
        /\ At(Giving)' = Others(t, Giving)
    BY <1>1, <2>1, ThreadGoes
  <2> QED
    BY <2>2, ThreadIs
<1>4. Apart'
  <2>1. ThreadTypes /\ "idle" \notin Early
    BY DEF Types, Early
  <2> QED
    BY <1>1, <2>1, ThreadsApart
<1>5. at[t] \notin tasks /\ at[t] \notin Others(t, Early)
  <2>1. CASE pc[t] \in {"shake", "put"}
    BY <2>1, EarlyIsAlone DEF NewInv, Early
  <2>2. CASE pc[t] = "stack"
    BY <1>3, <2>2 DEF NewInv, Known
  <2> QED
    BY <2>1, <2>2
<1>6. Known' \subseteq Known /\ Doomed' = Doomed /\ Left' = Left /\ Unborn' \subseteq Unborn
  BY <1>1, <1>2, <1>3, ListsStay, LoopsStay DEF Known, Doomed, Left, Unborn, loopVars
<1>7. tasks \subseteq Handlers /\ Shaking \subseteq Handlers /\ table \subseteq Handlers
  BY DEF At, Shaking, Early, Types, ThreadTypes, HandlerTypes
<1>8. NewInv'
  BY <1>2, <1>3, <1>4, <1>5, <1>6, <1>7 DEF NewInv
<1>9. at[t] \in table => at[t] \in late'
  <2>1. CASE pc[t] \in {"shake", "put"}
    BY <2>1, EarlyIsAlone DEF NewInv, Known, Early
  <2> QED
    BY <2>1
<1>10. LiveInv'
  <2>1. ASSUME NEW g \in Handlers, life'[g] = "live"
        PROVE  g \in tasks' \cup Shaking' \cup table' \cup Doomed' \cup Left'
    BY <1>2, <1>3, <1>6, <2>1 DEF LiveInv
  <2>2. \A g \in table' : life'[g] = "freed" => g \in late'
    BY <1>2, <1>7, <1>9 DEF LiveInv
  <2> QED
    BY <1>6, <2>1, <2>2 DEF LiveInv
<1> QED
  BY <1>8, <1>10

\* The handler is put in the table, and is known from then on.
LEMMA HandshakeKnown ==
  ASSUME Types, OwnerInv, NewInv, LiveInv, NEW t \in Threads, pc[t] = "put", Goto(t, "stack"),
         table' = table \cup {at[t]}, tableAlive,
         UNCHANGED <<loopVars, at, tasks, life, history, owner>>
  PROVE  NewInv' /\ LiveInv'
<1>0. /\ ThreadTypes /\ "stack" \notin Early /\ at' = [at EXCEPT ![t] = at[t]]
  BY DEF Types, ThreadTypes, Early
<1>2. /\ Shaking = Others(t, Early) \cup {at[t]} /\ Shaking' = Others(t, Early)
      /\ Going' = Going \cup {at[t]} /\ At(Giving)' = At(Giving)
  <2>1. /\ Shaking = Others(t, Early) \cup {at[t]} /\ Going = Others(t, Late)
        /\ At(Giving) = Others(t, Giving)
    BY ThreadIs
  <2>2. /\ Shaking' = Others(t, Early) /\ Going' = Others(t, Late) \cup {at[t]}
        /\ At(Giving)' = Others(t, Giving)
    BY <1>0, ThreadGoes
  <2> QED
    BY <2>1, <2>2
<1>3. Apart'
  BY <1>0, ThreadsApart
<1>4. at[t] \notin Others(t, Early)
  BY EarlyIsAlone DEF Early
<1>5. at[t] \notin tasks /\ at[t] \notin Known /\ life[at[t]] = "live"
  BY <1>2 DEF NewInv
<1>6. Known' = Known \cup {at[t]} /\ Doomed' = Doomed /\ Left' = Left /\ Unborn' = Unborn
  BY <1>2, ListsStay, LoopsStay DEF Known, Doomed, Left, Unborn, loopVars, history
<1>7. Doomed \subseteq Known
  BY DEF Doomed, Known, Going, At, Late, Giving, Finishing, Ending
<1>8. NewInv'
  BY <1>2, <1>3, <1>4, <1>5, <1>6 DEF NewInv, Unborn
<1>9. LiveInv'
  <2>1. at[t] \notin Doomed /\ owner # "stopped"
    BY <1>5, <1>7 DEF OwnerInv
  <2> QED
    BY <1>2, <1>5, <1>6, <2>1 DEF LiveInv, history
<1> QED
  BY <1>8, <1>9

\* The thread goes on with a handler that is known, or is done with it.
LEMMA KnownGoesOn ==
  ASSUME Types, NewInv, LiveInv, NEW t \in Threads,
         NEW label, Goto(t, label), NEW h, at' = [at EXCEPT ![t] = h],
         \/ /\ pc[t] \in {"stack", "add", "wrap", "index"}
            /\ label = "idle" \/ (label \in {"add", "wrap", "index"} /\ h = at[t])
         \/ pc[t] \in {"idle", "disconnect"} /\ label \in {"idle", "disconnect"}
         \/ pc[t] = "drop" /\ label = "count" /\ h = at[t],
         Watched' \subseteq Watched \cup {at[t]}, pc[t] = "index" \/ Watched' \subseteq Watched,
         UNCHANGED <<loop, fin, delQ, tasks, life, table, history, owner>>
  PROVE  NewInv' /\ LiveInv'
<1>0. ThreadTypes /\ label \notin Early
  BY DEF Types, Early
<1>1. /\ Shaking' = Shaking /\ Going' \subseteq Going /\ At(Giving)' = At(Giving)
      /\ pc[t] = "index" => at[t] \in Going
  <2>1. CASE pc[t] \in {"stack", "add", "wrap", "index"}
    <3>1. /\ Shaking = Others(t, Early) /\ Going = Others(t, Late) \cup {at[t]}
          /\ At(Giving) = Others(t, Giving)
      BY <2>1, ThreadIs
    <3>2. CASE label = "idle"
      <4>1. /\ Shaking' = Others(t, Early) /\ Going' = Others(t, Late)
            /\ At(Giving)' = Others(t, Giving)
        BY <1>0, <3>2, ThreadGoes
      <4> QED
        BY <3>1, <4>1
    <3>3. CASE label \in {"add", "wrap", "index"} /\ h = at[t]
      <4>1. /\ Shaking' = Others(t, Early) /\ Going' = Others(t, Late) \cup {at[t]}
            /\ At(Giving)' = Others(t, Giving)
        BY <1>0, <3>3, ThreadGoes
      <4> QED
        BY <3>1, <4>1
    <3> QED
      BY <2>1, <3>2, <3>3
  <2>2. CASE pc[t] \in {"idle", "disconnect"} /\ label \in {"idle", "disconnect"}
    <3>1. /\ Shaking = Others(t, Early) /\ Going = Others(t, Late)
          /\ At(Giving) = Others(t, Giving)
      BY <2>2, ThreadIs
    <3>2. /\ Shaking' = Others(t, Early) /\ Going' = Others(t, Late)
          /\ At(Giving)' = Others(t, Giving)
      BY <1>0, <2>2, ThreadGoes
    <3> QED
      BY <2>2, <3>1, <3>2
  <2>3. CASE pc[t] = "drop" /\ label = "count" /\ h = at[t]
    BY <1>0, <2>3, ThreadIs, ThreadGoes
  <2> QED
    BY <2>1, <2>2, <2>3
<1>2. Apart'
  BY <1>0, ThreadsApart
<1>3. Known' \subseteq Known /\ Doomed' = Doomed /\ Left' = Left
  BY <1>1, LoopsStay DEF Known, Doomed, Left, Deleting, history
<1>4. table' \cap Doomed' = {} /\ UNCHANGED late
  BY <1>3 DEF LiveInv, history
<1> QED
  BY <1>1, <1>2, <1>3, <1>4, HandlersMove

LEMMA DisconnectFromTable ==
  ASSUME Types, NewInv, LiveInv, NEW t \in Threads, pc[t] = "disconnect",
         NEW h \in table, Goto(t, "drop"), at' = [at EXCEPT ![t] = h], table' = table \ {h},
         UNCHANGED <<loopVars, tasks, life, history, owner>>
  PROVE  NewInv' /\ LiveInv'
<1>0. ThreadTypes /\ "drop" \notin Early
  BY DEF Types, Early
<1>1. Shaking' = Shaking /\ Going' = Going \cup {h} /\ At(Giving)' = At(Giving) \cup {h}
  <2>1. /\ Shaking = Others(t, Early) /\ Going = Others(t, Late)
        /\ At(Giving) = Others(t, Giving)
    BY ThreadIs
  <2>2. /\ Shaking' = Others(t, Early) /\ Going' = Others(t, Late) \cup {h}
        /\ At(Giving)' = Others(t, Giving) \cup {h}
    BY <1>0, ThreadGoes
  <2> QED
    BY <2>1, <2>2
<1>2. Apart'
  BY <1>0, ThreadsApart
<1>3. /\ Known' \subseteq Known /\ Doomed' = Doomed \cup {h} /\ Left' = Left
  BY <1>1, ListsStay, LoopsStay DEF Known, Doomed, Left, loopVars, history
<1>4. table' \cap Doomed' = {} /\ UNCHANGED late
  BY <1>3 DEF LiveInv, history
<1> QED
  BY <1>1, <1>2, <1>3, <1>4, HandlersMove

LEMMA DisconnectEnds ==
  ASSUME Types, NewInv, LiveInv, NEW t \in Threads, pc[t] = "count", ReadCount(at[t]),
         Goto(t, "idle"), at' = [at EXCEPT ![t] = None],
         UNCHANGED <<loop, fin, addQ, epoll, tasks, life, table, late, dropped, owner>>
  PROVE  NewInv' /\ LiveInv'
<1>0. ThreadTypes /\ LoopTypes /\ HandlerTypes /\ "idle" \notin Early /\ at[t] \in Handlers
  BY DEF Types, ThreadTypes, Early
<1>1. /\ Deleting \subseteq Deleting' /\ Deleting' \subseteq Deleting \cup {at[t]}
      /\ Deleting' \cup Left' = Deleting \cup Left \cup {at[t]}
  BY <1>0, CountedIsKept
<1>2. /\ Shaking' = Shaking /\ Going = Others(t, Late) \cup {at[t]} /\ Going' = Others(t, Late)
      /\ At(Giving) = Others(t, Giving) \cup {at[t]} /\ At(Giving)' = Others(t, Giving)
  BY <1>0, ThreadIs, ThreadGoes
<1>3. Apart'
  BY <1>0, ThreadsApart
<1>4. Watched' = Watched
  BY DEF Watched
<1>5. Known' \subseteq Known /\ Doomed' \subseteq Doomed
  BY <1>1, <1>2, <1>4, LoopsStay DEF Known, Doomed
<1>6. Doomed \cup Left \subseteq Doomed' \cup Left'
  BY <1>1, <1>2, LoopsStay DEF Doomed
<1>7. table' \cap Doomed' = {}
  BY <1>5 DEF LiveInv
<1> QED
  BY <1>2, <1>3, <1>5, <1>6, <1>7, HandlersMove

-----------------------------------------------------------------------------
(* The workers and the table, step by step.                                *)
LEMMA ConnectionAccepted ==
  ASSUME Types, NewInv, LiveInv, NEW h \in Handlers, Accept(h)
  PROVE  NewInv' /\ LiveInv'
<1>1. /\ h \in Unborn /\ life' = [life EXCEPT ![h] = "live"] /\ tasks' = tasks \cup {h}
      /\ UNCHANGED <<loopVars, pc, at, table, history, owner>>
  BY DEF Accept, Fresh, ownerVars
<1>2. h \notin Known /\ h \notin Shaking /\ h \notin table
  BY <1>1 DEF NewInv, Unborn, Known
<1>3. /\ UNCHANGED <<Shaking, Going>> /\ At(Giving)' = At(Giving) /\ (Apart => Apart')
      /\ UNCHANGED <<Deleting, Watched>>
      /\ Finishing(Giving)' = Finishing(Giving) /\ Finishing(Ending)' = Finishing(Ending)
  BY <1>1, ThreadsStay, ListsStay, LoopsStay DEF loopVars
<1>4. Known' = Known /\ Doomed' = Doomed /\ Left' = Left /\ UNCHANGED late
  BY <1>1, <1>3 DEF Known, Doomed, Left, history
<1>5. life'[h] = "live" /\ \A g \in Handlers \ {h} : life'[g] = life[g]
  BY <1>1 DEF Types, HandlerTypes
<1>6. Unborn' = Unborn \ {h}
  BY <1>5 DEF Unborn
<1>7. tasks \subseteq Handlers /\ Shaking \subseteq Handlers /\ table \subseteq Handlers
  BY DEF At, Shaking, Early, Types, ThreadTypes, HandlerTypes
<1>8. NewInv'
  BY <1>1, <1>2, <1>3, <1>4, <1>5, <1>6, <1>7 DEF NewInv
<1>9. LiveInv'
  BY <1>1, <1>2, <1>3, <1>4, <1>5, <1>7 DEF LiveInv
<1> QED
  BY <1>8, <1>9

LEMMA ListsServed ==
  ASSUME Types, NewInv, LiveInv, NEW w \in Workers, ServeLists(w), ~\E what : Fault(what)
  PROVE  NewInv' /\ LiveInv'
<1>1. /\ life' = [h \in Handlers |-> IF h \in delQ[w] THEN "freed" ELSE life[h]]
      /\ delQ' = [delQ EXCEPT ![w] = {}] /\ addQ' = [addQ EXCEPT ![w] = {}]
      /\ loop[w] = "wait" /\ \E place \in {"wait", "ended"} : loop' = [loop EXCEPT ![w] = place]
      /\ UNCHANGED <<fin, threadVars, table, history, owner>>
  BY DEF ServeLists, Awake, AtTest, ownerVars
<1>2. Deleting = Deleting' \cup delQ[w] /\ delQ[w] \subseteq Doomed /\ delQ[w] \subseteq Known
  <2>1. delQ'[w] = {} /\ \A x \in Workers \ {w} : delQ'[x] = delQ[x]
    BY <1>1 DEF Types, LoopTypes
  <2>2. Deleting = Deleting' \cup delQ[w]
    BY <2>1 DEF Deleting
  <2> QED
    BY <2>2 DEF Known, Doomed
<1>3. /\ UNCHANGED <<Shaking, Going>> /\ At(Giving)' = At(Giving) /\ (Apart => Apart')
  BY <1>1, ThreadsStay DEF threadVars
<1>4. Watched' \subseteq Watched
  <2>1. PICK refused \in SUBSET {h \in addQ[w] : life'[h] = "freed"} :
           epoll' = [epoll EXCEPT ![w] = (epoll[w] \ delQ[w]) \cup (addQ[w] \ refused)]
    BY DEF ServeLists
  <2>2. /\ epoll'[w] \subseteq epoll[w] \cup addQ[w] /\ addQ'[w] = {}
        /\ \A x \in Workers \ {w} : epoll'[x] = epoll[x] /\ addQ'[x] = addQ[x]
    BY <1>1, <2>1 DEF Types, LoopTypes
  <2>3. \A x \in Workers : addQ'[x] \cup epoll'[x] \subseteq addQ[x] \cup epoll[x]
    BY <2>2
  <2> QED
    BY <2>3 DEF Watched
<1>5. Finishing(Giving)' = Finishing(Giving) /\ Finishing(Ending)' = Finishing(Ending)
  <2>1. loop'[w] \in {"wait", "ended"} /\ \A x \in Workers \ {w} : loop'[x] = loop[x]
    BY <1>1 DEF Types, LoopTypes, Loops
  <2>2. loop[w] \notin Giving /\ loop[w] \notin Ending /\ loop'[w] \notin Giving
        /\ loop'[w] \notin Ending
    BY <1>1, <2>1 DEF Giving, Ending
  <2> QED
    BY <1>1, <2>1, <2>2, WorkerIs DEF Types
<1>6. Known' \subseteq Known /\ Doomed = Doomed' \cup delQ[w] /\ Left' = Left
      /\ UNCHANGED <<tasks, late>>
  BY <1>1, <1>2, <1>3, <1>4, <1>5 DEF Known, Doomed, Left, history, threadVars, taskVars
<1>7. \A h \in Handlers : life'[h] = IF h \in delQ[w] THEN "freed" ELSE life[h]
  BY <1>1
<1>8. tasks \subseteq Handlers /\ Shaking \subseteq Handlers /\ table \subseteq Handlers
  BY DEF At, Shaking, Early, Types, ThreadTypes, HandlerTypes
<1>9. Unborn' \subseteq Unborn
  BY <1>7 DEF Unborn
<1>10. NewInv'
  BY <1>1, <1>2, <1>3, <1>6, <1>7, <1>8, <1>9 DEF NewInv
<1>11. LiveInv'
  <2>1. \A h \in table' : life'[h] = "freed" => h \in late'
    BY <1>1, <1>2, <1>6, <1>7, <1>8 DEF LiveInv
  <2>2. ASSUME NEW h \in Handlers, life'[h] = "live"
        PROVE  h \in tasks' \cup Shaking' \cup table' \cup Doomed' \cup Left'
    BY <1>1, <1>3, <1>6, <1>7, <2>2 DEF LiveInv
  <2> QED
    BY <1>1, <1>3, <1>6, <2>1, <2>2 DEF LiveInv
<1> QED
  BY <1>10, <1>11

\* What a step of on_finish leaves alone.
LEMMA FinishMoves ==
  ASSUME Types, NewInv, LiveInv, NEW w \in Workers,
         \A x \in Workers \ {w} : loop'[x] = loop[x] /\ fin'[x] = fin[x],
         UNCHANGED <<owner, addQ, epoll, threadVars, life, late>>,
         loop[w] \in Ending \/ fin'[w] \in epoll[w] \/ loop'[w] \notin Ending,
         loop[w] \in Ending /\ loop'[w] \in Ending => fin'[w] = fin[w],
         loop[w] \notin Giving \/ loop'[w] \in Giving \/ fin[w] \in Deleting' \cup Left',
         loop'[w] \in Giving => loop[w] \in Ending /\ fin[w] \notin table',
         Deleting \subseteq Deleting',
         Deleting' = Deleting \/ (loop[w] \in Giving /\ Deleting' \subseteq Deleting \cup {fin[w]}),
         table' \subseteq table,
         Left \subseteq Left',
         \A g \in table \ table' : g \in Left' \/ (g = fin[w] /\ loop'[w] \in Giving)
  PROVE  NewInv' /\ LiveInv'
<1>1. /\ UNCHANGED <<Shaking, Going, Watched>> /\ At(Giving)' = At(Giving) /\ Apart'
  BY ThreadsStay DEF Watched, NewInv, threadVars
<1>2. /\ Finishing(Ending)' \subseteq Finishing(Ending) \cup Watched
      /\ loop[w] \in Ending => fin[w] \in Finishing(Ending)
  <2>1. epoll[w] \subseteq Watched
    BY DEF Watched
  <2> QED
    BY <2>1, WorkerIs DEF Types
<1>3. /\ Finishing(Giving) \subseteq Finishing(Giving)' \cup {fin[w]}
      /\ Finishing(Giving)' \subseteq Finishing(Giving) \cup {fin[w]}
      /\ loop[w] \in Giving => fin[w] \in Finishing(Giving)
      /\ loop'[w] \in Giving => fin[w] \in Finishing(Giving)'
      /\ loop[w] \notin Giving => Finishing(Giving) \subseteq Finishing(Giving)'
      /\ loop'[w] \notin Giving => Finishing(Giving)' \subseteq Finishing(Giving)
  <2>1. Giving \subseteq Ending
    BY DEF Giving, Ending
  <2> QED
    BY <2>1, WorkerIs DEF Types
<1>4. Giving \subseteq Ending
  BY DEF Giving, Ending
<1>5. Known' \subseteq Known
  BY <1>1, <1>2, <1>4 DEF Known
<1>6. table' \cap Doomed' = {}
  <2>1. CASE loop'[w] \in Giving
    BY <1>1, <1>3, <2>1 DEF LiveInv, Doomed
  <2>2. CASE loop'[w] \notin Giving
    BY <1>1, <1>3, <2>2 DEF LiveInv, Doomed
  <2> QED
    BY <2>1, <2>2
<1>7. table \cup Doomed \cup Left \subseteq table' \cup Doomed' \cup Left'
  BY <1>1, <1>3 DEF Doomed
<1> QED
  BY <1>1, <1>5, <1>6, <1>7, HandlersMove DEF threadVars, taskVars

LEMMA WorkerFinishes ==
  ASSUME Types, NewInv, LiveInv, NEW w \in Workers, ~\E what : Fault(what),
         FinishTests(w) \/ FinishRemoves(w) \/ FinishDrops(w) \/ FinishCounts(w)
  PROVE  NewInv' /\ LiveInv'
<1>0. LoopTypes /\ HandlerTypes /\ w \in Loops
  BY DEF Types, Loops
<1> DEFINE Same == UNCHANGED <<owner, addQ, epoll, threadVars, life, late>>
           Alone == \A x \in Workers \ {w} : loop'[x] = loop[x] /\ fin'[x] = fin[x]
<1>1. CASE FinishTests(w)
  <2>1. /\ Same /\ UNCHANGED <<delQ, table, history>> /\ loop[w] = "wait"
        /\ \/ \E place \in {"wait", "ended"} : loop' = [loop EXCEPT ![w] = place] /\ fin' = fin
           \/ \E h \in epoll[w] : /\ loop' = [loop EXCEPT ![w] = "finish"]
                                  /\ fin' = [fin EXCEPT ![w] = h]
    BY <1>1 DEF FinishTests, AtTest, handlerVars, ownerVars, history
  <2>2. /\ Alone
        /\ loop'[w] \in {"wait", "ended"} \/ (loop'[w] = "finish" /\ fin'[w] \in epoll[w])
    BY <1>0, <2>1 DEF LoopTypes, Loops
  <2>3. UNCHANGED <<Deleting, Left>>
    BY <2>1 DEF Deleting, Left, history
  <2> QED
    BY <2>1, <2>2, <2>3, FinishMoves DEF Giving, Ending
<1>2. CASE FinishRemoves(w)
  <2> DEFINE found == SameSocket(fin[w])
  <2>1. /\ Same /\ UNCHANGED <<delQ, orphans, uncounted>> /\ loop[w] = "finish"
        /\ table' = table \ found /\ dropped' = dropped \cup (found \ {fin[w]})
        /\ \/ found # {} /\ loop' = [loop EXCEPT ![w] = "drop"] /\ fin' = fin
           \/ /\ found = {} /\ \E place \in {"wait", "ended"} : loop' = [loop EXCEPT ![w] = place]
              /\ fin' = [fin EXCEPT ![w] = None]
    BY <1>2 DEF FinishRemoves, FinishEnds, AtTest, ownerVars
  <2>2. /\ Alone
        /\ \/ found # {} /\ loop'[w] = "drop" /\ fin'[w] = fin[w]
           \/ found = {} /\ loop'[w] \in {"wait", "ended"}
    BY <1>0, <2>1 DEF LoopTypes, Loops
  <2>3. fin[w] \in table => fin[w] \in found
    BY DEF SameSocket
  <2>4. /\ Deleting' = Deleting /\ Left' = Left \cup (found \ {fin[w]})
    BY <2>1 DEF Deleting, Left
  <2>5. /\ loop[w] \in Ending /\ loop[w] \notin Giving
        /\ loop'[w] = "drop" => loop'[w] \in Ending /\ loop'[w] \in Giving
        /\ loop'[w] # "drop" => loop'[w] \notin Ending /\ loop'[w] \notin Giving
    BY <2>1, <2>2 DEF Giving, Ending
  <2> HIDE DEF found
  <2>6. fin[w] \notin table' /\ \A g \in table \ table' : g \in found
    BY <2>1, <2>3
  <2> QED
    BY <2>1, <2>2, <2>4, <2>5, <2>6, FinishMoves
<1>3. CASE FinishDrops(w)
  <2>1. /\ Same /\ UNCHANGED <<fin, delQ, table, history>> /\ loop[w] = "drop"
        /\ loop' = [loop EXCEPT ![w] = "count"]
    BY <1>3 DEF FinishDrops, ownerVars, history
  <2>2. Alone /\ loop'[w] = "count" /\ fin'[w] = fin[w]
    BY <1>0, <2>1 DEF LoopTypes, Loops
  <2>3. UNCHANGED <<Deleting, Left>>
    BY <2>1 DEF Deleting, Left, history
  <2>4. fin[w] \notin table'
    <3>1. fin[w] \in Finishing(Giving)
      BY <2>1 DEF Finishing, Giving
    <3> QED
      BY <2>1, <3>1 DEF LiveInv, Doomed
  <2> QED
    BY <2>1, <2>2, <2>3, <2>4, FinishMoves DEF Giving, Ending
<1>4. CASE FinishCounts(w)
  <2>1. /\ Same /\ UNCHANGED <<table, dropped>> /\ loop[w] = "count" /\ ReadCount(fin[w])
        /\ \E place \in {"wait", "ended"} : loop' = [loop EXCEPT ![w] = place]
        /\ fin' = [fin EXCEPT ![w] = None]
    BY <1>4 DEF FinishCounts, FinishEnds, AtTest, ownerVars
  <2>2. Alone /\ loop'[w] \in {"wait", "ended"} /\ fin[w] \in Handlers
    BY <1>0, <2>1 DEF LoopTypes, Loops
  <2>3. /\ Deleting \subseteq Deleting' /\ Deleting' \subseteq Deleting \cup {fin[w]}
        /\ Deleting' \cup Left' = Deleting \cup Left \cup {fin[w]}
    BY <1>0, <2>1, <2>2, CountedIsKept
  <2>4. Left \subseteq Left'
    BY <1>0, <2>1, <2>2, Counted DEF Left
  <2> QED
    BY <2>1, <2>2, <2>3, <2>4, FinishMoves DEF Giving, Ending
<1> QED
  BY <1>1, <1>2, <1>3, <1>4

LEMMA TableReset ==
  ASSUME Types, NewInv, LiveInv, ResetTable, ~\E what : Fault(what)
  PROVE  NewInv' /\ LiveInv'
<1>1. /\ life' = [h \in Handlers |-> IF h \in table THEN "freed" ELSE life[h]]
      /\ table' = {} /\ UNCHANGED <<loopVars, threadVars, history>>
  BY DEF ResetTable
<1>2. /\ UNCHANGED <<Shaking, Going, Deleting, Watched>> /\ At(Giving)' = At(Giving)
      /\ (Apart => Apart')
      /\ Finishing(Giving)' = Finishing(Giving) /\ Finishing(Ending)' = Finishing(Ending)
  BY <1>1, ThreadsStay, ListsStay, LoopsStay DEF loopVars, threadVars
<1>3. Known' \subseteq Known /\ Doomed' = Doomed /\ Left' = Left /\ UNCHANGED <<tasks, late>>
  BY <1>1, <1>2 DEF Known, Doomed, Left, history, threadVars, taskVars
<1>4. \A h \in Handlers : life'[h] = IF h \in table THEN "freed" ELSE life[h]
  BY <1>1
<1>5. Unborn' \subseteq Unborn
  BY <1>4 DEF Unborn
<1>6. tasks \subseteq Handlers /\ Shaking \subseteq Handlers /\ table \subseteq Known
  BY DEF At, Shaking, Early, Known, Types, ThreadTypes
<1>7. NewInv'
  BY <1>1, <1>2, <1>3, <1>4, <1>5, <1>6 DEF NewInv
<1>8. LiveInv'
  BY <1>1, <1>2, <1>3, <1>4 DEF LiveInv
<1> QED
  BY <1>7, <1>8

-----------------------------------------------------------------------------
LEMMA FaultKeepsHandlers ==
  ASSUME NewInv, LiveInv, NEW what, Fault(what)
  PROVE  NewInv' /\ LiveInv'
<1>1. /\ UNCHANGED <<delQ, tasks, pc, at, life, table, history, owner, addQ, epoll, loop, fin>>
  BY DEF Fault, ownerVars, loopVars, threadVars, taskVars, handlerVars
<1> QED
  BY <1>1, ListsStay, LoopsStay, HandlersStay

\* Of the owner's steps only the reset of the table is about handlers.
LEMMA OwnerKeepsHandlers ==
  ASSUME Types, OwnerInv, NewInv, LiveInv, Start \/ Stop \/ (OwnerStep /\ ~ResetTable)
  PROVE  NewInv' /\ LiveInv'
<1>1. /\ UNCHANGED <<fin, delQ, tasks, pc, at, life, table, history>>
      /\ owner' = "stopped" => owner = "stopped"
  BY DEF Start, Stop, OwnerStep, StartManager, StartListener, ListenFails, Resize, StartWorker,
         StopManager, WakeListener, JoinListener, JoinPool, WakeWorker, JoinWorker, NextWorker,
         Owner, ownerVars, loopVars, threadVars, taskVars, handlerVars
<1>2. CASE StartWorker
  <2>1. /\ turn \in Workers /\ loop' = [loop EXCEPT ![turn] = "wait"] /\ loop[turn] = "none"
        /\ UNCHANGED <<addQ, delQ, epoll>>
    BY <1>2, LifecycleAssumption, FS_CardinalityType
       DEF StartWorker, RunLoop, Types, OwnerTypes, OwnerInv
  <2>2. loop'[turn] = "wait" /\ \A x \in Workers \ {turn} : loop'[x] = loop[x]
    BY <2>1 DEF Types, LoopTypes, Loops
  <2>3. Finishing(Giving)' = Finishing(Giving) /\ Finishing(Ending)' = Finishing(Ending)
    BY <1>1, <2>1, <2>2, WorkerIs DEF Types, Giving, Ending
  <2> QED
    BY <1>1, <2>1, <2>3, ListsStay, HandlersStay
<1>3. CASE JoinWorker
  <2>1. /\ addQ' = [addQ EXCEPT ![turn] = {}] /\ epoll' = [epoll EXCEPT ![turn] = {}]
        /\ UNCHANGED loop
    BY <1>3 DEF JoinWorker, NextWorker
  <2>2. \A x \in Workers : addQ'[x] \subseteq addQ[x] /\ epoll'[x] \subseteq epoll[x]
    BY <2>1 DEF Types, LoopTypes
  <2>3. Watched' \subseteq Watched
    BY <2>2 DEF Watched
  <2> QED
    BY <1>1, <2>1, <2>3, LoopsStay, HandlersStay
<1>4. CASE StartListener
  <2>1. UNCHANGED <<addQ, epoll>> /\ \A x \in Workers : loop'[x] = loop[x]
    BY <1>4, LifecycleAssumption DEF StartListener, RunLoop, Types, LoopTypes, Loops
  <2>2. Finishing(Giving)' = Finishing(Giving) /\ Finishing(Ending)' = Finishing(Ending)
    BY <1>1, <2>1 DEF Finishing
  <2> QED
    BY <1>1, <2>1, <2>2, ListsStay, HandlersStay
<1>5. CASE ~StartWorker /\ ~JoinWorker /\ ~StartListener
  <2>1. UNCHANGED <<addQ, epoll, loop>>
    BY <1>5 DEF Start, Stop, OwnerStep, StartManager, ListenFails, Resize, StopManager,
                WakeListener, JoinListener, JoinPool, WakeWorker, loopVars
  <2> QED
    BY <1>1, <2>1, ListsStay, LoopsStay, HandlersStay
<1> QED
  BY <1>2, <1>3, <1>4, <1>5

LEMMA ListenKeepsHandlers ==
  ASSUME Types, NewInv, LiveInv, ListenStep \/ RemoteConnects
  PROVE  NewInv' /\ LiveInv'
<1>1. CASE ServeListener \/ AcceptBegins \/ AcceptEnds \/ AcceptFails \/ RemoteConnects
  <2>1. /\ UNCHANGED <<fin, addQ, delQ, epoll, tasks, pc, at, life, table, history, owner>>
        /\ loop' = loop \/ \E place : loop' = [loop EXCEPT ![Listener] = place]
    BY <1>1 DEF ServeListener, AcceptBegins, AcceptEnds, AcceptFails, RemoteConnects, Awake,
                AtTest, ownerVars, loopVars, threadVars, taskVars, handlerVars
  <2>2. \A x \in Workers : loop'[x] = loop[x]
    BY <2>1, LifecycleAssumption DEF Types, LoopTypes, Loops
  <2>3. Finishing(Giving)' = Finishing(Giving) /\ Finishing(Ending)' = Finishing(Ending)
    BY <2>1, <2>2 DEF Finishing
  <2> QED
    BY <2>1, <2>3, ListsStay, HandlersStay
<1> QED
  BY <1>1, ConnectionAccepted DEF ListenStep

LEMMA ThreadKeepsHandlers ==
  ASSUME Types, OwnerInv, NewInv, LiveInv, NEW t \in Threads, ~\E what : Fault(what),
         ThreadStep(t) \/ HandshakeStep(t) \/ Disconnect(t)
  PROVE  NewInv' /\ LiveInv'
<1> DEFINE Kept == UNCHANGED <<loop, fin, delQ, tasks, life, table, history, owner>>
<1> USE DEF ownerVars, loopVars, taskVars, handlerVars
<1>0. ThreadTypes
  BY DEF Types
<1>1. CASE HandshakeFails(t) \/ FailsLate(t)
  <2>1. /\ pc[t] \in {"shake", "stack"} /\ Delete(t)
        /\ UNCHANGED <<loopVars, tasks, table, orphans, uncounted, dropped, owner>>
        /\ late' = late \/ late' = late \cup {at[t]}
        /\ pc[t] = "stack" => at[t] \in late'
    BY <1>1 DEF HandshakeFails, FailsLate, history
  <2> QED
    BY <2>1, HandshakeEndsBadly
<1>2. CASE LogicConnectPuts(t)
  <2>1. pc[t] = "put" /\ tableAlive /\ UNCHANGED <<loopVars, tasks, history, owner>>
    BY <1>2 DEF LogicConnectPuts, Meets
  <2>2. CASE \E g \in table : LogicPeer[g] = LogicPeer[at[t]]
    <3>1. Delete(t) /\ UNCHANGED table
      BY <1>2, <2>1, <2>2 DEF LogicConnectPuts
    <3> QED
      BY <2>1, <3>1, HandshakeEndsBadly DEF history
  <2>3. CASE ~\E g \in table : LogicPeer[g] = LogicPeer[at[t]]
    <3>1. Goto(t, "stack") /\ table' = table \cup {at[t]} /\ UNCHANGED <<at, life>>
      BY <1>2, <2>1, <2>3 DEF LogicConnectPuts
    <3> QED
      BY <2>1, <3>1, HandshakeKnown
  <2> QED
    BY <2>2, <2>3
<1>3. CASE StackConnect(t) \/ MoveIndex(t) \/ WrapIndex(t)
  <2>1. Kept /\ UNCHANGED <<addQ, epoll>>
    BY <1>3 DEF StackConnect, MoveIndex, WrapIndex
  <2>2. /\ pc[t] \in {"stack", "add", "wrap"}
        /\ \/ Goto(t, "idle") /\ at' = [at EXCEPT ![t] = None]
           \/ /\ \E label \in {"add", "wrap", "index"} : Goto(t, label)
              /\ at' = [at EXCEPT ![t] = at[t]]
    BY <1>0, <1>3 DEF StackConnect, MoveIndex, WrapIndex, Return, ThreadTypes
  <2> QED
    BY <2>1, <2>2, ListsStay, KnownGoesOn
<1>4. CASE AddEvent(t)
  <2> DEFINE w == m_iCurWorkerIdx
  <2>1. w \in Workers /\ slot[w] \in {"none", "null", "made", "deleted"}
    BY <1>4 DEF AddEvent, Meets, Types, OwnerTypes
  <2>2. slot[w] = "made"
    BY <1>4, <2>1 DEF AddEvent, Meets
  <2>3. /\ Kept /\ UNCHANGED epoll /\ pc[t] = "index"
        /\ Goto(t, "idle") /\ at' = [at EXCEPT ![t] = None]
        /\ addQ' = [addQ EXCEPT ![w] = addQ[w] \cup {at[t]}]
    BY <1>4, <2>1, <2>2 DEF AddEvent, Return
  <2>4. \A x \in Workers : addQ'[x] \subseteq addQ[x] \cup {at[t]}
    BY <2>1, <2>3 DEF Types, LoopTypes
  <2>5. Watched' \subseteq Watched \cup {at[t]}
    BY <2>3, <2>4 DEF Watched
  <2> QED
    BY <2>3, <2>5, KnownGoesOn
<1>5. CASE Disconnect(t) \/ DisconnectDrops(t)
  <2>1. Kept /\ UNCHANGED <<addQ, epoll>>
    BY <1>5 DEF Disconnect, DisconnectDrops, Meets
  <2>2. \/ pc[t] = "idle" /\ Goto(t, "disconnect") /\ at' = [at EXCEPT ![t] = None]
        \/ pc[t] = "drop" /\ Goto(t, "count") /\ at' = [at EXCEPT ![t] = at[t]]
    BY <1>0, <1>5 DEF Disconnect, DisconnectDrops, Begin, Meets, ThreadTypes
  <2> QED
    BY <2>1, <2>2, ListsStay, KnownGoesOn
<1>6. CASE DisconnectRemoves(t)
  <2>1. /\ pc[t] = "disconnect" /\ UNCHANGED <<loopVars, tasks, life, history, owner>>
        /\ \/ Return(t) /\ UNCHANGED table
           \/ \E h \in table : /\ Goto(t, "drop") /\ at' = [at EXCEPT ![t] = h]
                               /\ table' = table \ {h}
    BY <1>6 DEF DisconnectRemoves, Meets
  <2>2. CASE Return(t) /\ UNCHANGED table
    BY <2>1, <2>2, ListsStay, KnownGoesOn DEF Return
  <2> QED
    BY <2>1, <2>2, DisconnectFromTable
<1>7. CASE DisconnectCounts(t)
  <2>1. /\ pc[t] = "count" /\ ReadCount(at[t])
        /\ Goto(t, "idle") /\ at' = [at EXCEPT ![t] = None]
        /\ UNCHANGED <<loop, fin, addQ, epoll, tasks, life, table, late, dropped, owner>>
    BY <1>7 DEF DisconnectCounts, Meets, Return
  <2> QED
    BY <2>1, DisconnectEnds
<1> QED
  BY <1>1, <1>2, <1>3, <1>4, <1>5, <1>6, <1>7, HandshakeTested DEF ThreadStep, HandshakeStep

LEMMA NextKeepsHandlers ==
  ASSUME Types, OwnerInv, NewInv, LiveInv, [Next]_vars
  PROVE  NewInv' /\ LiveInv'
<1>1. CASE \E what : Fault(what)
  BY <1>1, FaultKeepsHandlers
<1> SUFFICES ASSUME ~\E what : Fault(what)
             PROVE  NewInv' /\ LiveInv'
  BY <1>1
<1>2. CASE UNCHANGED vars
  <2>1. UNCHANGED <<delQ, tasks, pc, at, life, table, history, owner, addQ, epoll, loop, fin>>
    BY <1>2 DEF vars, ownerVars, loopVars, threadVars, taskVars, handlerVars
  <2> QED
    BY <2>1, ListsStay, LoopsStay, HandlersStay
<1>3. ASSUME NEW w \in Workers, LoopStep(w) PROVE NewInv' /\ LiveInv'
  BY <1>3, ListsServed, WorkerFinishes DEF LoopStep
<1>4. ASSUME NEW t \in Threads, ThreadStep(t) \/ HandshakeStep(t) \/ Disconnect(t)
      PROVE  NewInv' /\ LiveInv'
  BY <1>4, ThreadKeepsHandlers
<1>5. ASSUME NEW t \in Threads, NEW h \in Handlers, TakeTask(t, h) \/ Dial(t, h)
      PROVE  NewInv' /\ LiveInv'
  BY <1>5, HandshakeBegins
<1>6. CASE Start \/ Stop \/ OwnerStep
  BY <1>6, OwnerKeepsHandlers, TableReset DEF OwnerStep
<1>7. CASE ListenStep \/ RemoteConnects
  BY <1>7, ListenKeepsHandlers
<1> QED
  BY <1>2, <1>3, <1>4, <1>5, <1>6, <1>7 DEF Next, Calls, StopAfterFailure, Threads

-----------------------------------------------------------------------------
LEMMA InitIInv == Init => IInv
<1> SUFFICES ASSUME Init PROVE IInv
  OBVIOUS
<1>1. Types /\ OwnerInv /\ NoConnectionForgotten
  BY InitType, InitOwnerInv
<1>2. /\ Shaking = {} /\ Going = {} /\ At(Giving) = {} /\ Deleting = {} /\ Watched = {}
      /\ table = {} /\ tasks = {}
  BY DEF Init, Shaking, Going, Deleting, Watched, At, Early, Late, Giving
<1>3. Finishing(Giving) = {} /\ Finishing(Ending) = {}
  BY DEF Init, Finishing, Giving, Ending, Loops
<1>4. NewInv
  BY <1>2, <1>3 DEF Init, NewInv, Known, Apart, Early
<1>5. LiveInv
  BY <1>2 DEF Init, LiveInv
<1>6. OwnThreadsAreSafe
  BY DEF Init, OwnThreadsAreSafe
<1> QED
  BY <1>1, <1>4, <1>5, <1>6 DEF IInv

LEMMA NextKeepsIInv == IInv /\ [Next]_vars => IInv'
<1> SUFFICES ASSUME IInv, [Next]_vars PROVE IInv'
  OBVIOUS
<1>0. Types /\ OwnerInv /\ NewInv /\ LiveInv /\ OwnThreadsAreSafe /\ NoConnectionForgotten
  BY DEF IInv
<1>1. Types' /\ OwnerInv'
  <2>1. CASE StopAfterFailure
    BY <1>0, <2>1, FaultKeepsTypes, FaultKeepsOwnerInv DEF StopAfterFailure
  <2>2. CASE Start \/ Stop \/ OwnerStep
    BY <1>0, <2>2, OwnerKeepsTypes, OwnerKeepsOwnerInv
  <2>3. CASE ListenStep \/ RemoteConnects
    BY <1>0, <2>3, ListenKeepsTypes, ListenKeepsOwnerInv
  <2>4. ASSUME NEW w \in Workers, LoopStep(w) PROVE Types' /\ OwnerInv'
    BY <1>0, <2>4, LoopKeepsTypes, LoopKeepsOwnerInv
  <2>5. ASSUME NEW t \in Threads,
               \/ ThreadStep(t) \/ HandshakeStep(t)
               \/ t \in Users /\ (Disconnect(t) \/ \E h \in Handlers : Dial(t, h))
               \/ \E h \in Handlers : TakeTask(t, h)
        PROVE  Types' /\ OwnerInv'
    BY <1>0, <2>5, ThreadKeepsTypes, ThreadKeepsOwnerInv
  <2>6. CASE UNCHANGED vars
    <3>1. Types'
      BY <1>0, <2>6, Frames DEF vars, Types
    <3>2. OwnerInv'
      BY <1>0, <2>6, OwnerStays
         DEF vars, ownerVars, loopVars, listenVars, threadVars, taskVars, handlerVars
    <3> QED
      BY <3>1, <3>2
  <2> QED
    BY <2>1, <2>2, <2>3, <2>4, <2>5, <2>6 DEF Next, Calls, Threads
<1>2. NewInv' /\ LiveInv'
  BY <1>0, NextKeepsHandlers
<1>3. OwnThreadsAreSafe'
  BY <1>0, NextIsSafe
<1>4. NoConnectionForgotten'
  BY <1>0, NextForgetsNoConnection
<1> QED
  BY <1>1, <1>2, <1>3, <1>4 DEF IInv

LEMMA IInvAlways == Spec => []IInv
BY InitIInv, NextKeepsIInv, PTL DEF Spec

\* The order of Stop: the flag, the listening worker's join, the pool's, the workers' one by
\* one, and the table last.  No thread of the service meets what Stop has deleted, and the
\* table deletes a handler twice only if its handshake failed after it was registered.
THEOREM StopIsOrderly == Spec => []LifecycleInv
<1>1. IInv => LoopsOutlived
  <2> SUFFICES ASSUME IInv, NEW w \in Workers
               PROVE  /\ slot[w] = "deleted" => loop[w] = "ended"
                      /\ loop[w] = "finish" => tableAlive
    BY DEF LoopsOutlived
  <2> QED
    BY DEF IInv, OwnerInv
<1>2. IInv => LifecycleInv
  BY <1>1, TypesAreTypes DEF IInv, LifecycleInv
<1> QED
  BY <1>2, IInvAlways, PTL

\* What Stop leaves alive: handlers of dropped tasks, on the delete list of a worker that has
\* ended, in a user's hands, released without a worker or by two at once, or unregistered by
\* the on_finish of an older connection from their address.
THEOREM StopLeavesNothingElse == Spec => []StopLeavesOnly
<1>1. ASSUME IInv, owner = "stopped", NEW h \in Handlers, life[h] = "live"
      PROVE  h \in tasks \cup {at[u] : u \in Users} \cup (UNION {delQ[w] : w \in Workers})
                   \cup orphans \cup uncounted \cup dropped
  <2>1. h \in tasks \cup Shaking \cup At(Giving) \cup Finishing(Giving) \cup Deleting \cup Left
    BY <1>1 DEF IInv, LiveInv, Doomed
  <2>2. \A t \in Threads : pc[t] # "idle" => t \in Users
    BY <1>1 DEF IInv, OwnerInv, AfterPool, Threads
  <2>3. h \in Shaking \cup At(Giving) => \E u \in Users : h = at[u]
    BY <2>2 DEF Shaking, At, Early, Giving
  <2>4. \A w \in Workers : loop[w] = "ended"
    BY <1>1 DEF IInv, OwnerInv
  <2>5. Finishing(Giving) = {}
    BY <2>4 DEF Finishing, Giving
  <2>6. h \in tasks \/ h \in Left \/ h \in Deleting \/ \E u \in Users : h = at[u]
    BY <2>1, <2>3, <2>5
  <2> QED
    BY <2>6, Zenon DEF Deleting, Left
<1>2. IInv => StopLeavesOnly
  BY <1>1 DEF StopLeavesOnly
<1> QED
  BY <1>2, IInvAlways, PTL

\* The accept loop and its edge: the listener never sleeps over a connection in the backlog,
\* unless accept failed.
THEOREM ListenerForgetsNoConnection == Spec => []NoConnectionForgotten
<1>1. IInv => NoConnectionForgotten
  BY DEF IInv
<1> QED
  BY <1>1, IInvAlways, PTL
=============================================================================
