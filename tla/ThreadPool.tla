----------------------------- MODULE ThreadPool -----------------------------
(***************************************************************************)
(* netty::common::ThreadPool (src/common/thread-pool.cc) over its          *)
(* unlimited BlockingQueue: workers that pop and run tasks, users that     *)
(* add tasks and wait for all of them, and the destructor.                 *)
(*                                                                         *)
(* WaitAll holds m_mtxActiveWorkerCnt while it tests, but proc changes the *)
(* count and notifies without it, so that the two tests and the wait are   *)
(* three steps.  Two users that test at once only read, and the mutex      *)
(* between them shows nowhere.                                             *)
(***************************************************************************)
EXTENDS BlockingQueue, FiniteSets

CONSTANTS
  Workers, Users,
  Tasks,
  EmptyTask   \* the task without an action that the destructor pushes

ASSUME TasksAssumption == EmptyTask \notin Tasks
ASSUME ThreadsAssumption == IsFiniteSet(Workers) /\ Workers \cap Users = {}

VARIABLES
  pc,                  \* where each thread is
  task,                \* worker -> the task it has taken
  m_bStopping,
  m_iActiveWorkersCnt,
  waiters,             \* users inside m_cvActiveWorkerCnt.wait
  destructor,          \* how far ~ThreadPool is
  emptyTasks,          \* how many empty tasks it has pushed
  before,              \* user -> the tasks added before its WaitAll began
  done, dropped        \* tasks run to their end; taken and not run

userVars == <<waiters, destructor, emptyTasks, before>>
poolVars == <<pc, task, m_bStopping, m_iActiveWorkersCnt, done, dropped>>
vars == <<queueVars, userVars, poolVars>>

Threads == Workers \cup Users
Queued == {m_queue[i] : i \in DOMAIN m_queue}
Held(w) == IF pc[w] \in {"taken", "start", "run"} THEN {task[w]} ELSE {}
InHands == UNION {Held(w) : w \in Workers}
Added == Tasks \cap (Queued \cup InHands \cup done \cup dropped)

Init ==
  /\ QueueInit(0)
  /\ pc = [t \in Threads |-> IF t \in Workers THEN "pop" ELSE "idle"]
  /\ task = [w \in Workers |-> EmptyTask]
  /\ m_bStopping = FALSE
  /\ m_iActiveWorkersCnt = 0
  /\ waiters = {}
  /\ destructor = "none"
  /\ emptyTasks = 0
  /\ before = [u \in Users |-> {}]
  /\ done = {}
  /\ dropped = {}

Goto(t, label) == pc' = [pc EXCEPT ![t] = label]

-----------------------------------------------------------------------------
(* proc() *)

PopTask(w) ==
  /\ pc[w] = "pop"
  /\ \/ PopWaits(w) /\ UNCHANGED <<pc, task>>
     \/ Pop(w) /\ task' = [task EXCEPT ![w] = Head(m_queue)] /\ Goto(w, "taken")
  /\ UNCHANGED <<userVars, m_bStopping, m_iActiveWorkersCnt, done, dropped>>

(* A worker that sees the stop leaves with the task it took. *)
ReadStopping(w) ==
  /\ pc[w] = "taken"
  /\ IF m_bStopping
     THEN Goto(w, "exited") /\ dropped' = dropped \cup {task[w]}
     ELSE Goto(w, IF task[w] = EmptyTask THEN "notify" ELSE "start")
          /\ UNCHANGED dropped
  /\ UNCHANGED <<queueVars, userVars, task, m_bStopping, m_iActiveWorkersCnt, done>>

StartTask(w) ==
  /\ pc[w] = "start"
  /\ m_iActiveWorkersCnt' = m_iActiveWorkersCnt + 1
  /\ Goto(w, "run")
  /\ UNCHANGED <<queueVars, userVars, task, m_bStopping, done, dropped>>

FinishTask(w) ==
  /\ pc[w] = "run"
  /\ done' = done \cup {task[w]}
  /\ m_iActiveWorkersCnt' = m_iActiveWorkersCnt - 1
  /\ Goto(w, "notify")
  /\ UNCHANGED <<queueVars, userVars, task, m_bStopping, dropped>>

NotifyWaiter(w) ==
  /\ pc[w] = "notify"
  /\ \/ waiters = {} /\ UNCHANGED waiters
     \/ \E u \in waiters : waiters' = waiters \ {u}
  /\ Goto(w, "pop")
  /\ task' = [task EXCEPT ![w] = EmptyTask]
  /\ UNCHANGED <<queueVars, destructor, emptyTasks, before, m_bStopping,
                 m_iActiveWorkersCnt, done, dropped>>

Work(w) ==
  PopTask(w) \/ ReadStopping(w) \/ StartTask(w) \/ FinishTask(w) \/ NotifyWaiter(w)

(* The notify_one at the end of AddTask's Push. *)
SignalTask(t) == Notify(t) /\ UNCHANGED <<userVars, poolVars>>

WorkerWakes(w) == WakeUnasked(w) /\ UNCHANGED <<userVars, poolVars>>

-----------------------------------------------------------------------------
(* AddTask, WaitAll and WaitAllUntilTimeAt, until the destructor begins. *)

(* Tasks are alike: the next one added is any that was not added yet. *)
AddTask(u) ==
  /\ destructor = "none"
  /\ pc[u] = "idle"
  /\ Tasks # Added
  /\ Push(u, CHOOSE t \in Tasks : t \notin Added)
  /\ UNCHANGED <<userVars, poolVars>>

(* A call of either wait: pc is "all..." in the one, "until..." in the other. *)
BeginWait(u, label) ==
  /\ destructor = "none"
  /\ pc[u] = "idle" /\ CanCall(u)
  /\ before' = [before EXCEPT ![u] = IF label = "allQueue" THEN Added ELSE {}]
  /\ Goto(u, label)
  /\ UNCHANGED <<queueVars, waiters, destructor, emptyTasks, task, m_bStopping,
                 m_iActiveWorkersCnt, done, dropped>>

Moves(u, label) ==
  /\ Goto(u, label)
  /\ before' = IF label = "idle" THEN [before EXCEPT ![u] = {}] ELSE before
  /\ UNCHANGED <<queueVars, waiters, destructor, emptyTasks, task, m_bStopping,
                 m_iActiveWorkersCnt, done, dropped>>

\* Mutant of WaitAll: the count is read before the queue.
WaitAllReversed(u) ==
  \/ pc[u] = "allQueue" /\ Moves(u, IF m_iActiveWorkersCnt # 0 THEN "allWait" ELSE "allCount")
  \/ pc[u] = "allCount" /\ Moves(u, IF m_queue # <<>> THEN "allWait" ELSE "idle")

(* while (!Empty() || 0 != count) wait *)
WaitAll(u) ==
  \/ pc[u] = "allQueue" /\ Moves(u, IF m_queue # <<>> THEN "allWait" ELSE "allCount")
  \/ pc[u] = "allCount" /\ Moves(u, IF m_iActiveWorkersCnt # 0 THEN "allWait" ELSE "idle")

(* while (first && (!Empty() && 0 != count)) wait_until, at most once *)
WaitAllUntil(u) ==
  \/ pc[u] = "untilQueue" /\ Moves(u, IF m_queue # <<>> THEN "untilCount" ELSE "idle")
  \/ pc[u] = "untilCount" /\ Moves(u, IF m_iActiveWorkersCnt # 0 THEN "untilWait" ELSE "idle")

WaiterSleeps(u) ==
  /\ pc[u] \in {"allWait", "untilWait"}
  /\ waiters' = waiters \cup {u}
  /\ Goto(u, IF pc[u] = "allWait" THEN "allAsleep" ELSE "untilAsleep")
  /\ UNCHANGED <<queueVars, destructor, emptyTasks, before, task, m_bStopping,
                 m_iActiveWorkersCnt, done, dropped>>

(* Once notified, WaitAll tests again and the timed wait returns. *)
WaiterGoesOn(u) ==
  /\ u \notin waiters
  /\ \/ pc[u] = "allAsleep" /\ Moves(u, "allQueue")
     \/ pc[u] = "untilAsleep" /\ Moves(u, "idle")

WaiterWakes(u) ==
  /\ u \in waiters
  /\ waiters' = waiters \ {u}
  /\ UNCHANGED <<queueVars, destructor, emptyTasks, before, poolVars>>

TimedWaitEnds(u) == pc[u] = "untilAsleep" /\ WaiterWakes(u)

Wait(u) == WaitAll(u) \/ WaitAllUntil(u) \/ WaiterSleeps(u) \/ WaiterGoesOn(u)

-----------------------------------------------------------------------------
(* ~ThreadPool, called by a user when no other call is under way. *)

Destroy(u) ==
  /\ destructor = "none"
  /\ \A v \in Users : pc[v] = "idle" /\ CanCall(v)
  /\ m_bStopping' = TRUE
  /\ destructor' = "push"
  /\ Goto(u, "destroy")
  /\ UNCHANGED <<queueVars, waiters, emptyTasks, before, task, m_iActiveWorkersCnt, done, dropped>>

PushEmptyTasks(u, count) ==
  /\ pc[u] = "destroy" /\ destructor = "push"
  /\ IF emptyTasks < count
     THEN Push(u, EmptyTask) /\ emptyTasks' = emptyTasks + 1 /\ UNCHANGED destructor
     ELSE CanCall(u) /\ destructor' = "join" /\ UNCHANGED <<queueVars, emptyTasks>>
  /\ UNCHANGED <<waiters, before, poolVars>>

\* Mutant of PushEmptyTask: one worker gets no task to wake up for.
PushEmptyTaskTooFew(u) == PushEmptyTasks(u, Cardinality(Workers) - 1)

(* One empty task for each worker, then the joins. *)
PushEmptyTask(u) == PushEmptyTasks(u, Cardinality(Workers))

Join(u) ==
  /\ pc[u] = "destroy" /\ destructor = "join"
  /\ \A w \in Workers : pc[w] = "exited"
  /\ destructor' = "done"
  /\ UNCHANGED <<queueVars, waiters, emptyTasks, before, poolVars>>

-----------------------------------------------------------------------------
Next ==
  \/ \E w \in Workers : Work(w) \/ WorkerWakes(w)
  \/ \E t \in Threads : SignalTask(t)
  \/ \E u \in Users :
       \/ AddTask(u)
       \/ \E label \in {"allQueue", "untilQueue"} : BeginWait(u, label)
       \/ Wait(u) \/ WaiterWakes(u) \/ TimedWaitEnds(u)
       \/ Destroy(u) \/ PushEmptyTask(u) \/ Join(u)

(* Threads that can run are run, tasks end and deadlines come; nobody has  *)
(* to call anything, and no unasked wake-up has to happen.                 *)
Fairness ==
  /\ \A w \in Workers : WF_vars(Work(w))
  /\ \A t \in Threads : WF_vars(SignalTask(t))
  /\ \A u \in Users : WF_vars(Wait(u)) /\ WF_vars(TimedWaitEnds(u))
                        /\ WF_vars(PushEmptyTask(u)) /\ WF_vars(Join(u))

Spec == Init /\ [][Next]_vars /\ Fairness

-----------------------------------------------------------------------------
(* Every variable has its type; the count of active workers is the number  *)
(* of workers inside an action.                                            *)
PoolTypeOK ==
  /\ m_iQueueMaxSize = 0
  /\ m_queue \in Seq(Tasks \cup {EmptyTask})
  /\ sleepers \subseteq Workers
  /\ signals \subseteq Users
  /\ pc \in [Threads -> {"pop", "taken", "start", "run", "notify", "exited", "idle",
                        "allQueue", "allCount", "allWait", "allAsleep", "untilQueue",
                        "untilCount", "untilWait", "untilAsleep", "destroy"}]
  /\ task \in [Workers -> Tasks \cup {EmptyTask}]
  /\ m_bStopping \in BOOLEAN
  /\ m_iActiveWorkersCnt = Cardinality({w \in Workers : pc[w] = "run"})
  /\ waiters \subseteq Users
  /\ destructor \in {"none", "push", "join", "done"}
  /\ emptyTasks \in 0 .. Cardinality(Workers)
  /\ before \in [Users -> SUBSET Tasks]
  /\ done \subseteq Tasks
  /\ dropped \subseteq Tasks \cup {EmptyTask}

(* Each task the users added is in exactly one place - the queue, one      *)
(* worker's hands, run, or dropped by a worker that saw the stop - so that *)
(* none is run twice and none vanishes while the pool lives.               *)
EachTaskInOnePlace ==
  /\ \A i, j \in DOMAIN m_queue : m_queue[i] = m_queue[j] => i = j \/ m_queue[i] = EmptyTask
  /\ \A v, w \in Workers : v # w => Tasks \cap Held(v) \cap Held(w) = {}
  /\ Tasks \cap Queued \cap (InHands \cup done \cup dropped) = {}
  /\ Tasks \cap InHands \cap (done \cup dropped) = {}
  /\ Tasks \cap done \cap dropped = {}
  /\ dropped # {} => m_bStopping

(* Types hold, m_iActiveWorkersCnt counts the workers that run a task, and *)
(* no task is run twice or lost.                                           *)
PoolInv == PoolTypeOK /\ EachTaskInOnePlace

(* When WaitAll returns, a task added before the call that is not done can *)
(* only be one that a worker has taken and not yet counted: the window     *)
(* between Pop and m_iActiveWorkersCnt++ is all that WaitAll misses.       *)
WaitAllMissesOnlyUncounted ==
  [][\A u \in Users : pc[u] = "allCount" /\ pc'[u] = "idle" =>
       \A t \in before[u] \ done :
         \E w \in Workers : pc[w] \in {"taken", "start"} /\ task[w] = t]_vars

(* A task added to a pool that is not destroyed is run, whichever worker   *)
(* the queue's notification reaches.                                       *)
AddedTaskRuns ==
  \A t \in Tasks : t \in Added ~> t \in done \/ m_bStopping

(* ~ThreadPool returns: its empty tasks wake every worker, whatever tasks  *)
(* are still queued in front of them.                                      *)
DestructorReturns == m_bStopping ~> destructor = "done"
=============================================================================
