---------------------------- MODULE QueueClients ----------------------------
(***************************************************************************)
(* Threads that share one BlockingQueue: each producer pushes Quota items, *)
(* each consumer pops for ever.  The queue's size is one of Sizes, chosen  *)
(* when it is constructed.                                                 *)
(***************************************************************************)
EXTENDS BlockingQueue, FiniteSets

CONSTANTS
  Producers, Consumers,
  Quota,   \* bound: the items each producer pushes
  Sizes    \* the queue sizes tried, 0 for unlimited

Clients == Producers \cup Consumers

(* With two or more threads beyond the queue's places, notify_one can      *)
(* reach the wrong side in the end: a consumer wakes a consumer while      *)
(* producers sleep, and everybody sleeps for ever (README, section 4).     *)
ASSUME SizesAssumption ==
  /\ Quota \in Nat \ {0}
  /\ Sizes \subseteq Nat
  /\ \A n \in Sizes : n = 0 \/ n + 1 >= Cardinality(Clients)

ASSUME ClientsAssumption ==
  /\ IsFiniteSet(Clients)
  /\ Producers \cap Consumers = {}

VARIABLES
  sent,     \* producer -> how many items it has pushed
  received  \* the items popped so far, in order

clientVars == <<queueVars, sent, received>>

ClientInit ==
  /\ \E n \in Sizes : QueueInit(n)
  /\ sent = [p \in Producers |-> 0]
  /\ received = <<>>

Produce(p) ==
  /\ sent[p] < Quota
  /\ \/ PushWaits(p) /\ UNCHANGED sent
     \/ /\ Push(p, <<p, sent[p] + 1>>)
        /\ sent' = [sent EXCEPT ![p] = @ + 1]
  /\ UNCHANGED received

Consume(c) ==
  /\ \/ PopWaits(c) /\ UNCHANGED received
     \/ Pop(c) /\ received' = Append(received, Head(m_queue))
  /\ UNCHANGED sent

ClientNotifies(t) == Notify(t) /\ UNCHANGED <<sent, received>>
ClientWakes(t) == WakeUnasked(t) /\ UNCHANGED <<sent, received>>

ClientNext ==
  \/ \E p \in Producers : Produce(p)
  \/ \E c \in Consumers : Consume(c)
  \/ \E t \in Clients : ClientNotifies(t) \/ ClientWakes(t)

(* The scheduler runs every thread that can run; a sleeper need not wake. *)
ClientFairness ==
  /\ \A p \in Producers : WF_clientVars(Produce(p))
  /\ \A c \in Consumers : WF_clientVars(Consume(c))
  /\ \A t \in Clients : WF_clientVars(ClientNotifies(t))

ClientSpec == ClientInit /\ [][ClientNext]_clientVars /\ ClientFairness

-----------------------------------------------------------------------------
(* Every variable has its type, and a bounded queue keeps its bound. *)
QueueTypeOK ==
  /\ m_iQueueMaxSize \in Sizes
  /\ m_queue \in Seq(Producers \X (1 .. Quota))
  /\ m_iQueueMaxSize # 0 => Len(m_queue) <= m_iQueueMaxSize
  /\ sleepers \subseteq Clients
  /\ signals \subseteq Clients \ sleepers
  /\ sent \in [Producers -> 0 .. Quota]
  /\ received \in Seq(Producers \X (1 .. Quota))

(* Push and Pop lose, repeat and reorder nothing: what was received,       *)
(* followed by what is queued, holds each producer's items in its order,   *)
(* all that it has pushed and no others.                                   *)
Pushed == received \o m_queue

NothingLostOrReordered ==
  /\ \A i, j \in 1 .. Len(Pushed) :
       i < j /\ Pushed[i][1] = Pushed[j][1] => Pushed[i][2] < Pushed[j][2]
  /\ {Pushed[i] : i \in 1 .. Len(Pushed)}
       = {x \in Producers \X (1 .. Quota) : x[2] <= sent[x[1]]}

(* Types hold, a bounded queue holds no more than its bound, and Push and  *)
(* Pop keep every item in its producer's order.                            *)
QueueInv == QueueTypeOK /\ NothingLostOrReordered

(* The shared condition variable strands nobody: while a thread sleeps     *)
(* although the queue would let it go on, some thread is awake and still   *)
(* has a step of its own, which is what hands the notification on.         *)
StrandsNobody ==
  (\/ \E c \in Consumers : c \in sleepers /\ m_queue # <<>>
   \/ \E p \in Producers : p \in sleepers /\ ~Full)
    => \E t \in Clients \ sleepers :
         t \in Consumers \cup signals \/ sent[t] < Quota

(* Every item pushed, also one whose producer had to wait for room, is     *)
(* popped in the end.                                                      *)
EverythingArrives ==
  <>(Len(received) = Quota * Cardinality(Producers))

=============================================================================
