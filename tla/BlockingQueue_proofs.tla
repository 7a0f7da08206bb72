------------------------ MODULE BlockingQueue_proofs ------------------------
(***************************************************************************)
(* The blocking queue and the thread pool built on it.                     *)
(*                                                                         *)
(* Of a BlockingQueue with any number of producers, of consumers and of    *)
(* items (QueueClients): it keeps its bound and the order of each          *)
(* producer, and, when it has a place for all its clients but one, its     *)
(* single condition variable strands nobody.                               *)
(*                                                                         *)
(* Of the pool with any number of workers, users and tasks (ThreadPool):   *)
(* its count of active workers is right, no task is run twice or lost, and *)
(* WaitAll misses only tasks that a worker has taken and not counted yet.  *)
(***************************************************************************)
EXTENDS QueueClients, ThreadPool, FiniteSetTheorems, SequenceTheorems, TLAPS

Item == Producers \X (1 .. Quota)

Hungry == sleepers \cap Consumers
Blocked == sleepers \cap Producers
OwedByProducers == signals \cap Producers
OwedByConsumers == signals \cap Consumers

\* Producers sleep when the queue is full, consumers when it is empty: to come from the
\* one to the other there are as many notifications as places, which the sleepers cannot
\* use up.
OneSideSleeps == Hungry = {} \/ Blocked = {}

\* Since the last consumer fell asleep each item in the queue has brought a notification,
\* which is owed still or has woken a consumer.
HungryAreOwed ==
  Hungry # {} =>
    Cardinality(Hungry) + Len(m_queue)
      <= Cardinality(OwedByProducers) + Cardinality(Consumers)

\* Since the last producer fell asleep each place freed has.
BlockedAreOwed ==
  Blocked # {} =>
    /\ m_iQueueMaxSize # 0
    /\ Cardinality(Blocked) + m_iQueueMaxSize
         <= Len(m_queue) + Cardinality(OwedByConsumers) + Cardinality(Producers)

FullForGood == Consumers = {} /\ Blocked # {} => Full

SleepInv == OneSideSleeps /\ HungryAreOwed /\ BlockedAreOwed /\ FullForGood

QueueIInv == QueueInv /\ SleepInv

-----------------------------------------------------------------------------
(* Counting clients.                                                       *)

LEMMA Counts ==
  ASSUME NEW X, NEW Y, X \subseteq Y, Y \subseteq Clients
  PROVE  /\ Cardinality(X) \in Nat /\ Cardinality(Y) \in Nat
         /\ Cardinality(X) <= Cardinality(Y)
         /\ Cardinality(X) = Cardinality(Y) => X = Y
<1>1. IsFiniteSet(Y) /\ Cardinality(Y) \in Nat
  BY FS_Subset, FS_CardinalityType, ClientsAssumption
<1>2. IsFiniteSet(X) /\ Cardinality(X) \in Nat
  BY <1>1, FS_Subset, FS_CardinalityType
<1> QED
  BY <1>1, <1>2, FS_Subset

LEMMA CountAdd ==
  ASSUME NEW X, X \subseteq Clients, NEW t \in Clients, t \notin X
  PROVE  Cardinality(X \cup {t}) = Cardinality(X) + 1
<1>1. IsFiniteSet(X)
  BY FS_Subset, ClientsAssumption
<1> QED
  BY <1>1, FS_AddElement

LEMMA CountRemove ==
  ASSUME NEW X, X \subseteq Clients, NEW t \in X
  PROVE  Cardinality(X \ {t}) = Cardinality(X) - 1
<1>1. IsFiniteSet(X)
  BY FS_Subset, ClientsAssumption
<1> QED
  BY <1>1, FS_RemoveElement

\* A bounded queue has a place for all its clients but one.
LEMMA PlacesSuffice ==
  ASSUME m_iQueueMaxSize \in Sizes, m_iQueueMaxSize # 0
  PROVE  m_iQueueMaxSize + 1 >= Cardinality(Producers) + Cardinality(Consumers)
<1>1. IsFiniteSet(Producers) /\ IsFiniteSet(Consumers)
  BY FS_Subset, ClientsAssumption DEF Clients
<1>2. Cardinality(Producers \cap Consumers) = 0
  BY ClientsAssumption, FS_EmptySet
<1>3. Cardinality(Producers) \in Nat /\ Cardinality(Consumers) \in Nat
  BY <1>1, FS_CardinalityType
<1>4. Cardinality(Producers \cup Consumers)
        = Cardinality(Producers) + Cardinality(Consumers) - Cardinality(Producers \cap Consumers)
  BY <1>1, FS_Union
<1>5. m_iQueueMaxSize \in Nat /\ m_iQueueMaxSize + 1 >= Cardinality(Producers \cup Consumers)
  BY SizesAssumption DEF Clients
<1> QED
  BY <1>2, <1>3, <1>4, <1>5

-----------------------------------------------------------------------------
(* The steps.                                                              *)

\* What a thread does to the queue, whoever it is.
Slept(t) ==
  /\ t \notin sleepers \cup signals
  /\ sleepers' = sleepers \cup {t}
  /\ UNCHANGED <<m_iQueueMaxSize, m_queue, signals, sent, received>>

Put(p) ==
  /\ p \notin sleepers \cup signals
  /\ ~Full /\ sent[p] < Quota
  /\ m_queue' = Append(m_queue, <<p, sent[p] + 1>>)
  /\ signals' = signals \cup {p}
  /\ sent' = [sent EXCEPT ![p] = @ + 1]
  /\ UNCHANGED <<m_iQueueMaxSize, sleepers, received>>

Took(c) ==
  /\ c \notin sleepers \cup signals
  /\ m_queue # <<>>
  /\ m_queue' = Tail(m_queue) /\ received' = Append(received, Head(m_queue))
  /\ signals' = IF m_iQueueMaxSize # 0 THEN signals \cup {c} ELSE signals
  /\ UNCHANGED <<m_iQueueMaxSize, sleepers, sent>>

Told(t) ==
  /\ t \in signals /\ signals' = signals \ {t}
  /\ \/ sleepers = {} /\ sleepers' = {}
     \/ \E s \in sleepers : sleepers' = sleepers \ {s}
  /\ UNCHANGED <<m_iQueueMaxSize, m_queue, sent, received>>

Woke(t) ==
  /\ t \in sleepers /\ sleepers' = sleepers \ {t}
  /\ UNCHANGED <<m_iQueueMaxSize, m_queue, signals, sent, received>>

LEMMA ClientSteps ==
  ASSUME ClientNext
  PROVE  \/ \E p \in Producers : Full /\ sent[p] < Quota /\ Slept(p)
         \/ \E p \in Producers : Put(p)
         \/ \E c \in Consumers : m_queue = <<>> /\ Slept(c)
         \/ \E c \in Consumers : Took(c)
         \/ \E t \in Clients : Told(t)
         \/ \E t \in Clients : Woke(t)
<1>1. ASSUME NEW p \in Producers, Produce(p)
      PROVE  (Full /\ sent[p] < Quota /\ Slept(p)) \/ Put(p)
  BY <1>1 DEF Produce, PushWaits, Push, CanCall, Sleep, Slept, Put
<1>2. ASSUME NEW c \in Consumers, Consume(c)
      PROVE  (m_queue = <<>> /\ Slept(c)) \/ Took(c)
  BY <1>2 DEF Consume, PopWaits, Pop, CanCall, Sleep, Slept, Took
<1>3. ASSUME NEW t \in Clients, ClientNotifies(t)
      PROVE  Told(t)
  BY <1>3 DEF ClientNotifies, Notify, Told
<1>4. ASSUME NEW t \in Clients, ClientWakes(t)
      PROVE  Woke(t)
  BY <1>4 DEF ClientWakes, WakeUnasked, Woke
<1> QED
  BY <1>1, <1>2, <1>3, <1>4 DEF ClientNext

-----------------------------------------------------------------------------
(* What is in the queue.                                                   *)

LEMMA InitQueueTypeOK == ClientInit => QueueTypeOK
BY SizesAssumption DEF ClientInit, QueueInit, QueueTypeOK

LEMMA NextQueueTypeOK ==
  ASSUME QueueTypeOK, ClientNext
  PROVE  QueueTypeOK'
<1> USE DEF QueueTypeOK, Clients
<1>0. /\ m_iQueueMaxSize \in Nat /\ Quota \in Nat
      /\ m_queue \in Seq(Item) /\ received \in Seq(Item) /\ sent \in [Producers -> 0 .. Quota]
  BY SizesAssumption DEF Item
<1>1. ASSUME NEW t \in Clients, Slept(t) PROVE QueueTypeOK'
  BY <1>1 DEF Slept
<1>2. ASSUME NEW p \in Producers, Put(p) PROVE QueueTypeOK'
  <2>1. <<p, sent[p] + 1>> \in Item /\ sent[p] + 1 \in 0 .. Quota
    BY <1>0, <1>2 DEF Put, Item
  <2>2. m_queue' \in Seq(Item) /\ Len(m_queue') = Len(m_queue) + 1
    BY <1>0, <1>2, <2>1, AppendProperties DEF Put
  <2>3. m_iQueueMaxSize # 0 => Len(m_queue') <= m_iQueueMaxSize
    BY <1>0, <1>2, <2>2 DEF Put, Full
  <2> QED
    BY <1>0, <1>2, <2>1, <2>2, <2>3 DEF Put, Item
<1>3. ASSUME NEW c \in Consumers, Took(c) PROVE QueueTypeOK'
  <2>1. /\ Head(m_queue) \in Item /\ m_queue' \in Seq(Item)
        /\ Len(m_queue') = Len(m_queue) - 1
    BY <1>0, <1>3, HeadTailProperties DEF Took
  <2>2. received' \in Seq(Item)
    BY <1>0, <1>3, <2>1, AppendProperties DEF Took
  <2>3. m_iQueueMaxSize # 0 => Len(m_queue') <= m_iQueueMaxSize
    BY <1>0, <2>1, <1>3 DEF Took
  <2>4. signals' \subseteq Clients \ sleepers
    BY <1>3 DEF Took
  <2> QED
    BY <1>3, <2>1, <2>2, <2>3, <2>4 DEF Took, Item
<1>4. ASSUME NEW t \in Clients, Told(t) PROVE QueueTypeOK'
  BY <1>4 DEF Told
<1>5. ASSUME NEW t \in Clients, Woke(t) PROVE QueueTypeOK'
  BY <1>5 DEF Woke
<1> QED
  BY ClientSteps, <1>1, <1>2, <1>3, <1>4, <1>5 DEF Clients

\* An item leaves the queue for the consumer: what was pushed stays as it was.
LEMMA PushedAfterTook ==
  ASSUME QueueTypeOK, NEW c \in Consumers, Took(c)
  PROVE  Pushed' = Pushed
<1> DEFINE x == Head(m_queue)  r == Tail(m_queue)
<1>1. received \in Seq(Item) /\ m_queue \in Seq(Item) /\ m_queue # <<>>
  BY DEF Took, QueueTypeOK, Item
<1>2. x \in Item /\ r \in Seq(Item) /\ m_queue = <<x>> \o r /\ <<x>> \in Seq(Item)
  BY <1>1
<1>3. received' = received \o <<x>> /\ m_queue' = r
  BY <1>1, <1>2, AppendIsConcat DEF Took
<1> HIDE DEF x, r
<1>4. (received \o <<x>>) \o r = received \o (<<x>> \o r)
  BY <1>1, <1>2, ConcatAssociative
<1> QED
  BY <1>2, <1>3, <1>4 DEF Pushed

LEMMA PushedAfterPut ==
  ASSUME QueueTypeOK, NEW p \in Producers, Put(p)
  PROVE  /\ Pushed \in Seq(Item) /\ <<p, sent[p] + 1>> \in Item
         /\ Pushed' = Append(Pushed, <<p, sent[p] + 1>>)
<1> DEFINE x == <<p, sent[p] + 1>>
<1>1. received \in Seq(Item) /\ m_queue \in Seq(Item) /\ x \in Item
  BY SizesAssumption DEF Put, QueueTypeOK, Item
<1>2. m_queue' = Append(m_queue, x) /\ received' = received
  BY DEF Put
<1> HIDE DEF x
<1>3. m_queue' = m_queue \o <<x>> /\ <<x>> \in Seq(Item)
  BY <1>1, <1>2, AppendIsConcat
<1>4. Pushed \in Seq(Item)
  BY <1>1, ConcatProperties DEF Pushed
<1>5. (received \o m_queue) \o <<x>> = received \o (m_queue \o <<x>>)
  BY <1>1, <1>3, ConcatAssociative
<1>6. Append(Pushed, x) = Pushed \o <<x>>
  BY <1>1, <1>4, AppendIsConcat
<1> QED
  BY <1>1, <1>2, <1>3, <1>4, <1>5, <1>6 DEF Pushed, x

LEMMA InitOrder == ClientInit => NothingLostOrReordered
<1> SUFFICES ASSUME ClientInit PROVE NothingLostOrReordered
  OBVIOUS
<1>1. Pushed = <<>> /\ Len(Pushed) = 0
  BY DEF ClientInit, QueueInit, Pushed
<1>2. {Pushed[i] : i \in 1 .. Len(Pushed)} = {}
  BY <1>1
<1>3. \A x \in Item : ~(x[2] <= sent[x[1]])
  BY SizesAssumption DEF ClientInit, Item
<1> QED
  BY <1>1, <1>2, <1>3 DEF NothingLostOrReordered, Item

LEMMA NextOrder ==
  ASSUME QueueInv, ClientNext
  PROVE  NothingLostOrReordered'
<1>0. QueueTypeOK /\ NothingLostOrReordered
  BY DEF QueueInv
<1>1. CASE Pushed' = Pushed /\ sent' = sent
  BY <1>0, <1>1 DEF NothingLostOrReordered
<1>2. ASSUME NEW p \in Producers, Put(p) PROVE NothingLostOrReordered'
  <2> DEFINE k == sent[p] + 1  n == Len(Pushed)
  <2>1. /\ Pushed \in Seq(Item) /\ <<p, k>> \in Item
        /\ Pushed' = Append(Pushed, <<p, k>>)
    BY <1>0, <1>2, PushedAfterPut
  <2>2. /\ n \in Nat /\ Len(Pushed') = n + 1
        /\ \A i \in 1 .. n : Pushed'[i] = Pushed[i]
        /\ Pushed'[n + 1] = <<p, k>>
    BY <2>1, AppendProperties
  <2>3. /\ sent \in [Producers -> 0 .. Quota] /\ Quota \in Nat
        /\ sent'[p] = k /\ \A q \in Producers \ {p} : sent'[q] = sent[q]
    BY <1>0, <1>2, SizesAssumption DEF Put, QueueTypeOK
  <2>4. {Pushed[i] : i \in 1 .. n} = {x \in Item : x[2] <= sent[x[1]]}
    BY <1>0 DEF NothingLostOrReordered, Item
  <2>5. \A i \in 1 .. n : Pushed[i] \in Item /\ Pushed[i][2] <= sent[Pushed[i][1]]
    BY <2>4
  <2>6. ASSUME NEW i \in 1 .. Len(Pushed'), NEW j \in 1 .. Len(Pushed'), i < j,
               Pushed'[i][1] = Pushed'[j][1]
        PROVE  Pushed'[i][2] < Pushed'[j][2]
    <3>1. i \in 1 .. n /\ Pushed'[i] = Pushed[i]
      BY <2>2, <2>6
    <3>2. CASE j \in 1 .. n
      BY <1>0, <2>2, <2>6, <3>1, <3>2 DEF NothingLostOrReordered
    <3>3. CASE j = n + 1
      <4>1. Pushed'[j][1] = p /\ Pushed'[j][2] = sent[p] + 1
        BY <2>2, <3>3
      <4> QED
        BY <2>3, <2>5, <2>6, <3>1, <4>1 DEF Item
    <3> QED
      BY <2>2, <3>2, <3>3
  <2>7. {Pushed'[i] : i \in 1 .. Len(Pushed')}
          = {Pushed[i] : i \in 1 .. n} \cup {<<p, k>>}
    <3> HIDE DEF k, n
    <3>1. 1 .. Len(Pushed') = (1 .. n) \cup {n + 1} /\ n + 1 \notin 1 .. n
      BY <2>2
    <3> QED
      BY <2>2, <3>1
  <2>8. ASSUME NEW x \in Item
        PROVE  x[2] <= sent'[x[1]] <=> x[2] <= sent[x[1]] \/ x = <<p, k>>
    <3>1. x = <<x[1], x[2]>> /\ x[1] \in Producers /\ x[2] \in 1 .. Quota
      BY DEF Item
    <3>2. CASE x[1] = p
      BY <2>3, <3>1, <3>2
    <3>3. CASE x[1] # p
      <4>1. sent'[x[1]] = sent[x[1]]
        BY <2>3, <3>1, <3>3
      <4>2. x # <<p, k>>
        BY <3>1, <3>3
      <4> QED
        BY <4>1, <4>2
    <3> QED
      BY <3>2, <3>3
  <2>9. {x \in Item : x[2] <= sent'[x[1]]} = {x \in Item : x[2] <= sent[x[1]]} \cup {<<p, k>>}
    <3> HIDE DEF k
    <3> QED
      BY <2>1, <2>8
  <2> QED
    <3> HIDE DEF k
    <3>1. {Pushed'[i] : i \in 1 .. Len(Pushed')} = {x \in Item : x[2] <= sent'[x[1]]}
      BY <2>4, <2>7, <2>9
    <3> QED
      BY <2>6, <3>1 DEF NothingLostOrReordered, Item
<1>3. ASSUME NEW c \in Consumers, Took(c) PROVE NothingLostOrReordered'
  BY <1>0, <1>1, <1>3, PushedAfterTook DEF Took
<1>4. ASSUME NEW t, Slept(t) \/ Told(t) \/ Woke(t) PROVE NothingLostOrReordered'
  BY <1>1, <1>4 DEF Slept, Told, Woke, Pushed
<1> QED
  BY ClientSteps, <1>2, <1>3, <1>4

-----------------------------------------------------------------------------
(* Who sleeps and who is owed a notification.                              *)

LEMMA SleepFacts ==
  ASSUME QueueTypeOK
  PROVE  /\ {Cardinality(Hungry), Cardinality(Blocked), Cardinality(OwedByProducers),
             Cardinality(OwedByConsumers), Cardinality(Producers), Cardinality(Consumers),
             m_iQueueMaxSize, Len(m_queue)} \subseteq Nat
         /\ Hungry # {} => Cardinality(Hungry) > 0
         /\ Blocked # {} => Cardinality(Blocked) > 0
         /\ Cardinality(Hungry) <= Cardinality(Consumers)
         /\ Cardinality(Blocked) <= Cardinality(Producers)
         /\ m_iQueueMaxSize # 0 =>
              m_iQueueMaxSize + 1 >= Cardinality(Producers) + Cardinality(Consumers)
<1>1. /\ Hungry \subseteq Consumers /\ Blocked \subseteq Producers
      /\ OwedByProducers \subseteq Producers /\ OwedByConsumers \subseteq Consumers
      /\ Producers \subseteq Clients /\ Consumers \subseteq Clients
      /\ {} \subseteq Hungry /\ {} \subseteq Blocked
  BY DEF Hungry, Blocked, OwedByProducers, OwedByConsumers, Clients
<1>2. /\ Cardinality(Hungry) \in Nat /\ Cardinality(Consumers) \in Nat
      /\ Cardinality(Hungry) <= Cardinality(Consumers)
  BY <1>1, Counts
<1>3. /\ Cardinality(Blocked) \in Nat /\ Cardinality(Producers) \in Nat
      /\ Cardinality(Blocked) <= Cardinality(Producers)
  BY <1>1, Counts
<1>4. Cardinality(OwedByProducers) \in Nat /\ Cardinality(OwedByConsumers) \in Nat
  BY <1>1, Counts
<1>5. m_iQueueMaxSize \in Nat /\ m_iQueueMaxSize \in Sizes /\ Len(m_queue) \in Nat
  BY SizesAssumption DEF QueueTypeOK
<1>6. Hungry # {} => Cardinality(Hungry) # 0
  BY <1>1, Counts, FS_EmptySet
<1>7. Blocked # {} => Cardinality(Blocked) # 0
  BY <1>1, Counts, FS_EmptySet
<1>8. m_iQueueMaxSize # 0 =>
        m_iQueueMaxSize + 1 >= Cardinality(Producers) + Cardinality(Consumers)
  BY <1>5, PlacesSuffice
<1> QED
  BY <1>2, <1>3, <1>4, <1>5, <1>6, <1>7, <1>8

\* A thread that owes nothing is not among those of its side that do.
LEMMA SideOwesLess ==
  ASSUME NEW X, X \subseteq Clients, NEW t \in X, t \notin signals
  PROVE  Cardinality(signals \cap X) + 1 <= Cardinality(X)
<1>1. Cardinality((signals \cap X) \cup {t}) = Cardinality(signals \cap X) + 1
  BY CountAdd
<1>2. (signals \cap X) \cup {t} \subseteq X
  OBVIOUS
<1> QED
  BY <1>1, <1>2, Counts

LEMMA ProducerSleeps ==
  ASSUME QueueTypeOK, QueueTypeOK', SleepInv, NEW p \in Producers, Full, Slept(p)
  PROVE  SleepInv'
<1> USE SleepFacts DEF Clients
<1>1. m_iQueueMaxSize # 0 /\ Len(m_queue) >= m_iQueueMaxSize
  BY DEF Full
<1>2. Cardinality(OwedByProducers) + 1 <= Cardinality(Producers)
  BY SideOwesLess DEF Slept, OwedByProducers
<1>3. Hungry = {}
  BY <1>1, <1>2 DEF SleepInv, HungryAreOwed
<1>4. Hungry' = {} /\ OwedByConsumers' = OwedByConsumers
  BY <1>3, ClientsAssumption DEF Slept, Hungry, OwedByConsumers
<1>5. /\ Cardinality(Blocked') <= Cardinality(Producers)
      /\ Cardinality(Blocked') \in Nat
  BY Counts DEF Blocked
<1>6. UNCHANGED <<m_iQueueMaxSize, m_queue>> /\ Full'
  BY DEF Slept, Full
<1>7. BlockedAreOwed'
  BY <1>1, <1>4, <1>5, <1>6 DEF BlockedAreOwed
<1> QED
  BY <1>4, <1>6, <1>7 DEF SleepInv, OneSideSleeps, HungryAreOwed, FullForGood

LEMMA ConsumerSleeps ==
  ASSUME QueueTypeOK, QueueTypeOK', SleepInv, NEW c \in Consumers, m_queue = <<>>, Slept(c)
  PROVE  SleepInv'
<1> USE SleepFacts DEF Clients
<1>1. Len(m_queue) = 0
  OBVIOUS
<1>2. Cardinality(OwedByConsumers) + 1 <= Cardinality(Consumers)
  BY SideOwesLess DEF Slept, OwedByConsumers
<1>3. Blocked = {}
  BY <1>1, <1>2 DEF SleepInv, BlockedAreOwed
<1>4. Blocked' = {} /\ OwedByProducers' = OwedByProducers
  BY <1>3, ClientsAssumption DEF Slept, Blocked, OwedByProducers
<1>5. /\ Cardinality(Hungry') <= Cardinality(Consumers)
      /\ Cardinality(Hungry') \in Nat
  BY Counts DEF Hungry
<1>6. Len(m_queue') = 0
  BY <1>1 DEF Slept
<1>7. HungryAreOwed'
  BY <1>4, <1>5, <1>6 DEF HungryAreOwed
<1> QED
  BY <1>4, <1>7 DEF SleepInv, OneSideSleeps, BlockedAreOwed, FullForGood

LEMMA ProducerPuts ==
  ASSUME QueueTypeOK, SleepInv, NEW p \in Producers, Put(p)
  PROVE  SleepInv'
<1> USE SleepFacts DEF Clients
<1>1. Hungry' = Hungry /\ Blocked' = Blocked /\ m_iQueueMaxSize' = m_iQueueMaxSize
  BY DEF Put, Hungry, Blocked
<1>2. OwedByConsumers' = OwedByConsumers
  BY ClientsAssumption DEF Put, OwedByConsumers
<1>3. OwedByProducers' = OwedByProducers \cup {p} /\ p \notin OwedByProducers
  BY DEF Put, OwedByProducers
<1>4. Cardinality(OwedByProducers') = Cardinality(OwedByProducers) + 1
  BY <1>3, CountAdd DEF OwedByProducers
<1>5. Len(m_queue') = Len(m_queue) + 1
  BY DEF Put, QueueTypeOK
<1>6. ~(Consumers = {} /\ Blocked # {})
  BY DEF Put, SleepInv, FullForGood
<1>7. HungryAreOwed'
  BY <1>1, <1>4, <1>5 DEF SleepInv, HungryAreOwed
<1>8. BlockedAreOwed'
  BY <1>1, <1>2, <1>5 DEF SleepInv, BlockedAreOwed
<1> QED
  BY <1>1, <1>6, <1>7, <1>8 DEF SleepInv, OneSideSleeps, FullForGood

LEMMA ConsumerTakes ==
  ASSUME QueueTypeOK, SleepInv, NEW c \in Consumers, Took(c)
  PROVE  SleepInv'
<1> USE SleepFacts DEF Clients
<1>1. Hungry' = Hungry /\ Blocked' = Blocked /\ m_iQueueMaxSize' = m_iQueueMaxSize
  BY DEF Took, Hungry, Blocked
<1>2. OwedByProducers' = OwedByProducers
  BY ClientsAssumption DEF Took, OwedByProducers
<1>3. Len(m_queue') = Len(m_queue) - 1
  BY DEF Took, QueueTypeOK
<1>4. HungryAreOwed'
  BY <1>1, <1>2, <1>3 DEF SleepInv, HungryAreOwed
<1>5. BlockedAreOwed'
  <2>1. SUFFICES ASSUME Blocked # {}, m_iQueueMaxSize # 0 PROVE BlockedAreOwed'
    BY <1>1 DEF SleepInv, BlockedAreOwed
  <2>2. OwedByConsumers' = OwedByConsumers \cup {c} /\ c \notin OwedByConsumers
    BY <2>1 DEF Took, OwedByConsumers
  <2>3. Cardinality(OwedByConsumers') = Cardinality(OwedByConsumers) + 1
    BY <2>2, CountAdd DEF OwedByConsumers
  <2> QED
    BY <1>1, <1>3, <2>1, <2>3 DEF SleepInv, BlockedAreOwed
<1> QED
  BY <1>1, <1>4, <1>5 DEF SleepInv, OneSideSleeps, FullForGood

\* A notification is used up, and a sleeper of the only side that sleeps wakes.
LEMMA NotificationArrives ==
  ASSUME QueueTypeOK, QueueTypeOK', SleepInv, NEW t \in Clients, Told(t)
  PROVE  SleepInv'
<1> USE SleepFacts DEF Clients
<1>0. UNCHANGED <<m_iQueueMaxSize, m_queue>> /\ (Full' <=> Full)
  BY DEF Told, Full
<1>1. CASE sleepers' = {}
  BY <1>1 DEF Hungry, Blocked, SleepInv, OneSideSleeps, HungryAreOwed, BlockedAreOwed,
              FullForGood
<1>2. ASSUME NEW X, X \subseteq Clients
      PROVE  /\ Cardinality(signals' \cap X) \in Nat /\ Cardinality(signals \cap X) \in Nat
             /\ Cardinality(signals' \cap X) >= Cardinality(signals \cap X) - 1
  <2>1. /\ t \in signals /\ signals' = signals \ {t}
        /\ signals' \cap X \subseteq X /\ signals \cap X \subseteq X
    BY DEF Told
  <2>2. Cardinality(signals' \cap X) \in Nat /\ Cardinality(signals \cap X) \in Nat
    BY <1>2, <2>1, Counts
  <2>3. CASE t \in X
    <3>1. signals' \cap X = (signals \cap X) \ {t} /\ t \in signals \cap X
      BY <2>1, <2>3
    <3>2. Cardinality(signals' \cap X) = Cardinality(signals \cap X) - 1
      BY <1>2, <3>1, CountRemove
    <3> QED
      BY <2>2, <3>2
  <2>4. CASE t \notin X
    <3>1. signals' \cap X = signals \cap X
      BY <2>1, <2>4
    <3>2. Cardinality(signals' \cap X) = Cardinality(signals \cap X)
      BY <3>1, Zenon
    <3> QED
      BY <2>2, <3>2
  <2> QED
    BY <2>3, <2>4
<1>3. ASSUME NEW s \in Hungry, sleepers' = sleepers \ {s}
      PROVE  SleepInv'
  <2>1. Blocked = {} /\ Blocked' = {} /\ Hungry' = Hungry \ {s}
    BY <1>3 DEF SleepInv, OneSideSleeps, Hungry, Blocked
  <2>2. Cardinality(Hungry') = Cardinality(Hungry) - 1
    BY <2>1, CountRemove DEF Hungry
  <2>3. /\ Cardinality(OwedByProducers') >= Cardinality(OwedByProducers) - 1
        /\ Cardinality(OwedByProducers') \in Nat
    BY <1>2 DEF OwedByProducers
  <2>4. HungryAreOwed'
    BY <1>0, <2>2, <2>3 DEF SleepInv, HungryAreOwed
  <2> QED
    BY <2>1, <2>4 DEF SleepInv, OneSideSleeps, BlockedAreOwed, FullForGood
<1>4. ASSUME NEW s \in Blocked, sleepers' = sleepers \ {s}
      PROVE  SleepInv'
  <2>1. Hungry = {} /\ Hungry' = {} /\ Blocked' = Blocked \ {s} /\ Blocked # {}
    BY <1>4 DEF SleepInv, OneSideSleeps, Hungry, Blocked
  <2>2. Cardinality(Blocked') = Cardinality(Blocked) - 1
    BY <2>1, CountRemove DEF Blocked
  <2>3. /\ Cardinality(OwedByConsumers') >= Cardinality(OwedByConsumers) - 1
        /\ Cardinality(OwedByConsumers') \in Nat
    BY <1>2 DEF OwedByConsumers
  <2>4. BlockedAreOwed'
    BY <1>0, <2>1, <2>2, <2>3, SMTT(40) DEF SleepInv, BlockedAreOwed
  <2> QED
    BY <1>0, <2>1, <2>4 DEF SleepInv, OneSideSleeps, HungryAreOwed, FullForGood
<1> QED
  BY <1>1, <1>3, <1>4 DEF Told, Hungry, Blocked, QueueTypeOK

LEMMA SleeperWakes ==
  ASSUME QueueTypeOK, QueueTypeOK', SleepInv, NEW t \in Clients, Woke(t)
  PROVE  SleepInv'
<1> USE SleepFacts DEF Clients
<1>1. /\ UNCHANGED <<m_iQueueMaxSize, m_queue, signals>> /\ (Full' <=> Full)
      /\ OwedByProducers' = OwedByProducers /\ OwedByConsumers' = OwedByConsumers
  BY DEF Woke, Full, OwedByProducers, OwedByConsumers
<1>2. /\ Hungry' \subseteq Hungry /\ Hungry \subseteq Clients
      /\ Blocked' \subseteq Blocked /\ Blocked \subseteq Clients
  BY DEF Woke, Hungry, Blocked
<1>3. Cardinality(Hungry') \in Nat /\ Cardinality(Hungry') <= Cardinality(Hungry)
  BY <1>2, Counts
<1>4. Cardinality(Blocked') \in Nat /\ Cardinality(Blocked') <= Cardinality(Blocked)
  BY <1>2, Counts
<1>5. HungryAreOwed'
  BY <1>1, <1>2, <1>3 DEF SleepInv, HungryAreOwed
<1>6. BlockedAreOwed'
  BY <1>1, <1>2, <1>4 DEF SleepInv, BlockedAreOwed
<1> QED
  BY <1>1, <1>2, <1>5, <1>6 DEF SleepInv, OneSideSleeps, FullForGood

-----------------------------------------------------------------------------
(* The theorems.                                                           *)

LEMMA InitQueueIInv == ClientInit => QueueIInv
<1> SUFFICES ASSUME ClientInit PROVE QueueIInv
  OBVIOUS
<1>1. Hungry = {} /\ Blocked = {}
  BY DEF ClientInit, QueueInit, Hungry, Blocked
<1>2. SleepInv
  BY <1>1 DEF SleepInv, OneSideSleeps, HungryAreOwed, BlockedAreOwed, FullForGood
<1> QED
  BY <1>2, InitQueueTypeOK, InitOrder DEF QueueIInv, QueueInv

LEMMA NextQueueIInv == QueueIInv /\ [ClientNext]_clientVars => QueueIInv'
<1> SUFFICES ASSUME QueueIInv, [ClientNext]_clientVars PROVE QueueIInv'
  OBVIOUS
<1>0. QueueTypeOK /\ QueueInv /\ SleepInv
  BY DEF QueueIInv, QueueInv
<1>1. CASE ClientNext
  <2>1. QueueTypeOK' /\ NothingLostOrReordered'
    BY <1>0, <1>1, NextQueueTypeOK, NextOrder
  <2>2. SleepInv'
    BY <1>0, <1>1, <2>1, ClientSteps, ProducerSleeps, ConsumerSleeps, ProducerPuts, ConsumerTakes,
       NotificationArrives, SleeperWakes
  <2> QED
    BY <2>1, <2>2 DEF QueueIInv, QueueInv
<1>2. CASE UNCHANGED clientVars
  <2>1. UNCHANGED <<m_iQueueMaxSize, m_queue, sleepers, signals, sent, received>>
    BY <1>2 DEF clientVars, queueVars
  <2>2. QueueTypeOK'
    BY <1>0, <2>1 DEF QueueTypeOK
  <2>3. NothingLostOrReordered'
    BY <2>1 DEF QueueIInv, QueueInv, NothingLostOrReordered, Pushed
  <2>4. /\ Hungry' = Hungry /\ Blocked' = Blocked /\ (Full' <=> Full)
        /\ OwedByProducers' = OwedByProducers /\ OwedByConsumers' = OwedByConsumers
    BY <2>1 DEF Hungry, Blocked, Full, OwedByProducers, OwedByConsumers
  <2>5. SleepInv'
    BY <1>0, <2>1, <2>4 DEF SleepInv, OneSideSleeps, HungryAreOwed, BlockedAreOwed, FullForGood
  <2> QED
    BY <2>2, <2>3, <2>5 DEF QueueIInv, QueueInv
<1> QED
  BY <1>1, <1>2

LEMMA QueueIInvAlways == ClientSpec => []QueueIInv
BY InitQueueIInv, NextQueueIInv, PTL DEF ClientSpec

\* A bounded queue keeps its bound, and Push and Pop lose, repeat and reorder no item of a
\* producer (BlockingQueue::Push, Pop): for any number of clients and of items, any size.
THEOREM QueueKeepsOrder == ClientSpec => []QueueInv
<1>1. QueueIInv => QueueInv
  BY DEF QueueIInv
<1> QED
  BY <1>1, QueueIInvAlways, PTL

\* While a thread sleeps in Push or Pop that the queue would let go on, another is awake
\* with a step of its own, although both sides share one condition variable and notify_one
\* may wake either: for any number of clients, one more than the queue has places.
THEOREM NobodyIsStranded == ClientSpec => []StrandsNobody
<1>1. QueueIInv => StrandsNobody
  <2> SUFFICES ASSUME QueueIInv,
                      \/ \E c \in Consumers : c \in sleepers /\ m_queue # <<>>
                      \/ \E p \in Producers : p \in sleepers /\ ~Full
               PROVE  \E t \in Clients \ sleepers :
                        t \in Consumers \cup signals \/ sent[t] < Quota
    BY DEF StrandsNobody
  <2>0. QueueTypeOK /\ SleepInv
    BY DEF QueueIInv, QueueInv
  <2>1. CASE Consumers \ sleepers # {}
    BY <2>1 DEF Clients
  <2>2. CASE Consumers \subseteq sleepers /\ Hungry # {} /\ m_queue # <<>>
    <3>1. Hungry = Consumers
      BY <2>2 DEF Hungry
    <3>2. Len(m_queue) > 0
      BY <2>0, <2>2 DEF QueueTypeOK
    <3>3. Cardinality(OwedByProducers) # 0
      BY <2>0, <2>2, <3>1, <3>2, SleepFacts DEF SleepInv, HungryAreOwed
    <3>4. OwedByProducers # {}
      BY <3>3, FS_EmptySet
    <3> QED
      BY <2>0, <3>4 DEF OwedByProducers, Clients, QueueTypeOK
  <2>3. CASE Consumers \subseteq sleepers /\ Blocked # {} /\ ~Full
    <3>1. Consumers = {}
      BY <2>0, <2>3 DEF SleepInv, OneSideSleeps, Hungry
    <3> QED
      BY <2>0, <2>3, <3>1 DEF SleepInv, FullForGood
  <2> QED
    BY <2>1, <2>2, <2>3 DEF Hungry, Blocked
<1> QED
  BY <1>1, QueueIInvAlways, PTL

-----------------------------------------------------------------------------
(* The thread pool.                                                        *)

WorkerPlaces == {"pop", "taken", "start", "run", "notify", "exited"}
WaitPlaces == {"allQueue", "allCount", "allWait", "allAsleep",
               "untilQueue", "untilCount", "untilWait", "untilAsleep"}

\* Each kind of thread at its own places, with what the place promises.
ThreadInv ==
  /\ \A w \in Workers :
       /\ pc[w] \in WorkerPlaces
       /\ pc[w] \in {"start", "run"} => task[w] \in Tasks
  /\ \A u \in Users :
       /\ pc[u] \in WaitPlaces \cup {"idle", "destroy"}
       /\ pc[u] \in WaitPlaces => destructor = "none"
  /\ destructor = "none" => ~m_bStopping

\* What a user that waits knows of the tasks added before.
WaitInv ==
  \A u \in Users : /\ before[u] \subseteq Added
                   /\ pc[u] = "allCount" => before[u] \cap Queued = {}

PoolIInv == PoolTypeOK /\ ThreadInv /\ EachTaskInOnePlace /\ WaitInv

Running == {w \in Workers : pc[w] = "run"}

\* PoolTypeOK without the count of active workers, which only two steps change.
PoolTypes ==
  /\ m_iQueueMaxSize = 0
  /\ m_queue \in Seq(Tasks \cup {EmptyTask})
  /\ sleepers \subseteq Workers
  /\ signals \subseteq Users
  /\ pc \in [Threads -> WorkerPlaces \cup WaitPlaces \cup {"idle", "destroy"}]
  /\ task \in [Workers -> Tasks \cup {EmptyTask}]
  /\ m_bStopping \in BOOLEAN
  /\ waiters \subseteq Users
  /\ destructor \in {"none", "push", "join", "done"}
  /\ emptyTasks \in 0 .. Cardinality(Workers)
  /\ before \in [Users -> SUBSET Tasks]
  /\ done \subseteq Tasks
  /\ dropped \subseteq Tasks \cup {EmptyTask}

LEMMA PoolTypeSplit ==
  /\ PoolTypeOK <=> PoolTypes /\ m_iActiveWorkersCnt = Cardinality(Running)
  /\ PoolTypeOK' <=> PoolTypes' /\ (m_iActiveWorkersCnt = Cardinality(Running))'
<1>1. PoolTypeOK <=> PoolTypes /\ m_iActiveWorkersCnt = Cardinality(Running)
  BY DEF PoolTypeOK, PoolTypes, Running, WorkerPlaces, WaitPlaces
<1>2. PoolTypeOK' <=> PoolTypes' /\ (m_iActiveWorkersCnt = Cardinality(Running))'
  BY DEF PoolTypeOK, PoolTypes, Running, WorkerPlaces, WaitPlaces
<1> QED
  BY <1>1, <1>2

LEMMA InitPoolIInv == Init => PoolIInv
<1> SUFFICES ASSUME Init PROVE PoolIInv
  OBVIOUS
<1> USE TasksAssumption, ThreadsAssumption DEF Init, QueueInit, Threads
<1>1. Running = {}
  BY DEF Running
<1>2. Cardinality(Workers) \in Nat
  BY FS_CardinalityType
<1>3. PoolTypeOK
  <2>1. m_iActiveWorkersCnt = Cardinality(Running) /\ emptyTasks \in 0 .. Cardinality(Workers)
    <3>1. Cardinality(Running) = 0
      BY <1>1, FS_EmptySet
    <3> QED
      BY <1>2, <3>1
  <2>2. PoolTypes
    <3>1. m_queue \in Seq(Tasks \cup {EmptyTask})
      OBVIOUS
    <3>2. pc \in [Threads -> WorkerPlaces \cup WaitPlaces \cup {"idle", "destroy"}]
      BY DEF WorkerPlaces, WaitPlaces
    <3>3. /\ task \in [Workers -> Tasks \cup {EmptyTask}]
          /\ before \in [Users -> SUBSET Tasks]
      OBVIOUS
    <3>4. m_iQueueMaxSize = 0 /\ sleepers = {} /\ signals = {}
      OBVIOUS
    <3> QED
      BY <2>1, <3>1, <3>2, <3>3, <3>4 DEF PoolTypes
  <2> QED
    BY <2>1, <2>2, PoolTypeSplit
<1>4. ThreadInv
  BY DEF ThreadInv, WorkerPlaces, WaitPlaces
<1>5. Queued = {} /\ \A w \in Workers : Held(w) = {}
  BY DEF Queued, Held
<1>6. EachTaskInOnePlace
  BY <1>5 DEF EachTaskInOnePlace, InHands
<1>7. WaitInv
  BY <1>5 DEF WaitInv
<1> QED
  BY <1>3, <1>4, <1>6, <1>7 DEF PoolIInv

-----------------------------------------------------------------------------
(* The queue as a set of tasks.                                            *)
LEMMA QueuedAfterPush ==
  ASSUME NEW S, m_queue \in Seq(S), NEW item \in S, m_queue' = Append(m_queue, item)
  PROVE  /\ m_queue' \in Seq(S)
         /\ Queued' = Queued \cup {item}
<1>1. /\ m_queue' \in Seq(S) /\ Len(m_queue') = Len(m_queue) + 1
      /\ DOMAIN m_queue = 1 .. Len(m_queue) /\ DOMAIN m_queue' = 1 .. Len(m_queue) + 1
      /\ \A i \in 1 .. Len(m_queue) : m_queue'[i] = m_queue[i]
      /\ m_queue'[Len(m_queue) + 1] = item
  OBVIOUS
<1>2. Len(m_queue) \in Nat
  OBVIOUS
<1>3. ASSUME NEW x \in Queued' PROVE x \in Queued \cup {item}
  <2>1. PICK i \in 1 .. Len(m_queue) + 1 : m_queue'[i] = x
    BY <1>1 DEF Queued
  <2>2. i \in 1 .. Len(m_queue) \/ i = Len(m_queue) + 1
    BY <1>2
  <2> QED
    BY <1>1, <2>1, <2>2 DEF Queued
<1>4. ASSUME NEW x \in Queued PROVE x \in Queued'
  <2>1. PICK i \in 1 .. Len(m_queue) : m_queue[i] = x
    BY <1>1 DEF Queued
  <2>2. i \in 1 .. Len(m_queue) + 1
    BY <1>2
  <2> QED
    BY <1>1, <2>1, <2>2 DEF Queued
<1>5. item \in Queued'
  <2>1. Len(m_queue) + 1 \in 1 .. Len(m_queue) + 1
    BY <1>2
  <2> QED
    BY <1>1, <2>1 DEF Queued
<1> QED
  BY <1>1, <1>3, <1>4, <1>5

LEMMA QueuedAfterPop ==
  ASSUME NEW S, m_queue \in Seq(S), m_queue # <<>>, m_queue' = Tail(m_queue)
  PROVE  /\ m_queue' \in Seq(S) /\ Head(m_queue) \in S
         /\ Queued = Queued' \cup {Head(m_queue)}
<1>1. /\ m_queue' \in Seq(S) /\ Len(m_queue) \in Nat /\ Len(m_queue) > 0
      /\ DOMAIN m_queue = 1 .. Len(m_queue) /\ DOMAIN m_queue' = 1 .. Len(m_queue) - 1
      /\ \A i \in 1 .. Len(m_queue) - 1 : m_queue'[i] = m_queue[i + 1]
      /\ m_queue[1] = Head(m_queue) /\ Head(m_queue) \in S
  OBVIOUS
<1>2. ASSUME NEW x \in Queued PROVE x \in Queued' \cup {Head(m_queue)}
  <2>1. PICK i \in 1 .. Len(m_queue) : m_queue[i] = x
    BY <1>1 DEF Queued
  <2>2. CASE i = 1
    BY <1>1, <2>1, <2>2
  <2>3. CASE i # 1
    <3>1. i - 1 \in 1 .. Len(m_queue) - 1 /\ (i - 1) + 1 = i
      BY <1>1, <2>3
    <3>2. m_queue'[i - 1] = x
      BY <1>1, <2>1, <3>1
    <3> QED
      BY <1>1, <3>1, <3>2 DEF Queued
  <2> QED
    BY <2>2, <2>3
<1>3. ASSUME NEW x \in Queued' PROVE x \in Queued
  <2>1. PICK i \in 1 .. Len(m_queue) - 1 : m_queue'[i] = x
    BY <1>1 DEF Queued
  <2>2. i + 1 \in 1 .. Len(m_queue)
    BY <1>1
  <2> QED
    BY <1>1, <2>1, <2>2 DEF Queued
<1>4. Head(m_queue) \in Queued
  <2>1. 1 \in 1 .. Len(m_queue)
    BY <1>1
  <2> QED
    BY <1>1, <2>1 DEF Queued
<1> QED
  BY <1>1, <1>2, <1>3, <1>4

\* No task is queued twice; empty tasks are.
QueueIsSimple ==
  \A i, j \in DOMAIN m_queue : m_queue[i] = m_queue[j] => i = j \/ m_queue[i] = EmptyTask

LEMMA PushKeepsSimple ==
  ASSUME NEW S, m_queue \in Seq(S), QueueIsSimple, NEW item \in S,
         item = EmptyTask \/ item \notin Queued, m_queue' = Append(m_queue, item)
  PROVE  QueueIsSimple'
<1>1. /\ Len(m_queue) \in Nat
      /\ DOMAIN m_queue = 1 .. Len(m_queue) /\ DOMAIN m_queue' = 1 .. Len(m_queue) + 1
      /\ \A i \in 1 .. Len(m_queue) : m_queue'[i] = m_queue[i]
      /\ m_queue'[Len(m_queue) + 1] = item
  OBVIOUS
<1>2. \A i \in 1 .. Len(m_queue) : m_queue[i] = item => item = EmptyTask
  BY <1>1 DEF Queued
<1>3. \A i \in 1 .. Len(m_queue) + 1 : i \in 1 .. Len(m_queue) \/ i = Len(m_queue) + 1
  BY <1>1
<1> QED
  BY <1>1, <1>2, <1>3 DEF QueueIsSimple

LEMMA PopKeepsSimple ==
  ASSUME NEW S, m_queue \in Seq(S), m_queue # <<>>, QueueIsSimple, m_queue' = Tail(m_queue)
  PROVE  QueueIsSimple' /\ (Head(m_queue) = EmptyTask \/ Head(m_queue) \notin Queued')
<1>1. /\ Len(m_queue) \in Nat /\ Len(m_queue) > 0
      /\ DOMAIN m_queue = 1 .. Len(m_queue) /\ DOMAIN m_queue' = 1 .. Len(m_queue) - 1
      /\ \A i \in 1 .. Len(m_queue) - 1 : m_queue'[i] = m_queue[i + 1]
      /\ m_queue[1] = Head(m_queue)
  OBVIOUS
<1>2. \A i \in 1 .. Len(m_queue) - 1 : i + 1 \in 1 .. Len(m_queue) /\ i + 1 # 1
  BY <1>1
<1>3. \A i, j \in 1 .. Len(m_queue) - 1 : i + 1 = j + 1 => i = j
  BY <1>1
<1>4. 1 \in 1 .. Len(m_queue)
  BY <1>1
<1>5. QueueIsSimple'
  BY <1>1, <1>2, <1>3 DEF QueueIsSimple
<1>6. ASSUME NEW i \in 1 .. Len(m_queue) - 1, m_queue'[i] = Head(m_queue)
      PROVE  Head(m_queue) = EmptyTask
  BY <1>1, <1>2, <1>4, <1>6 DEF QueueIsSimple
<1> QED
  BY <1>1, <1>5, <1>6 DEF Queued

-----------------------------------------------------------------------------
(* Steps as moves of tasks between places.                                 *)
LEMMA CountUnchanged ==
  ASSUME m_iActiveWorkersCnt = Cardinality(Running), UNCHANGED m_iActiveWorkersCnt,
         \A w \in Workers : pc[w] = "run" <=> pc'[w] = "run"
  PROVE  (m_iActiveWorkersCnt = Cardinality(Running))'
<1>1. Running' = Running
  BY DEF Running
<1> QED
  BY <1>1

\* Nothing that was added vanishes and nothing gets back into the queue.
LEMMA WaitInvFrame ==
  ASSUME WaitInv, Added \subseteq Added', Queued' \cap Added \subseteq Queued,
         \A u \in Users : before'[u] = before[u] \/ before'[u] = {},
         \A u \in Users : pc'[u] = "allCount" => pc[u] = "allCount" \/ Queued' = {}
  PROVE  WaitInv'
BY DEF WaitInv

\* Every place a task can be in is as it was.
LEMMA PlacesUnchanged ==
  ASSUME EachTaskInOnePlace, UNCHANGED <<m_queue, done, dropped>>, m_bStopping => m_bStopping',
         \A w \in Workers : Held(w)' = Held(w)
  PROVE  EachTaskInOnePlace' /\ Queued' = Queued /\ Added' = Added
<1>1. Queued' = Queued
  BY DEF Queued
<1>2. InHands' = InHands
  BY DEF InHands
<1> QED
  BY <1>1, <1>2 DEF EachTaskInOnePlace, Added

LEMMA HandsAfterTaking ==
  ASSUME NEW w \in Workers, Held(w) = {}, \A v \in Workers \ {w} : Held(v)' = Held(v)
  PROVE  InHands' = InHands \cup Held(w)'
<1>1. \A x : x \in InHands' <=> x \in Held(w)' \/ \E v \in Workers \ {w} : x \in Held(v)
  BY DEF InHands
<1>2. \A x : x \in InHands <=> \E v \in Workers \ {w} : x \in Held(v)
  BY DEF InHands
<1> QED
  BY <1>1, <1>2

LEMMA HandsAfterGiving ==
  ASSUME EachTaskInOnePlace, NEW w \in Workers, Held(w)' = {},
         \A v \in Workers \ {w} : Held(v)' = Held(v)
  PROVE  InHands = InHands' \cup Held(w) /\ Tasks \cap Held(w) \cap InHands' = {}
<1>1. \A x : x \in InHands <=> x \in Held(w) \/ \E v \in Workers \ {w} : x \in Held(v)
  BY DEF InHands
<1>2. \A x : x \in InHands' <=> \E v \in Workers \ {w} : x \in Held(v)
  BY DEF InHands
<1>3. \A x \in Tasks : \A v \in Workers \ {w} : ~(x \in Held(v) /\ x \in Held(w))
  BY DEF EachTaskInOnePlace
<1> QED
  BY <1>1, <1>2, <1>3

LEMMA PopTaskStep ==
  ASSUME PoolIInv, NEW w \in Workers, PopTask(w)
  PROVE  PoolIInv'
<1> USE ThreadsAssumption DEF Threads
<1>0. PoolTypes /\ m_iActiveWorkersCnt = Cardinality(Running)
  BY PoolTypeSplit DEF PoolIInv
<1>1. CASE PopWaits(w) /\ UNCHANGED <<pc, task>>
  <2>1. /\ sleepers' = sleepers \cup {w}
        /\ UNCHANGED <<m_iQueueMaxSize, m_queue, signals, pc, task, userVars, m_bStopping,
                       m_iActiveWorkersCnt, done, dropped>>
    BY <1>1 DEF PopTask, PopWaits, Sleep
  <2>2. PoolTypeOK'
    <3>1. PoolTypes'
      BY <1>0, <2>1 DEF PoolTypes, userVars
    <3> QED
      BY <1>0, <2>1, <3>1, CountUnchanged, PoolTypeSplit
  <2>3. ThreadInv'
    BY <2>1 DEF PoolIInv, ThreadInv, userVars
  <2>4. EachTaskInOnePlace' /\ Queued' = Queued /\ Added' = Added
    BY <2>1, PlacesUnchanged DEF PoolIInv, Held
  <2>5. WaitInv'
    BY <2>1, <2>4, WaitInvFrame DEF PoolIInv, userVars
  <2> QED
    BY <2>2, <2>3, <2>4, <2>5 DEF PoolIInv
<1>2. CASE Pop(w) /\ task' = [task EXCEPT ![w] = Head(m_queue)] /\ Goto(w, "taken")
  <2>1. /\ m_queue # <<>> /\ m_queue' = Tail(m_queue) /\ signals' = signals
        /\ UNCHANGED <<m_iQueueMaxSize, sleepers, userVars, m_bStopping, m_iActiveWorkersCnt,
                       done, dropped>>
    BY <1>0, <1>2 DEF PopTask, Pop, PoolTypes
  <2>2. /\ pc[w] = "pop" /\ pc'[w] = "taken" /\ task'[w] = Head(m_queue)
        /\ \A t \in Threads \ {w} : pc'[t] = pc[t]
        /\ \A v \in Workers \ {w} : task'[v] = task[v]
    BY <1>0, <1>2 DEF PopTask, Goto, PoolTypes
  <2>3. PICK head \in Tasks \cup {EmptyTask} : head = Head(m_queue)
    BY <1>0, <2>1, QueuedAfterPop DEF PoolTypes
  <2>4. m_queue' \in Seq(Tasks \cup {EmptyTask}) /\ Queued = Queued' \cup {head}
    BY <1>0, <2>1, <2>3, QueuedAfterPop DEF PoolTypes
  <2>5. QueueIsSimple' /\ (head = EmptyTask \/ head \notin Queued')
    BY <1>0, <2>1, <2>3, PopKeepsSimple DEF PoolTypes, QueueIsSimple, PoolIInv, EachTaskInOnePlace
  <2>6. /\ Held(w) = {} /\ Held(w)' = {head}
        /\ \A v \in Workers \ {w} : Held(v)' = Held(v)
    BY <2>2, <2>3 DEF Held
  <2>7. InHands' = InHands \cup {head}
    BY <2>6, HandsAfterTaking
  <2>8. PoolTypeOK'
    <3>1. PoolTypes'
      BY <1>0, <1>2, <2>1, <2>3, <2>4 DEF PoolTypes, Goto, userVars, WorkerPlaces
    <3> QED
      BY <1>0, <2>1, <2>2, <3>1, CountUnchanged, PoolTypeSplit
  <2>9. ThreadInv'
    BY <2>1, <2>2 DEF PoolIInv, ThreadInv, userVars, WorkerPlaces
  <2>10. EachTaskInOnePlace'
    <3>1. \A v \in Workers : v # w => Tasks \cap Held(v)' \cap Held(w)' = {}
      BY <2>4, <2>6, TasksAssumption DEF PoolIInv, EachTaskInOnePlace, InHands
    <3>2. \A u, v \in Workers : u # v => Tasks \cap Held(u)' \cap Held(v)' = {}
      BY <2>6, <3>1 DEF PoolIInv, EachTaskInOnePlace
    <3> QED
      BY <2>1, <2>4, <2>5, <2>7, <3>2, TasksAssumption
         DEF PoolIInv, EachTaskInOnePlace, QueueIsSimple
  <2>11. Added' = Added
    BY <2>1, <2>4, <2>7 DEF Added
  <2>12. WaitInv'
    BY <2>1, <2>2, <2>4, <2>11, WaitInvFrame DEF PoolIInv, userVars
  <2> QED
    BY <2>8, <2>9, <2>10, <2>12 DEF PoolIInv
<1> QED
  BY <1>1, <1>2 DEF PopTask

LEMMA ReadStoppingStep ==
  ASSUME PoolIInv, NEW w \in Workers, ReadStopping(w)
  PROVE  PoolIInv'
<1> USE ThreadsAssumption DEF Threads
<1>0. PoolTypes /\ m_iActiveWorkersCnt = Cardinality(Running)
  BY PoolTypeSplit DEF PoolIInv
<1>1. /\ pc[w] = "taken"
      /\ \A t \in Threads \ {w} : pc'[t] = pc[t]
      /\ UNCHANGED <<queueVars, userVars, task, m_bStopping, m_iActiveWorkersCnt, done>>
  BY <1>0 DEF ReadStopping, Goto, PoolTypes
<1>2. /\ Queued' = Queued /\ Held(w) = {task[w]}
      /\ \A v \in Workers \ {w} : Held(v)' = Held(v)
  BY <1>1 DEF Queued, Held, queueVars
<1>3. CASE m_bStopping
  <2>1. pc'[w] = "exited" /\ dropped' = dropped \cup {task[w]} /\ Goto(w, "exited")
    BY <1>0, <1>3 DEF ReadStopping, Goto, PoolTypes
  <2>2. PoolTypeOK'
    <3>1. PoolTypes'
      BY <1>0, <1>1, <2>1 DEF PoolTypes, Goto, queueVars, userVars, WorkerPlaces
    <3> QED
      BY <1>0, <1>1, <2>1, <3>1, CountUnchanged, PoolTypeSplit
  <2>3. ThreadInv'
    BY <1>1, <2>1 DEF PoolIInv, ThreadInv, userVars, WorkerPlaces
  <2>4. Held(w)' = {}
    BY <2>1 DEF Held
  <2>5. /\ InHands = InHands' \cup {task[w]}
        /\ Tasks \cap {task[w]} \cap InHands' = {}
    BY <1>2, <2>4, HandsAfterGiving DEF PoolIInv
  <2>6. EachTaskInOnePlace'
    <3>1. \A u, v \in Workers : u # v => Tasks \cap Held(u)' \cap Held(v)' = {}
      BY <1>2, <2>4 DEF PoolIInv, EachTaskInOnePlace
    <3> QED
      BY <1>1, <1>2, <1>3, <2>1, <2>5, <3>1 DEF PoolIInv, EachTaskInOnePlace, queueVars
  <2>7. Added' = Added
    BY <1>1, <1>2, <2>1, <2>5 DEF Added
  <2>8. WaitInv'
    BY <1>1, <1>2, <2>7, WaitInvFrame DEF PoolIInv, userVars
  <2> QED
    BY <2>2, <2>3, <2>6, <2>8 DEF PoolIInv
<1>4. CASE ~m_bStopping /\ task[w] # EmptyTask
  <2>1. pc'[w] = "start" /\ dropped' = dropped /\ Goto(w, "start")
    BY <1>0, <1>4 DEF ReadStopping, Goto, PoolTypes
  <2>2. PoolTypeOK'
    <3>1. PoolTypes'
      BY <1>0, <1>1, <2>1 DEF PoolTypes, Goto, queueVars, userVars, WorkerPlaces
    <3> QED
      BY <1>0, <1>1, <2>1, <3>1, CountUnchanged, PoolTypeSplit
  <2>3. ThreadInv'
    BY <1>0, <1>1, <1>4, <2>1 DEF PoolIInv, ThreadInv, userVars, WorkerPlaces, PoolTypes
  <2>4. \A v \in Workers : Held(v)' = Held(v)
    BY <1>1, <1>2, <2>1 DEF Held
  <2>5. EachTaskInOnePlace' /\ Queued' = Queued /\ Added' = Added
    BY <1>1, <2>1, <2>4, PlacesUnchanged DEF PoolIInv, queueVars
  <2>6. WaitInv'
    BY <1>1, <2>5, WaitInvFrame DEF PoolIInv, userVars
  <2> QED
    BY <2>2, <2>3, <2>5, <2>6 DEF PoolIInv
<1>5. CASE ~m_bStopping /\ task[w] = EmptyTask
  <2>1. pc'[w] = "notify" /\ dropped' = dropped /\ Goto(w, "notify")
    BY <1>0, <1>5 DEF ReadStopping, Goto, PoolTypes
  <2>2. PoolTypeOK'
    <3>1. PoolTypes'
      BY <1>0, <1>1, <2>1 DEF PoolTypes, Goto, queueVars, userVars, WorkerPlaces
    <3> QED
      BY <1>0, <1>1, <2>1, <3>1, CountUnchanged, PoolTypeSplit
  <2>3. ThreadInv'
    BY <1>1, <2>1 DEF PoolIInv, ThreadInv, userVars, WorkerPlaces
  <2>4. Held(w)' = {}
    BY <2>1 DEF Held
  <2>5. InHands = InHands' \cup {EmptyTask}
    BY <1>2, <1>5, <2>4, HandsAfterGiving DEF PoolIInv
  <2>6. EachTaskInOnePlace'
    <3>1. \A u, v \in Workers : u # v => Tasks \cap Held(u)' \cap Held(v)' = {}
      BY <1>2, <2>4 DEF PoolIInv, EachTaskInOnePlace
    <3> QED
      BY <1>1, <1>2, <2>1, <2>5, <3>1 DEF PoolIInv, EachTaskInOnePlace, queueVars
  <2>7. Added' = Added
    BY <1>1, <1>2, <2>1, <2>5, TasksAssumption DEF Added
  <2>8. WaitInv'
    BY <1>1, <1>2, <2>7, WaitInvFrame DEF PoolIInv, userVars
  <2> QED
    BY <2>2, <2>3, <2>6, <2>8 DEF PoolIInv
<1> QED
  BY <1>3, <1>4, <1>5

LEMMA StartTaskStep ==
  ASSUME PoolIInv, NEW w \in Workers, StartTask(w)
  PROVE  PoolIInv'
<1> USE ThreadsAssumption DEF Threads
<1>0. PoolTypes /\ m_iActiveWorkersCnt = Cardinality(Running)
  BY PoolTypeSplit DEF PoolIInv
<1>1. /\ pc[w] = "start" /\ pc'[w] = "run" /\ Goto(w, "run")
      /\ \A t \in Threads \ {w} : pc'[t] = pc[t]
      /\ UNCHANGED <<queueVars, userVars, task, m_bStopping, done, dropped>>
  BY <1>0 DEF StartTask, Goto, PoolTypes
<1>2. PoolTypeOK'
  <2>1. PoolTypes'
    BY <1>0, <1>1 DEF PoolTypes, Goto, queueVars, userVars, WorkerPlaces
  <2>2. Running' = Running \cup {w} /\ w \notin Running
    BY <1>1 DEF Running
  <2>3. IsFiniteSet(Running)
    BY FS_Subset DEF Running
  <2>4. Cardinality(Running') = Cardinality(Running) + 1
    BY <2>2, <2>3, FS_AddElement
  <2> QED
    BY <1>0, <2>1, <2>4, PoolTypeSplit DEF StartTask
<1>3. ThreadInv'
  BY <1>1 DEF PoolIInv, ThreadInv, userVars, WorkerPlaces
<1>4. \A v \in Workers : Held(v)' = Held(v)
  BY <1>1 DEF Held
<1>5. EachTaskInOnePlace' /\ Queued' = Queued /\ Added' = Added
  BY <1>1, <1>4, PlacesUnchanged DEF PoolIInv, queueVars
<1>6. WaitInv'
  BY <1>1, <1>5, WaitInvFrame DEF PoolIInv, userVars
<1> QED
  BY <1>2, <1>3, <1>5, <1>6 DEF PoolIInv

LEMMA FinishTaskStep ==
  ASSUME PoolIInv, NEW w \in Workers, FinishTask(w)
  PROVE  PoolIInv'
<1> USE ThreadsAssumption DEF Threads
<1>0. PoolTypes /\ m_iActiveWorkersCnt = Cardinality(Running)
  BY PoolTypeSplit DEF PoolIInv
<1>1. /\ pc[w] = "run" /\ pc'[w] = "notify" /\ Goto(w, "notify")
      /\ \A t \in Threads \ {w} : pc'[t] = pc[t]
      /\ task[w] \in Tasks /\ done' = done \cup {task[w]}
      /\ UNCHANGED <<queueVars, userVars, task, m_bStopping, dropped>>
  BY <1>0 DEF FinishTask, Goto, PoolTypes, PoolIInv, ThreadInv
<1>2. PoolTypeOK'
  <2>1. PoolTypes'
    BY <1>0, <1>1 DEF PoolTypes, Goto, queueVars, userVars, WorkerPlaces
  <2>2. Running' = Running \ {w} /\ w \in Running
    BY <1>1 DEF Running
  <2>3. IsFiniteSet(Running)
    BY FS_Subset DEF Running
  <2>4. Cardinality(Running') = Cardinality(Running) - 1
    BY <2>2, <2>3, FS_RemoveElement
  <2> QED
    BY <1>0, <2>1, <2>4, PoolTypeSplit DEF FinishTask
<1>3. ThreadInv'
  BY <1>1 DEF PoolIInv, ThreadInv, userVars, WorkerPlaces
<1>4. /\ Queued' = Queued /\ Held(w) = {task[w]} /\ Held(w)' = {}
      /\ \A v \in Workers \ {w} : Held(v)' = Held(v)
  BY <1>1 DEF Queued, Held, queueVars
<1>5. /\ InHands = InHands' \cup {task[w]}
      /\ Tasks \cap {task[w]} \cap InHands' = {}
  BY <1>4, HandsAfterGiving DEF PoolIInv
<1>6. EachTaskInOnePlace'
  <2>1. \A u, v \in Workers : u # v => Tasks \cap Held(u)' \cap Held(v)' = {}
    BY <1>4 DEF PoolIInv, EachTaskInOnePlace
  <2> QED
    BY <1>1, <1>4, <1>5, <2>1 DEF PoolIInv, EachTaskInOnePlace, queueVars
<1>7. Added' = Added
  BY <1>1, <1>4, <1>5 DEF Added
<1>8. WaitInv'
  BY <1>1, <1>4, <1>7, WaitInvFrame DEF PoolIInv, userVars
<1> QED
  BY <1>2, <1>3, <1>6, <1>8 DEF PoolIInv

LEMMA NotifyWaiterStep ==
  ASSUME PoolIInv, NEW w \in Workers, NotifyWaiter(w)
  PROVE  PoolIInv'
<1> USE ThreadsAssumption DEF Threads
<1>0. PoolTypes /\ m_iActiveWorkersCnt = Cardinality(Running)
  BY PoolTypeSplit DEF PoolIInv
<1>1. /\ pc[w] = "notify" /\ pc'[w] = "pop" /\ Goto(w, "pop")
      /\ \A t \in Threads \ {w} : pc'[t] = pc[t]
      /\ task' = [task EXCEPT ![w] = EmptyTask]
      /\ \A v \in Workers \ {w} : task'[v] = task[v]
      /\ waiters' \subseteq waiters
      /\ UNCHANGED <<queueVars, destructor, emptyTasks, before, m_bStopping,
                     m_iActiveWorkersCnt, done, dropped>>
  BY <1>0 DEF NotifyWaiter, Goto, PoolTypes
<1>2. PoolTypeOK'
  <2>1. PoolTypes'
    BY <1>0, <1>1 DEF PoolTypes, Goto, queueVars, WorkerPlaces
  <2> QED
    BY <1>0, <1>1, <2>1, CountUnchanged, PoolTypeSplit
<1>3. ThreadInv'
  BY <1>1 DEF PoolIInv, ThreadInv, WorkerPlaces
<1>4. \A v \in Workers : Held(v)' = Held(v)
  BY <1>1 DEF Held
<1>5. EachTaskInOnePlace' /\ Queued' = Queued /\ Added' = Added
  BY <1>1, <1>4, PlacesUnchanged DEF PoolIInv, queueVars
<1>6. WaitInv'
  BY <1>1, <1>5, WaitInvFrame DEF PoolIInv
<1> QED
  BY <1>2, <1>3, <1>5, <1>6 DEF PoolIInv

-----------------------------------------------------------------------------
(* Users and the destructor.                                               *)
\* A step that takes no task anywhere and moves no worker.
LEMMA IdleStep ==
  ASSUME PoolIInv, PoolTypes',
         UNCHANGED <<m_queue, task, done, dropped, m_iActiveWorkersCnt>>,
         m_bStopping => m_bStopping',
         \A w \in Workers : pc'[w] = pc[w],
         ThreadInv',
         \A u \in Users : \/ before'[u] \in {before[u], {}}
                          \/ before'[u] = Added /\ pc'[u] # "allCount",
         \A u \in Users : pc'[u] = "allCount" => pc[u] = "allCount" \/ m_queue = <<>>
  PROVE  PoolIInv'
<1>1. PoolTypeOK'
  <2>1. m_iActiveWorkersCnt = Cardinality(Running)
    BY PoolTypeSplit DEF PoolIInv
  <2> QED
    BY <2>1, CountUnchanged, PoolTypeSplit
<1>2. \A w \in Workers : Held(w)' = Held(w)
  BY DEF Held
<1>3. EachTaskInOnePlace' /\ Queued' = Queued /\ Added' = Added
  BY <1>2, PlacesUnchanged DEF PoolIInv
<1>4. m_queue = <<>> => Queued = {}
  BY DEF Queued
<1>5. WaitInv'
  BY <1>3, <1>4 DEF PoolIInv, WaitInv
<1> QED
  BY <1>1, <1>3, <1>5 DEF PoolIInv

LEMMA QueueStep ==
  ASSUME PoolIInv, UNCHANGED <<m_iQueueMaxSize, m_queue, userVars, poolVars>>,
         sleepers' \subseteq sleepers, signals' \subseteq signals
  PROVE  PoolIInv'
<1>1. PoolTypes'
  BY PoolTypeSplit DEF PoolIInv, PoolTypes, userVars, poolVars
<1>2. ThreadInv'
  BY DEF PoolIInv, ThreadInv, userVars, poolVars
<1> QED
  BY <1>1, <1>2, IdleStep DEF userVars, poolVars

\* A step of one user between its own places.
LEMMA UserStep ==
  ASSUME PoolIInv, NEW u \in Users, NEW label \in WaitPlaces \cup {"idle"}, Goto(u, label),
         UNCHANGED <<queueVars, destructor, emptyTasks, task, m_bStopping,
                     m_iActiveWorkersCnt, done, dropped>>,
         waiters' \subseteq Users,
         label \in WaitPlaces => destructor = "none",
         label = "allCount" => m_queue = <<>>,
         \/ before' = before \/ before' = [before EXCEPT ![u] = {}]
         \/ before' = [before EXCEPT ![u] = Added] /\ label # "allCount"
  PROVE  PoolIInv'
<1> USE ThreadsAssumption DEF Threads
<1>0. PoolTypes
  BY PoolTypeSplit DEF PoolIInv
<1>1. pc'[u] = label /\ \A t \in Threads \ {u} : pc'[t] = pc[t]
  BY <1>0 DEF Goto, PoolTypes
<1>2. Added \subseteq Tasks
  BY DEF Added
<1>3. before' \in [Users -> SUBSET Tasks]
  BY <1>0, <1>2 DEF PoolTypes
<1>4. PoolTypes'
  BY <1>0, <1>3 DEF PoolTypes, Goto, queueVars
<1>5. ThreadInv'
  BY <1>1 DEF PoolIInv, ThreadInv
<1>6. \A v \in Users : \/ before'[v] \in {before[v], {}}
                       \/ before'[v] = Added /\ pc'[v] # "allCount"
  BY <1>0, <1>1 DEF PoolTypes
<1> QED
  BY <1>1, <1>4, <1>5, <1>6, IdleStep DEF queueVars

LEMMA WaitStep ==
  ASSUME PoolIInv, NEW u \in Users, Wait(u)
  PROVE  PoolIInv'
<1> USE DEF WaitPlaces
<1>0. PoolTypes /\ (pc[u] \in WaitPlaces => destructor = "none")
  BY PoolTypeSplit DEF PoolIInv, ThreadInv
<1>1. ASSUME NEW label \in WaitPlaces \cup {"idle"}, Moves(u, label), pc[u] \in WaitPlaces,
             label = "allCount" => m_queue = <<>>
      PROVE  PoolIInv'
  BY <1>0, <1>1, UserStep DEF Moves, PoolTypes, queueVars
<1>2. CASE WaitAll(u)
  BY <1>1, <1>2 DEF WaitAll
<1>3. CASE WaitAllUntil(u)
  BY <1>1, <1>3 DEF WaitAllUntil
<1>4. CASE WaiterSleeps(u)
  BY <1>0, <1>4, UserStep DEF WaiterSleeps, PoolTypes
<1>5. CASE WaiterGoesOn(u)
  BY <1>1, <1>5 DEF WaiterGoesOn
<1> QED
  BY <1>2, <1>3, <1>4, <1>5 DEF Wait

\* A push by a user: a task that was not added before, or an empty task.
LEMMA PushStep ==
  ASSUME PoolIInv, NEW u \in Users, NEW item \in Tasks \cup {EmptyTask}, Push(u, item),
         item = EmptyTask \/ item \notin Added,
         UNCHANGED <<waiters, destructor, before, poolVars>>,
         emptyTasks' \in 0 .. Cardinality(Workers)
  PROVE  PoolIInv'
<1>0. PoolTypes /\ m_iActiveWorkersCnt = Cardinality(Running)
  BY PoolTypeSplit DEF PoolIInv
<1>1. /\ m_queue' = Append(m_queue, item) /\ signals' = signals \cup {u}
      /\ UNCHANGED <<m_iQueueMaxSize, sleepers, pc, task, m_bStopping, m_iActiveWorkersCnt,
                     done, dropped>>
  BY DEF Push, poolVars
<1>2. m_queue' \in Seq(Tasks \cup {EmptyTask}) /\ Queued' = Queued \cup {item}
  BY <1>0, <1>1, QueuedAfterPush DEF PoolTypes
<1>3. item = EmptyTask \/ item \notin Queued \cup InHands \cup done \cup dropped
  BY DEF Added
<1>4. QueueIsSimple'
  BY <1>0, <1>1, <1>3, PushKeepsSimple DEF PoolTypes, PoolIInv, EachTaskInOnePlace, QueueIsSimple
<1>5. PoolTypeOK'
  <2>1. PoolTypes'
    BY <1>0, <1>1, <1>2 DEF PoolTypes
  <2> QED
    BY <1>0, <1>1, <2>1, CountUnchanged, PoolTypeSplit
<1>6. ThreadInv'
  BY <1>1 DEF PoolIInv, ThreadInv
<1>7. InHands' = InHands /\ \A w \in Workers : Held(w)' = Held(w)
  BY <1>1 DEF InHands, Held
<1>8. EachTaskInOnePlace'
  BY <1>1, <1>2, <1>3, <1>4, <1>7, TasksAssumption DEF PoolIInv, EachTaskInOnePlace, QueueIsSimple
<1>9. Added \subseteq Added' /\ Queued' \cap Added \subseteq Queued
  BY <1>1, <1>2, <1>3, <1>7, TasksAssumption DEF Added
<1>10. WaitInv'
  BY <1>1, <1>9, WaitInvFrame DEF PoolIInv
<1> QED
  BY <1>5, <1>6, <1>8, <1>10 DEF PoolIInv

LEMMA DestructorStep ==
  ASSUME PoolIInv, NEW u \in Users, Destroy(u) \/ PushEmptyTask(u) \/ Join(u)
  PROVE  PoolIInv'
<1> USE ThreadsAssumption DEF Threads
<1>0. PoolTypes
  BY PoolTypeSplit DEF PoolIInv
<1>1. CASE Destroy(u)
  <2>1. /\ \A v \in Users : pc[v] = "idle"
        /\ m_bStopping' = TRUE /\ destructor' = "push" /\ pc'[u] = "destroy"
        /\ \A t \in Threads \ {u} : pc'[t] = pc[t]
        /\ pc' = [pc EXCEPT ![u] = "destroy"]
        /\ UNCHANGED <<queueVars, waiters, emptyTasks, before, task, m_iActiveWorkersCnt, done,
                       dropped>>
    BY <1>0, <1>1 DEF Destroy, Goto, PoolTypes
  <2>2. PoolTypes'
    BY <1>0, <2>1 DEF PoolTypes, queueVars
  <2>3. ThreadInv'
    BY <2>1 DEF PoolIInv, ThreadInv, WaitPlaces
  <2> QED
    BY <2>1, <2>2, <2>3, IdleStep DEF queueVars
<1>2. CASE PushEmptyTask(u)
  <2>1. Cardinality(Workers) \in Nat
    BY FS_CardinalityType
  <2>2. CASE emptyTasks < Cardinality(Workers)
    <3>1. emptyTasks' \in 0 .. Cardinality(Workers)
      BY <1>0, <1>2, <2>1, <2>2 DEF PushEmptyTask, PushEmptyTasks, PoolTypes
    <3> QED
      BY <1>2, <2>2, <3>1, PushStep DEF PushEmptyTask, PushEmptyTasks
  <2>3. CASE ~(emptyTasks < Cardinality(Workers))
    <3>1. /\ destructor = "push" /\ destructor' = "join"
          /\ UNCHANGED <<queueVars, emptyTasks, waiters, before, poolVars>>
      BY <1>2, <2>3 DEF PushEmptyTask, PushEmptyTasks
    <3>2. PoolTypes' /\ ThreadInv'
      BY <1>0, <3>1 DEF PoolTypes, ThreadInv, PoolIInv, queueVars, poolVars
    <3> QED
      BY <3>1, <3>2, IdleStep DEF queueVars, poolVars
  <2> QED
    BY <2>2, <2>3
<1>3. CASE Join(u)
  <2>1. /\ destructor = "join" /\ destructor' = "done"
        /\ UNCHANGED <<queueVars, emptyTasks, waiters, before, poolVars>>
    BY <1>3 DEF Join
  <2>2. PoolTypes' /\ ThreadInv'
    BY <1>0, <2>1 DEF PoolTypes, ThreadInv, PoolIInv, queueVars, poolVars
  <2> QED
    BY <2>1, <2>2, IdleStep DEF queueVars, poolVars
<1> QED
  BY <1>1, <1>2, <1>3

LEMMA NextPoolIInv == PoolIInv /\ [Next]_vars => PoolIInv'
<1> SUFFICES ASSUME PoolIInv, [Next]_vars PROVE PoolIInv'
  OBVIOUS
<1>0. PoolTypes
  BY PoolTypeSplit DEF PoolIInv
<1>1. ASSUME NEW w \in Workers, Work(w) \/ WorkerWakes(w) PROVE PoolIInv'
  <2>1. CASE WorkerWakes(w)
    BY <2>1, QueueStep DEF WorkerWakes, WakeUnasked
  <2> QED
    BY <1>1, <2>1, PopTaskStep, ReadStoppingStep, StartTaskStep, FinishTaskStep, NotifyWaiterStep
       DEF Work
<1>2. ASSUME NEW t \in Threads, SignalTask(t) PROVE PoolIInv'
  BY <1>2, QueueStep DEF SignalTask, Notify
<1>3. ASSUME NEW u \in Users, AddTask(u) PROVE PoolIInv'
  <2>1. PICK item \in Tasks : item \notin Added /\ Push(u, item)
    <3>1. \E t \in Tasks : t \notin Added
      BY <1>3 DEF AddTask, Added
    <3> QED
      BY <1>3, <3>1 DEF AddTask
  <2> QED
    BY <1>0, <1>3, <2>1, PushStep DEF AddTask, userVars, PoolTypes
<1>4. ASSUME NEW u \in Users, NEW label \in {"allQueue", "untilQueue"}, BeginWait(u, label)
      PROVE  PoolIInv'
  BY <1>0, <1>4, UserStep DEF BeginWait, WaitPlaces, PoolTypes
<1>5. ASSUME NEW u \in Users, WaiterWakes(u) \/ TimedWaitEnds(u) PROVE PoolIInv'
  <2>1. PoolTypes' /\ ThreadInv'
    BY <1>0, <1>5 DEF WaiterWakes, TimedWaitEnds, PoolTypes, PoolIInv, ThreadInv, queueVars, poolVars
  <2> QED
    BY <1>5, <2>1, IdleStep DEF WaiterWakes, TimedWaitEnds, queueVars, poolVars
<1>6. CASE UNCHANGED vars
  BY <1>6, QueueStep DEF vars, queueVars
<1> QED
  BY <1>1, <1>2, <1>3, <1>4, <1>5, <1>6, WaitStep, DestructorStep DEF Next

LEMMA PoolIInvAlways == Spec => []PoolIInv
BY InitPoolIInv, NextPoolIInv, PTL DEF Spec

\* proc, AddTask and the destructor hand tasks on without running one twice or losing
\* one, and m_iActiveWorkersCnt is the number of workers inside a task, for any number of
\* workers, users and tasks.
THEOREM PoolInvariant == Spec => []PoolInv
<1>1. PoolIInv => PoolInv
  BY DEF PoolIInv, PoolInv
<1> QED
  BY <1>1, PoolIInvAlways, PTL

LEMMA OnlyWaitAllReturns ==
  ASSUME PoolTypes, [Next]_vars, NEW u \in Users, pc[u] = "allCount", pc'[u] = "idle"
  PROVE  m_iActiveWorkersCnt = 0
<1>1. u \in Threads /\ u \notin Workers /\ pc' # pc
  BY ThreadsAssumption DEF Threads
<1>2. ASSUME NEW t \in Threads, t # u, NEW label, Goto(t, label) PROVE FALSE
  BY <1>1, <1>2 DEF Goto, PoolTypes
<1>3. ASSUME NEW w \in Workers, Work(w) \/ WorkerWakes(w) PROVE FALSE
  <2>1. w \in Threads /\ w # u
    BY <1>1 DEF Threads
  <2>2. UNCHANGED pc \/ \E label : Goto(w, label)
    BY <1>3 DEF Work, WorkerWakes, PopTask, ReadStopping, StartTask, FinishTask, NotifyWaiter,
                poolVars
  <2> QED
    BY <1>1, <1>2, <2>1, <2>2
<1>4. ASSUME NEW v \in Users, Wait(v) PROVE m_iActiveWorkersCnt = 0
  <2>1. \E label : Goto(v, label)
    BY <1>4 DEF Wait, WaitAll, WaitAllUntil, WaiterSleeps, WaiterGoesOn, Moves
  <2>2. v = u
    BY <1>2, <2>1 DEF Threads
  <2>3. PICK place \in {"allWait", "allCount", "allAsleep"} :
          \/ m_iActiveWorkersCnt = 0
          \/ Goto(u, place)
    BY <1>4, <2>2 DEF Wait, WaitAll, WaitAllUntil, WaiterSleeps, WaiterGoesOn, Moves
  <2> QED
    BY <1>1, <2>3 DEF Goto, PoolTypes
<1>5. ASSUME NEW v \in Users,
             \/ \E label \in {"allQueue", "untilQueue"} : BeginWait(v, label)
             \/ Destroy(v)
      PROVE  FALSE
  <2>1. v # u /\ \E label : Goto(v, label)
    BY <1>5 DEF BeginWait, Destroy
  <2> QED
    BY <1>2, <2>1 DEF Threads
<1>6. ASSUME NEW v \in Users,
             AddTask(v) \/ WaiterWakes(v) \/ TimedWaitEnds(v) \/ PushEmptyTask(v) \/ Join(v)
      PROVE  FALSE
  BY <1>1, <1>6 DEF AddTask, WaiterWakes, TimedWaitEnds, PushEmptyTask, PushEmptyTasks, Join,
                    poolVars
<1>7. ASSUME NEW t \in Threads, SignalTask(t) PROVE FALSE
  BY <1>1, <1>7 DEF SignalTask, poolVars
<1>8. CASE UNCHANGED vars
  BY <1>1, <1>8 DEF vars, poolVars
<1> QED
  BY <1>3, <1>4, <1>5, <1>6, <1>7, <1>8 DEF Next

\* WaitAll may return while a task added before it is not done, but only one that a worker
\* holds between Pop and m_iActiveWorkersCnt++.
THEOREM WaitAllIsPrecise == Spec => WaitAllMissesOnlyUncounted
<1> DEFINE Precise ==
      \A u \in Users : pc[u] = "allCount" /\ pc'[u] = "idle" =>
        \A t \in before[u] \ done :
          \E w \in Workers : pc[w] \in {"taken", "start"} /\ task[w] = t
<1>1. ASSUME PoolIInv, [Next]_vars, NEW u \in Users, pc[u] = "allCount", pc'[u] = "idle",
             NEW t \in before[u] \ done
      PROVE  \E w \in Workers : pc[w] \in {"taken", "start"} /\ task[w] = t
  <2>1. PoolTypes /\ m_iActiveWorkersCnt = Cardinality(Running)
    BY <1>1, PoolTypeSplit DEF PoolIInv
  <2>2. Running = {}
    <3>1. Cardinality(Running) = 0
      BY <1>1, <2>1, OnlyWaitAllReturns
    <3>2. IsFiniteSet(Running)
      BY FS_Subset, ThreadsAssumption DEF Running
    <3> QED
      BY <3>1, <3>2, FS_EmptySet
  <2>3. dropped = {}
    BY <1>1 DEF PoolIInv, ThreadInv, EachTaskInOnePlace, WaitPlaces
  <2>4. t \in Added /\ t \notin Queued
    BY <1>1 DEF PoolIInv, WaitInv
  <2>5. t \in InHands
    BY <1>1, <2>3, <2>4 DEF Added
  <2>6. PICK w \in Workers : t \in Held(w)
    BY <2>5 DEF InHands
  <2>7. pc[w] \in {"taken", "start"} /\ task[w] = t
    BY <2>2, <2>6 DEF Held, Running
  <2> QED
    BY <2>7
<1>2. PoolIInv /\ [Next]_vars => [Precise]_vars
  BY <1>1
<1> QED
  BY <1>2, PoolIInvAlways, PTL DEF Spec, WaitAllMissesOnlyUncounted
=============================================================================
