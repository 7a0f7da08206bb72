-------------------------- MODULE SendQueue_proofs --------------------------
(***************************************************************************)
(* For any number of senders, messages and sizes: the sending half loses,  *)
(* doubles and reorders nothing, hears every request for a write, resumes  *)
(* every blocked message, and implements the abstract channel.             *)
(***************************************************************************)
EXTENDS SendQueue, SequenceTheorems, TLAPS

\* A sending buffer belongs to a message, and a sender inside its call has one.
SendingInv == /\ sending = NoMsg <=> left = 0
              /\ \A t \in Thread : pc[t] \in {"size", "push"} => arg[t] \in Msg

\* AskIsHeard and BlockedSendResumes, for every place of the worker in its loop.
AskInv == rwOp => \/ pipe
                  \/ phase \in {"dels", "events"}
                  \/ phase \in {"send", "finish"} /\ resume = "events"

BlockedInv == left > 0 /\ stage = "open" =>
                  \/ phase = "send"
                  \/ full \/ writable
                  \/ phase \in {"dels", "events"} /\ "write" \in batch

Inv == TypeOK /\ SendingInv /\ Conservation

-----------------------------------------------------------------------------
(* Sequences.                                                              *)
LEMMA AppendToSecond ==
    ASSUME NEW S, NEW p \in Seq(S), NEW q \in Seq(S), NEW a \in S
    PROVE  p \o Append(q, a) = Append(p \o q, a)
<1>1. Append(q, a) = q \o <<a>>
  BY AppendIsConcat
<1>2. p \o q \in Seq(S)
  BY ConcatProperties
<1>3. Append(p \o q, a) = (p \o q) \o <<a>>
  BY <1>2, AppendIsConcat
<1>4. <<a>> \in Seq(S)
  OBVIOUS
<1> QED
  BY <1>1, <1>3, <1>4, ConcatAssociative

LEMMA HeadConcatTail ==
    ASSUME NEW S, NEW q \in Seq(S), q # <<>>
    PROVE  q = <<Head(q)>> \o Tail(q)
<1>1. Len(q) \in Nat \ {0}
  BY EmptySeq
<1>2. q = SubSeq(q, 1, Len(q))
  BY SubSeqFull
<1>3. SubSeq(q, 1, Len(q)) = <<q[1]>> \o SubSeq(q, 2, Len(q))
  BY <1>1, SubSeqRecursiveFirst
<1>4. Tail(q) = SubSeq(q, 2, Len(q)) /\ Head(q) = q[1]
  BY TailIsSubSeq
<1> QED
  BY <1>2, <1>3, <1>4

-----------------------------------------------------------------------------
LEMMA InitInv == Init => Inv
<1> SUFFICES ASSUME Init PROVE Inv
  OBVIOUS
<1>1. <<>> \in Seq(Msg)
  BY EmptySeq
<1>2. TypeOK
  <2>1. /\ pc \in [Thread -> {"idle", "size", "push", "ask"}]
        /\ arg \in [Thread -> Msg \cup {NoMsg}]
        /\ wasEmpty \in [Thread -> BOOLEAN]
    BY DEF Init
  <2>2. left \in 0 .. Units /\ sock \in 0 .. Cap
    BY Sizes DEF Init
  <2>3. /\ queue \in Seq(Msg) /\ accepted \in Seq(Msg) /\ delivered \in Seq(Msg)
            /\ late \in Seq(Msg)
        /\ sending \in Msg \cup {NoMsg}
    BY <1>1 DEF Init
  <2>4. /\ phase \in {"wait", "dels", "events", "send", "finish", "free"}
        /\ batch \subseteq {"pipe", "write"}
        /\ resume \in {"wait", "events"}
        /\ stage \in Stages /\ dead \in BOOLEAN /\ cut \in BOOLEAN
    BY DEF Init, Stages
  <2>5. rwOp \in BOOLEAN /\ pipe \in BOOLEAN /\ full \in BOOLEAN /\ writable \in BOOLEAN
    BY DEF Init
  <2> QED
    BY <2>1, <2>2, <2>3, <2>4, <2>5 DEF TypeOK
<1>3. SendingInv
  BY DEF Init, SendingInv
<1>4. accepted = <<>> /\ delivered = <<>> /\ InFlight = <<>> /\ queue = <<>>
  BY DEF Init, InFlight
<1>5. Conservation
  BY <1>1, <1>4, ConcatEmptySeq DEF Conservation
<1> QED
  BY <1>2, <1>3, <1>5 DEF Inv

LEMMA TypeStep == TypeOK /\ SendingInv /\ [Next]_vars => TypeOK'
<1> SUFFICES ASSUME TypeOK, SendingInv, [Next]_vars PROVE TypeOK'
  OBVIOUS
<1> USE DEF TypeOK
<1>1. ASSUME NEW t \in Thread, Push(t) PROVE TypeOK'
  <2>1. arg[t] \in Msg
    BY <1>1 DEF Push, SendingInv
  <2>2. queue' \in Seq(Msg) /\ accepted' \in Seq(Msg)
    BY <1>1, <2>1, AppendProperties DEF Push
  <2>3. /\ pc' \in [Thread -> {"idle", "size", "push", "ask"}]
        /\ arg' \in [Thread -> Msg \cup {NoMsg}]
        /\ wasEmpty' \in [Thread -> BOOLEAN]
    BY <1>1 DEF Push, Return
  <2> QED
    BY <1>1, <2>2, <2>3 DEF Push, wakeVars, loopVars, kernelVars, endVars
<1>2. ASSUME NEW t \in Thread, Ask(t) PROVE TypeOK'
  BY <1>2 DEF Ask, Return, sendVars, loopVars, kernelVars, endVars, history
<1>3. ASSUME NEW t \in Thread, NEW m \in Msg, SendMessage(t, m) PROVE TypeOK'
  BY <1>3 DEF SendMessage, sendVars, wakeVars, loopVars, kernelVars, endVars, history
<1>4. ASSUME NEW t \in Thread, ReadSize(t) PROVE TypeOK'
  BY <1>4 DEF ReadSize, sendVars, wakeVars, loopVars, kernelVars, endVars, history
<1>5. CASE EventWait
  BY <1>5 DEF EventWait, userVars, sendVars, wakeVars, endVars, history
<1>6. CASE TakeDels
  <2>1. stage' \in Stages /\ batch' \subseteq {"pipe", "write"} /\ writable' \in BOOLEAN
    BY <1>6 DEF TakeDels, Stages
  <2> QED
    BY <1>6, <2>1 DEF TakeDels, userVars, sendVars, wakeVars, history
<1>7. CASE DrainPipe
  BY <1>7 DEF DrainPipe, userVars, sendVars, kernelVars, endVars, history
<1>8. CASE HandleReadEventFails
  <2>1. stage' \in Stages /\ phase' \in {"events", "finish"}
    BY <1>8 DEF HandleReadEventFails, OnFinish, Stages
  <2> QED
    BY <1>8, <2>1 DEF HandleReadEventFails, userVars, sendVars, wakeVars, kernelVars, history
<1>9. CASE HandleWriteEvent
  BY <1>9 DEF HandleWriteEvent, userVars, sendVars, wakeVars, kernelVars, endVars, history
<1>10. CASE TakeOps
  BY <1>10 DEF TakeOps, userVars, sendVars, kernelVars, endVars, history
<1>11. CASE Free
  BY <1>11, EmptySeq, Sizes
     DEF Free, PutSendBuffer, Stages, userVars, wakeVars, kernelVars, history
<1>12. CASE PopAndEncode
  BY <1>12, HeadTailProperties, Sizes
     DEF PopAndEncode, userVars, wakeVars, loopVars, kernelVars, endVars, history
<1>13. CASE Write
  <2>1. PICK n \in 1 .. left :
          /\ sock + n <= Cap /\ sock' = sock + n /\ left' = left - n
          /\ IF n = left THEN sending' = NoMsg /\ Written(sending)
                         ELSE UNCHANGED <<sending, delivered, late>>
    BY <1>13 DEF Write
  <2>2. n \in Nat /\ left' \in 0 .. Units /\ sock' \in 0 .. Cap
    BY <2>1, Sizes
  <2>3. sending \in Msg
    BY <1>13, NoMsgIsNone DEF Write, SendingInv
  <2>4. Append(delivered, sending) \in Seq(Msg) /\ Append(late, sending) \in Seq(Msg)
    BY <2>3, AppendProperties
  <2>5. delivered' \in Seq(Msg) /\ late' \in Seq(Msg) /\ sending' \in Msg \cup {NoMsg}
    BY <2>1, <2>4 DEF Written
  <2> QED
    BY <1>13, <2>2, <2>5 DEF Write, userVars, wakeVars, loopVars, endVars
<1>14. CASE NoRoom
  BY <1>14 DEF NoRoom, userVars, sendVars, wakeVars, endVars, history
<1>15. CASE WriteFails
  <2>1. /\ stage' \in Stages /\ phase' \in {"finish", "wait", "events"}
        /\ sending' = NoMsg /\ left' \in 0 .. Units /\ cut' \in BOOLEAN
    BY <1>15, Sizes DEF WriteFails, OnFinish, PutSendBuffer, Stages
  <2> QED
    BY <1>15, <2>1 DEF WriteFails, userVars, wakeVars, kernelVars, history
<1>16. CASE QueueEmpty
  BY <1>16 DEF QueueEmpty, userVars, sendVars, wakeVars, kernelVars, endVars, history
<1>17. CASE Disconnect
  BY <1>17 DEF Disconnect, Stages, userVars, sendVars, wakeVars, loopVars, kernelVars, history
<1>18. CASE ClearMessage
  BY <1>18, EmptySeq
     DEF ClearMessage, Stages, userVars, wakeVars, loopVars, kernelVars, history
<1>19. CASE Release
  BY <1>19 DEF Release, Stages, userVars, sendVars, kernelVars, history
<1>20. CASE RemoteReads
  <2>1. sock' \in 0 .. Cap
    BY <1>20, Sizes DEF RemoteReads
  <2>2. full' \in BOOLEAN /\ writable' \in BOOLEAN
    BY <1>20 DEF RemoteReads
  <2> QED
    BY <1>20, <2>1, <2>2
       DEF RemoteReads, userVars, sendVars, wakeVars, loopVars, endVars, history
<1>21. CASE RemoteWrites
  BY <1>21 DEF RemoteWrites, userVars, sendVars, wakeVars, loopVars, endVars, history
<1>22. CASE RemoteGone
  BY <1>22 DEF RemoteGone, userVars, sendVars, wakeVars, loopVars, history
<1>23. CASE UNCHANGED vars
  BY <1>23 DEF vars, userVars, sendVars, wakeVars, loopVars, kernelVars, endVars, history
<1> QED
  BY <1>1, <1>2, <1>3, <1>4, <1>5, <1>6, <1>7, <1>8, <1>9, <1>10, <1>11, <1>12, <1>13, <1>14,
     <1>15, <1>16, <1>17, <1>18, <1>19, <1>20, <1>21, <1>22, <1>23
     DEF Next, Continue, Loop, Send, Finish

LEMMA SendingStep == TypeOK /\ SendingInv /\ [Next]_vars => SendingInv'
<1> SUFFICES ASSUME TypeOK, SendingInv, [Next]_vars PROVE SendingInv'
  OBVIOUS
<1> USE DEF SendingInv
<1>1. ASSUME NEW t \in Thread, Continue(t) PROVE SendingInv'
  BY <1>1 DEF Continue, ReadSize, Push, Ask, Return, sendVars, TypeOK
<1>2. ASSUME NEW t \in Thread, NEW m \in Msg, SendMessage(t, m) PROVE SendingInv'
  BY <1>2 DEF SendMessage, sendVars, TypeOK
<1>3. CASE PopAndEncode
  BY <1>3, HeadTailProperties, Sizes, NoMsgIsNone DEF PopAndEncode, userVars, TypeOK
<1>4. CASE Write
  BY <1>4, Sizes DEF Write, userVars, TypeOK
<1>5. CASE Free \/ WriteFails
  BY <1>5 DEF Free, WriteFails, PutSendBuffer, userVars
<1>6. CASE ClearMessage
  BY <1>6 DEF ClearMessage, userVars
<1>7. CASE UNCHANGED <<sendVars, userVars>>
  BY <1>7 DEF sendVars, userVars
<1> QED
  BY <1>1, <1>2, <1>3, <1>4, <1>5, <1>6, <1>7
     DEF Next, Loop, Send, Finish, EventWait, TakeDels, DrainPipe, HandleReadEventFails,
         HandleWriteEvent, TakeOps, NoRoom, QueueEmpty, Disconnect, Release, RemoteReads,
         RemoteWrites, RemoteGone, vars

LEMMA ConservationStep == Inv /\ [Next]_vars => Conservation'
<1> SUFFICES ASSUME Inv, [Next]_vars, stage' = "open"
             PROVE  (accepted = delivered \o InFlight \o queue)'
  BY DEF Conservation
<1> USE DEF Inv
<1>0. stage = "open" /\ ~Free /\ ~Finish /\ ~Disconnect
  BY DEF Next, Continue, Loop, Send, Finish, SendMessage, ReadSize, Push, Ask, EventWait, TakeDels,
         DrainPipe, HandleReadEventFails, OnFinish, HandleWriteEvent, TakeOps, Free, PopAndEncode,
         Write, NoRoom, WriteFails, QueueEmpty, Disconnect, ClearMessage, Release, RemoteReads,
         RemoteWrites, RemoteGone, vars, endVars
<1>1. accepted = delivered \o InFlight \o queue
  BY <1>0 DEF Conservation
<1>2. InFlight \in Seq(Msg) /\ delivered \o InFlight \in Seq(Msg)
  BY EmptySeq, ConcatProperties, NoMsgIsNone DEF InFlight, TypeOK
<1>3. ASSUME NEW t \in Thread, Push(t) PROVE (accepted = delivered \o InFlight \o queue)'
  <2>1. arg[t] \in Msg
    BY <1>3 DEF Push, SendingInv
  <2>2. (delivered \o InFlight) \o Append(queue, arg[t]) = Append(accepted, arg[t])
    BY <1>1, <1>2, <2>1, AppendToSecond DEF TypeOK
  <2> QED
    BY <1>3, <2>2 DEF Push, InFlight
<1>4. CASE PopAndEncode
  <2>1. sending = NoMsg /\ InFlight = <<>>
    BY <1>4 DEF PopAndEncode, SendingInv, InFlight
  <2>2. queue = <<Head(queue)>> \o Tail(queue) /\ Head(queue) \in Msg /\ Tail(queue) \in Seq(Msg)
    BY <1>4, HeadConcatTail, HeadTailProperties DEF PopAndEncode, TypeOK
  <2>3. InFlight' = <<Head(queue)>> /\ <<Head(queue)>> \in Seq(Msg)
    BY <1>4, <2>2, NoMsgIsNone DEF PopAndEncode, InFlight
  <2>4. accepted = delivered \o (<<Head(queue)>> \o Tail(queue))
    BY <1>1, <2>1, <2>2, ConcatEmptySeq DEF TypeOK
  <2>5. accepted = (delivered \o <<Head(queue)>>) \o Tail(queue)
    BY <2>2, <2>3, <2>4, ConcatAssociative DEF TypeOK
  <2> QED
    BY <1>4, <2>3, <2>5 DEF PopAndEncode, history
<1>5. CASE Write
  <2>1. sending \in Msg /\ InFlight = <<sending>>
    BY <1>5, NoMsgIsNone DEF Write, SendingInv, InFlight, TypeOK
  <2>2. PICK n \in 1 .. left :
          IF n = left THEN sending' = NoMsg /\ delivered' = Append(delivered, sending)
                      ELSE UNCHANGED <<sending, delivered>>
    BY <1>0, <1>5 DEF Write, Written
  <2>3. UNCHANGED <<queue, accepted>>
    BY <1>5 DEF Write
  <2>4. CASE n = left
    <3>1. InFlight' = <<>> /\ delivered' = delivered \o <<sending>>
      BY <2>1, <2>2, <2>4, AppendIsConcat DEF InFlight, TypeOK
    <3>2. delivered' \o InFlight' = delivered \o InFlight
      BY <1>2, <2>1, <3>1, ConcatEmptySeq
    <3> QED
      BY <1>1, <2>3, <3>2
  <2>5. CASE n # left
    BY <1>1, <2>2, <2>3, <2>5 DEF InFlight
  <2> QED
    BY <2>4, <2>5
<1>6. CASE UNCHANGED <<sendVars, accepted, delivered>>
  BY <1>1, <1>6 DEF sendVars, InFlight
<1>7. ~WriteFails
  BY <1>0 DEF WriteFails, OnFinish
<1> QED
  BY <1>0, <1>3, <1>4, <1>5, <1>6, <1>7
     DEF Next, Continue, Loop, Send, Ask, ReadSize, SendMessage, EventWait, TakeDels, DrainPipe,
         HandleReadEventFails, HandleWriteEvent, TakeOps, NoRoom, QueueEmpty, RemoteReads,
         RemoteWrites, RemoteGone, history, vars

LEMMA InvStep == Inv /\ [Next]_vars => Inv'
BY TypeStep, SendingStep, ConservationStep DEF Inv

LEMMA InvariantHolds == Spec => []Inv
BY InitInv, InvStep, PTL DEF Spec

\* Every variable keeps its type: the sending buffer never holds more than a message,
\* nor the socket more than its capacity.
THEOREM TypeCorrect == Spec => []TypeOK
BY InvariantHolds, PTL DEF Inv

\* Between the senders' pushes and the socket of an open connection no message is lost,
\* doubled or overtaken.
THEOREM NothingLost == Spec => []Conservation
BY InvariantHolds, PTL DEF Inv

-----------------------------------------------------------------------------
(* Wake-ups.                                                               *)
LEMMA AskStep == TypeOK /\ AskInv /\ [Next]_vars => AskInv'
<1> SUFFICES ASSUME TypeOK, AskInv, [Next]_vars PROVE AskInv'
  OBVIOUS
<1> USE DEF AskInv
<1>1. ASSUME NEW t \in Thread, Ask(t) PROVE AskInv'
  BY <1>1 DEF Ask
<1>2. CASE EventWait
  BY <1>2 DEF EventWait
<1>3. CASE DrainPipe
  BY <1>3 DEF DrainPipe
<1>4. CASE HandleWriteEvent
  BY <1>4 DEF HandleWriteEvent
<1>5. CASE TakeOps
  BY <1>5 DEF TakeOps
<1>6. CASE NoRoom \/ QueueEmpty
  BY <1>6 DEF NoRoom, QueueEmpty, wakeVars, TypeOK
<1>7. CASE WriteFails \/ HandleReadEventFails
  BY <1>7 DEF WriteFails, HandleReadEventFails, OnFinish, wakeVars, TypeOK
<1>8. CASE TakeDels \/ Free
  BY <1>8 DEF TakeDels, Free, wakeVars
<1>9. CASE Release
  BY <1>9 DEF Release
<1>10. CASE UNCHANGED <<wakeVars, loopVars>>
  BY <1>10 DEF wakeVars, loopVars
<1> QED
  BY <1>1, <1>2, <1>3, <1>4, <1>5, <1>6, <1>7, <1>8, <1>9, <1>10
     DEF Next, Continue, Loop, Send, Finish, SendMessage, Push, ReadSize, PopAndEncode, Write,
         Disconnect, ClearMessage, RemoteReads, RemoteWrites, RemoteGone, vars

\* A request put on the operation list is always heard: at the worker's wait the pipe
\* still holds its wake-up, because the list is taken only after the pipe is drained.
THEOREM RequestsAreHeard == Spec => []AskIsHeard
<1>1. Init => AskInv
  BY DEF Init, AskInv
<1>2. AskInv => AskIsHeard
  BY DEF AskInv, AskIsHeard
<1>3. Inv => TypeOK
  BY DEF Inv
<1> QED
  BY <1>1, <1>2, <1>3, AskStep, InvariantHolds, PTL DEF Spec

LEMMA BlockedStep == TypeOK /\ BlockedInv /\ [Next]_vars => BlockedInv'
<1> SUFFICES ASSUME TypeOK, BlockedInv, [Next]_vars PROVE BlockedInv'
  OBVIOUS
<1> USE DEF BlockedInv
<1>1. CASE EventWait
  BY <1>1 DEF EventWait, sendVars, endVars
<1>2. CASE TakeDels
  BY <1>2 DEF TakeDels, sendVars
<1>3. CASE DrainPipe
  BY <1>3 DEF DrainPipe, sendVars, kernelVars, endVars
<1>4. CASE HandleWriteEvent
  BY <1>4 DEF HandleWriteEvent
<1>5. CASE TakeOps
  BY <1>5 DEF TakeOps, sendVars, kernelVars, endVars
<1>6. CASE PopAndEncode \/ Write
  BY <1>6 DEF PopAndEncode, Write, loopVars
<1>7. CASE NoRoom
  BY <1>7 DEF NoRoom
<1>8. CASE QueueEmpty
  BY <1>8 DEF QueueEmpty, sendVars
<1>9. CASE HandleReadEventFails \/ WriteFails \/ Free \/ Disconnect \/ Finish
  <2>1. stage' # "open"
    BY <1>9 DEF HandleReadEventFails, WriteFails, OnFinish, Free, Disconnect, Finish, ClearMessage,
                Release
  <2> QED
    BY <2>1
<1>10. CASE RemoteReads \/ RemoteWrites \/ RemoteGone
  BY <1>10 DEF RemoteReads, RemoteWrites, RemoteGone, sendVars, loopVars, endVars
<1>11. CASE UNCHANGED <<left, loopVars, kernelVars, stage>>
  BY <1>11 DEF loopVars, kernelVars
<1> QED
  BY <1>1, <1>2, <1>3, <1>4, <1>5, <1>6, <1>7, <1>8, <1>9, <1>10, <1>11
     DEF Next, Continue, Loop, Send, SendMessage, Push, Ask, ReadSize, sendVars, endVars, vars

\* While the connection is registered, the rest of a message that met a full socket waits
\* for an edge still to come.
THEOREM BlockedResumes == Spec => []BlockedSendResumes
<1>1. Init => BlockedInv
  BY DEF Init, BlockedInv
<1>2. BlockedInv => BlockedSendResumes
  BY DEF BlockedInv, BlockedSendResumes
<1>3. Inv => TypeOK
  BY DEF Inv
<1> QED
  BY <1>1, <1>2, <1>3, BlockedStep, InvariantHolds, PTL DEF Spec

-----------------------------------------------------------------------------
(* Refinement: a push is the channel's Accept, the last unit's write its    *)
(* Deliver, and every other step a stutter.                                *)
LEMMA NextOut ==
    ASSUME NEW p \in Seq(Msg), NEW m \in Msg, NEW q \in Seq(Msg)
    PROVE  /\ Len(p) < Len((p \o <<m>>) \o q)
           /\ ((p \o <<m>>) \o q)[Len(p) + 1] = m
BY ConcatProperties, LenProperties

LEMMA StepRefines == Inv /\ [Next]_vars => [Channel!Next]_(Channel!vars)
<1> SUFFICES ASSUME Inv, [Next]_vars PROVE [Channel!Next]_(Channel!vars)
  OBVIOUS
<1> USE DEF Inv
<1>1. ASSUME NEW t \in Thread, Push(t) PROVE \E m \in Msg : Channel!Accept(m)
  BY <1>1 DEF Push, SendingInv, endVars, Channel!Accept
<1>2. CASE Write
  <2>1. sending \in Msg /\ InFlight = <<sending>>
    BY <1>2, NoMsgIsNone DEF Write, SendingInv, InFlight, TypeOK
  <2>2. UNCHANGED <<accepted, stage>>
    BY <1>2 DEF Write, endVars
  <2>3. CASE stage = "open"
    <3>1. /\ Len(delivered) < Len(accepted)
          /\ accepted[Len(delivered) + 1] = sending
      BY <2>1, <2>3, NextOut DEF Conservation, TypeOK
    <3>2. UNCHANGED delivered \/ delivered' = Append(delivered, sending)
      BY <1>2, <2>3 DEF Write, Written
    <3> QED
      BY <2>2, <2>3, <3>1, <3>2 DEF Channel!Next, Channel!Deliver, Channel!vars
  <2>4. CASE stage # "open"
    <3>1. UNCHANGED delivered
      BY <1>2, <2>4 DEF Write, Written
    <3> QED
      BY <2>2, <3>1 DEF Channel!vars
  <2> QED
    BY <2>3, <2>4
<1>3. CASE UNCHANGED <<accepted, delivered>> /\ stage = "open" /\ stage' # "open"
  BY <1>3 DEF Channel!Next, Channel!Break
<1>4. CASE UNCHANGED <<accepted, delivered>> /\ (stage # "open" <=> stage' # "open")
  BY <1>4 DEF Channel!vars
<1>5. stage # "open" => stage' # "open"
  BY DEF Next, Continue, Loop, Send, Finish, SendMessage, ReadSize, Push, Ask, EventWait, TakeDels,
         DrainPipe, HandleReadEventFails, OnFinish, HandleWriteEvent, TakeOps, Free, PopAndEncode,
         Write, NoRoom, WriteFails, QueueEmpty, Disconnect, ClearMessage, Release, RemoteReads,
         RemoteWrites, RemoteGone, vars, endVars
<1> QED
  BY <1>1, <1>2, <1>3, <1>4, <1>5
     DEF Channel!Next, Next, Continue, Loop, Send, Finish, SendMessage, Ask, ReadSize, EventWait,
         TakeDels, DrainPipe, HandleReadEventFails, HandleWriteEvent, TakeOps, Free, PopAndEncode,
         NoRoom, WriteFails, QueueEmpty, Disconnect, ClearMessage, Release, RemoteReads,
         RemoteWrites, RemoteGone, history, vars

\* The senders, the worker and the socket together implement the channel: messages come
\* out once each, in the order they were pushed, until the connection's end begins.
THEOREM RefinesChannel == Spec => ImplementsChannel
<1>1. Init => Channel!Init
  BY DEF Init, Channel!Init
<1> QED
  BY <1>1, StepRefines, InvariantHolds, PTL DEF Spec, ImplementsChannel, Channel!Spec

-----------------------------------------------------------------------------
(* The order of what is written, also at a connection's end.               *)
\* No element of a comes twice; those of s come in a, in the order they have in s.
Once(a) == \A x, y \in DOMAIN a : a[x] = a[y] => x = y
InOrder(a, s) ==
  /\ \A i \in DOMAIN s : \E x \in DOMAIN a : a[x] = s[i]
  /\ \A i, j \in DOMAIN s, x, y \in DOMAIN a : i < j /\ a[x] = s[i] /\ a[y] = s[j] => x < y

\* Written, half written and to be written.
Line == delivered \o late \o InFlight \o queue

\* EndKeepsOrder, and why it lasts: a message is pushed once, and only its sender has it
\* until then.
OrderInv ==
  /\ Once(accepted) /\ InOrder(accepted, Line)
  /\ stage = "open" => late = <<>>
  /\ \A t \in Thread : pc[t] \in {"size", "push"} =>
       /\ Unsent(arg[t])
       /\ \A u \in Thread \ {t} : arg[u] # arg[t]
  /\ cut => dead \/ stage = "deleted"

LEMMA OrderOfPart ==
  ASSUME NEW S, NEW a \in Seq(S), NEW s \in Seq(S), NEW u \in Seq(S), NEW w \in Seq(S),
         InOrder(a, (s \o u) \o w)
  PROVE  InOrder(a, s \o w)
<1> DEFINE all == (s \o u) \o w
           at(i) == IF i <= Len(s) THEN i ELSE i + Len(u)
<1>1. /\ Len(s) \in Nat /\ Len(u) \in Nat /\ Len(w) \in Nat
      /\ s \o u \in Seq(S) /\ Len(s \o u) = Len(s) + Len(u)
      /\ DOMAIN all = 1 .. Len(s) + Len(u) + Len(w)
      /\ DOMAIN (s \o w) = 1 .. Len(s) + Len(w)
  BY ConcatProperties, LenProperties
<1>2. ASSUME NEW i \in 1 .. Len(s) + Len(w)
      PROVE  at(i) \in DOMAIN all /\ all[at(i)] = (s \o w)[i]
  <2>1. CASE i <= Len(s)
    <3>1. i \in 1 .. Len(s) /\ i \in 1 .. Len(s \o u)
      BY <1>1, <2>1
    <3>2. all[i] = (s \o u)[i] /\ (s \o u)[i] = s[i] /\ (s \o w)[i] = s[i]
      BY <1>1, <3>1, ConcatProperties
    <3> QED
      BY <1>1, <2>1, <3>2
  <2>2. CASE ~(i <= Len(s))
    <3>1. at(i) \in 1 .. Len(s) + Len(u) + Len(w) /\ ~(at(i) <= Len(s \o u))
          /\ at(i) - Len(s \o u) = i - Len(s)
      BY <1>1, <2>2
    <3>2. all[at(i)] = w[i - Len(s)]
      BY <1>1, <3>1, ConcatProperties
    <3>3. (s \o w)[i] = w[i - Len(s)]
      BY <2>2, ConcatProperties
    <3> QED
      BY <1>1, <3>1, <3>2, <3>3
  <2> QED
    BY <2>1, <2>2
<1>3. \A i, j \in 1 .. Len(s) + Len(w) : i < j => at(i) < at(j)
  BY <1>1
<1> HIDE DEF all, at
<1>4. InOrder(a, all)
  BY DEF all
<1>5. \A i \in DOMAIN (s \o w) : \E x \in DOMAIN a : a[x] = (s \o w)[i]
  BY <1>1, <1>2, <1>4 DEF InOrder
<1>6. \A i, j \in DOMAIN (s \o w), x, y \in DOMAIN a :
        i < j /\ a[x] = (s \o w)[i] /\ a[y] = (s \o w)[j] => x < y
  <2> SUFFICES ASSUME NEW i \in DOMAIN (s \o w), NEW j \in DOMAIN (s \o w),
                      NEW x \in DOMAIN a, NEW y \in DOMAIN a,
                      i < j, a[x] = (s \o w)[i], a[y] = (s \o w)[j]
               PROVE  x < y
    OBVIOUS
  <2>1. at(i) \in DOMAIN all /\ at(j) \in DOMAIN all /\ at(i) < at(j)
    BY <1>1, <1>2, <1>3
  <2>2. a[x] = all[at(i)] /\ a[y] = all[at(j)]
    BY <1>1, <1>2
  <2> QED
    BY <1>4, <2>1, <2>2 DEF InOrder
<1> QED
  BY <1>5, <1>6, Zenon DEF InOrder

LEMMA OrderOfPrefix ==
  ASSUME NEW S, NEW a \in Seq(S), NEW s \in Seq(S), NEW u \in Seq(S), InOrder(a, s \o u)
  PROVE  InOrder(a, s)
<1>1. s \o u \in Seq(S) /\ <<>> \in Seq(S)
  BY ConcatProperties, EmptySeq
<1>2. (s \o u) \o <<>> = s \o u /\ s \o <<>> = s
  BY <1>1, ConcatEmptySeq
<1>3. InOrder(a, (s \o u) \o <<>>)
  BY <1>2
<1>4. InOrder(a, s \o <<>>)
  BY <1>1, <1>3, OrderOfPart
<1> QED
  BY <1>2, <1>4

LEMMA OrderOfPush ==
  ASSUME NEW S, NEW a \in Seq(S), NEW s \in Seq(S), NEW m \in S,
         Once(a), InOrder(a, s), \A x \in DOMAIN a : a[x] # m
  PROVE  Once(Append(a, m)) /\ InOrder(Append(a, m), Append(s, m))
<1> DEFINE b == Append(a, m)
           u == Append(s, m)
<1>1. /\ Len(a) \in Nat /\ DOMAIN a = 1 .. Len(a) /\ DOMAIN b = 1 .. Len(a) + 1
      /\ \A x \in 1 .. Len(a) : b[x] = a[x]
      /\ b[Len(a) + 1] = m
  BY AppendProperties, LenProperties
<1>2. /\ Len(s) \in Nat /\ DOMAIN s = 1 .. Len(s) /\ DOMAIN u = 1 .. Len(s) + 1
      /\ \A i \in 1 .. Len(s) : u[i] = s[i]
      /\ u[Len(s) + 1] = m
  BY AppendProperties, LenProperties
<1> HIDE DEF b, u
<1>3. Once(b)
  <2> SUFFICES ASSUME NEW x \in DOMAIN b, NEW y \in DOMAIN b, b[x] = b[y] PROVE x = y
    BY DEF Once
  <2> QED
    BY <1>1 DEF Once
<1>4. \A i \in DOMAIN u : \E x \in DOMAIN b : b[x] = u[i]
  <2> SUFFICES ASSUME NEW i \in DOMAIN u PROVE \E x \in DOMAIN b : b[x] = u[i]
    OBVIOUS
  <2>1. CASE i = Len(s) + 1
    BY <1>1, <1>2, <2>1
  <2>2. CASE i \in 1 .. Len(s)
    <3>1. PICK x \in DOMAIN a : a[x] = s[i]
      BY <1>2, <2>2 DEF InOrder
    <3> QED
      BY <1>1, <1>2, <2>2, <3>1
  <2> QED
    BY <1>2, <2>1, <2>2
<1>5. \A i \in 1 .. Len(s) : s[i] # m
  BY <1>2 DEF InOrder
<1>6. \A i, j \in DOMAIN u, x, y \in DOMAIN b : i < j /\ b[x] = u[i] /\ b[y] = u[j] => x < y
  <2> SUFFICES ASSUME NEW i \in DOMAIN u, NEW j \in DOMAIN u, NEW x \in DOMAIN b,
           NEW y \in DOMAIN b,
                      i < j, b[x] = u[i], b[y] = u[j]
               PROVE  x < y
    OBVIOUS
  <2>1. i \in 1 .. Len(s) /\ u[i] = s[i] /\ s[i] # m
    BY <1>2, <1>5
  <2>2. x \in 1 .. Len(a) /\ a[x] = s[i]
    BY <1>1, <2>1
  <2>3. CASE j = Len(s) + 1
    <3>1. y = Len(a) + 1
      BY <1>1, <1>2, <2>3
    <3> QED
      BY <1>1, <2>2, <3>1
  <2>4. CASE j \in 1 .. Len(s)
    <3>1. y \in 1 .. Len(a) /\ a[y] = s[j]
      BY <1>1, <1>2, <1>5, <2>4
    <3> QED
      BY <1>1, <1>2, <2>1, <2>2, <2>4, <3>1 DEF InOrder
  <2> QED
    BY <1>2, <2>3, <2>4
<1> QED
  BY <1>3, <1>4, <1>6 DEF InOrder, b, u

LEMMA OrderStep == Inv /\ OrderInv /\ [Next]_vars => OrderInv'
<1> SUFFICES ASSUME Inv, OrderInv, [Next]_vars PROVE OrderInv'
  OBVIOUS
<1> DEFINE done == delivered \o late
<1>1. TypeOK /\ SendingInv
  BY DEF Inv
<1>2. /\ InFlight \in Seq(Msg) /\ done \in Seq(Msg) /\ done \o InFlight \in Seq(Msg)
      /\ Line = (done \o InFlight) \o queue /\ Line \in Seq(Msg)
  BY <1>1, EmptySeq, ConcatProperties, NoMsgIsNone DEF InFlight, TypeOK, Line
<1>3. Once(accepted) /\ InOrder(accepted, Line) /\ (stage = "open" => late = <<>>)
      /\ (cut => dead \/ stage = "deleted")
  BY DEF OrderInv
<1>4. \A t \in Thread : pc[t] \in {"size", "push"} =>
        Unsent(arg[t]) /\ \A u \in Thread \ {t} : arg[u] # arg[t]
  BY DEF OrderInv
<1>5. (cut => dead \/ stage = "deleted")'
  BY <1>3
     DEF Next, Continue, Loop, Send, Finish, SendMessage, ReadSize, Push, Ask, EventWait, TakeDels,
         DrainPipe, HandleReadEventFails, OnFinish, HandleWriteEvent, TakeOps, Free, PopAndEncode,
         Write, NoRoom, WriteFails, QueueEmpty, Disconnect, ClearMessage, Release, RemoteReads,
         RemoteWrites, RemoteGone, PutSendBuffer, Connected, vars, endVars
<1>6. (stage = "open" => late = <<>>)'
  BY <1>3
     DEF Next, Continue, Loop, Send, Finish, SendMessage, ReadSize, Push, Ask, EventWait, TakeDels,
         DrainPipe, HandleReadEventFails, OnFinish, HandleWriteEvent, TakeOps, Free, PopAndEncode,
         Write, Written, NoRoom, WriteFails, QueueEmpty, Disconnect, ClearMessage, Release,
         RemoteReads, RemoteWrites, RemoteGone, vars, endVars, history
<1>7. (\A t \in Thread : pc[t] \in {"size", "push"} =>
         Unsent(arg[t]) /\ \A u \in Thread \ {t} : arg[u] # arg[t])'
  <2>1. ASSUME NEW t \in Thread, Push(t)
        PROVE  \A u \in Thread : pc'[u] \in {"size", "push"} => u # t /\ pc[u] = pc'[u]
    BY <1>1, <2>1 DEF Push, Return, TypeOK
  <2>2. ASSUME NEW t \in Thread, Push(t), NEW u \in Thread, pc'[u] \in {"size", "push"}
        PROVE  Unsent(arg[u])' /\ \A v \in Thread \ {u} : arg'[v] # arg'[u]
    <3>1. u # t /\ pc[u] \in {"size", "push"} /\ arg'[u] = arg[u]
      BY <1>1, <2>1, <2>2 DEF Push, Return, TypeOK
    <3>2. arg[u] \in Msg /\ arg[t] \in Msg /\ arg[u] # arg[t] /\ Unsent(arg[u])
      BY <1>1, <1>4, <2>2, <3>1 DEF SendingInv, Push
    <3>3. \A v \in Thread : arg'[v] = arg[v] \/ arg'[v] = NoMsg
      BY <1>1, <2>2 DEF Push, Return, TypeOK
    <3>4. \A v \in Thread \ {u} : arg'[v] # arg'[u]
      BY <1>4, <3>1, <3>2, <3>3, NoMsgIsNone
    <3>5. accepted' = Append(accepted, arg[t])
      BY <2>2 DEF Push
    <3>6. Unsent(arg[u])'
      BY <1>1, <3>1, <3>2, <3>5, AppendProperties, LenProperties DEF Unsent, TypeOK
    <3> QED
      BY <3>4, <3>6
  <2>3. ASSUME NEW t \in Thread, NEW m \in Msg, Fresh(m), SendMessage(t, m)
        PROVE  \A u \in Thread : pc'[u] \in {"size", "push"} =>
                 Unsent(arg[u])' /\ \A v \in Thread \ {u} : arg'[v] # arg'[u]
    <3>1. /\ arg' = [arg EXCEPT ![t] = m] /\ pc' = [pc EXCEPT ![t] = "size"]
          /\ accepted' = accepted
      BY <2>3 DEF SendMessage, history
    <3>2. Unsent(m) /\ \A u \in Thread : arg[u] # m
      BY <2>3 DEF Fresh
    <3> QED
      BY <1>1, <1>4, <3>1, <3>2 DEF Unsent, TypeOK
  <2>4. ASSUME NEW t \in Thread, ReadSize(t)
        PROVE  \A u \in Thread : pc'[u] \in {"size", "push"} =>
                 Unsent(arg[u])' /\ \A v \in Thread \ {u} : arg'[v] # arg'[u]
    BY <1>1, <1>4, <2>4 DEF ReadSize, Unsent, TypeOK, history
  <2>5. ASSUME NEW t \in Thread, Ask(t)
        PROVE  \A u \in Thread : pc'[u] \in {"size", "push"} =>
                 Unsent(arg[u])' /\ \A v \in Thread \ {u} : arg'[v] # arg'[u]
    <3>1. /\ arg' = [arg EXCEPT ![t] = NoMsg] /\ pc' = [pc EXCEPT ![t] = "idle"]
          /\ accepted' = accepted
      BY <2>5 DEF Ask, Return, history
    <3>2. \A u \in Thread : pc'[u] \in {"size", "push"} =>
            u # t /\ pc[u] \in {"size", "push"} /\ arg[u] \in Msg
      BY <1>1, <3>1 DEF SendingInv, TypeOK
    <3> QED
      BY <1>1, <1>4, <3>1, <3>2, NoMsgIsNone DEF Unsent, TypeOK
  <2>6. CASE UNCHANGED <<pc, arg, accepted>>
    BY <1>4, <2>6 DEF Unsent
  <2> QED
    BY <2>2, <2>3, <2>4, <2>5, <2>6
       DEF Next, Continue, Loop, Send, Finish, EventWait, TakeDels, DrainPipe,
           HandleReadEventFails, HandleWriteEvent, TakeOps, Free, PopAndEncode, Write, NoRoom,
           WriteFails, QueueEmpty, Disconnect, ClearMessage, Release, RemoteReads, RemoteWrites,
           RemoteGone, vars, userVars, history
<1>8. Once(accepted') /\ InOrder(accepted', Line')
  <2> DEFINE Kept == Once(accepted') /\ InOrder(accepted', Line')
  <2>1. ASSUME NEW t \in Thread, Push(t) PROVE Kept
    <3>1. /\ arg[t] \in Msg /\ Unsent(arg[t])
          /\ accepted' = Append(accepted, arg[t]) /\ queue' = Append(queue, arg[t])
          /\ UNCHANGED <<sending, delivered, late>>
      BY <1>1, <1>4, <2>1 DEF Push, SendingInv
    <3>2. Line' = (done \o InFlight) \o Append(queue, arg[t])
      BY <3>1 DEF Line, InFlight
    <3>3. Line' = Append(Line, arg[t])
      <4>1. queue \in Seq(Msg)
        BY <1>1 DEF TypeOK
      <4> HIDE DEF done
      <4>2. (done \o InFlight) \o Append(queue, arg[t]) = Append((done \o InFlight) \o queue, arg[t])
        BY <1>2, <3>1, <4>1, AppendToSecond
      <4> QED
        BY <1>2, <3>2, <4>2
    <3>4. accepted \in Seq(Msg) /\ \A x \in DOMAIN accepted : accepted[x] # arg[t]
      BY <1>1, <3>1 DEF Unsent, TypeOK
    <3> QED
      BY <1>2, <1>3, <3>1, <3>3, <3>4, OrderOfPush
  <2>2. CASE PopAndEncode
    <3>1. sending = NoMsg /\ InFlight = <<>> /\ UNCHANGED <<accepted, delivered, late>>
      BY <1>1, <2>2 DEF PopAndEncode, SendingInv, InFlight, history
    <3>2. queue = <<Head(queue)>> \o Tail(queue) /\ Head(queue) \in Msg
          /\ Tail(queue) \in Seq(Msg)
      BY <1>1, <2>2, HeadConcatTail, HeadTailProperties DEF PopAndEncode, TypeOK
    <3>3. InFlight' = <<Head(queue)>> /\ <<Head(queue)>> \in Seq(Msg) /\ queue' = Tail(queue)
      BY <2>2, <3>2, NoMsgIsNone DEF PopAndEncode, InFlight
    <3>4. Line = done \o (<<Head(queue)>> \o Tail(queue))
      BY <1>2, <3>1, <3>2, ConcatEmptySeq
    <3>5. Line' = (done \o <<Head(queue)>>) \o Tail(queue)
      BY <3>1, <3>3 DEF Line
    <3>6. Line' = Line
      <4> DEFINE first == <<Head(queue)>>
                 rest == Tail(queue)
      <4>1. first \in Seq(Msg) /\ rest \in Seq(Msg) /\ done \in Seq(Msg)
        BY <1>2, <3>2, <3>3
      <4>2. Line = done \o (first \o rest) /\ Line' = (done \o first) \o rest
        BY <3>4, <3>5
      <4> HIDE DEF done, first, rest
      <4>3. (done \o first) \o rest = done \o (first \o rest)
        BY <4>1, ConcatAssociative
      <4> QED
        BY <4>2, <4>3
    <3> QED
      BY <1>3, <3>1, <3>6
  <2>3. CASE Write
    <3>1. sending \in Msg /\ InFlight = <<sending>> /\ UNCHANGED <<queue, accepted, stage>>
      BY <1>1, <2>3, NoMsgIsNone DEF Write, SendingInv, InFlight, TypeOK, endVars
    <3>2. PICK n \in 1 .. left :
            IF n = left THEN sending' = NoMsg /\ Written(sending)
                        ELSE UNCHANGED <<sending, delivered, late>>
      BY <2>3 DEF Write
    <3>3. CASE n # left
      BY <1>3, <3>1, <3>2, <3>3 DEF Line, InFlight
    <3>4. CASE n = left
      <4>1. InFlight' = <<>>
        BY <3>2, <3>4 DEF InFlight
      <4>2. delivered' \o late' = Append(done, sending)
        <5>1. CASE stage = "open"
          <6>1. late = <<>> /\ late' = <<>> /\ delivered' = Append(delivered, sending)
            BY <1>3, <3>2, <3>4, <5>1 DEF Written
          <6>2. Append(delivered, sending) \in Seq(Msg) /\ delivered \in Seq(Msg)
            BY <1>1, <3>1, AppendProperties DEF TypeOK
          <6> QED
            BY <6>1, <6>2, ConcatEmptySeq
        <5>2. CASE stage # "open"
          <6>1. delivered' = delivered /\ late' = Append(late, sending)
            BY <3>2, <3>4, <5>2 DEF Written
          <6> QED
            BY <1>1, <3>1, <6>1, AppendToSecond DEF TypeOK
        <5> QED
          BY <5>1, <5>2
      <4>3. Append(done, sending) = done \o <<sending>> /\ Append(done, sending) \in Seq(Msg)
        BY <1>2, <3>1, AppendIsConcat, AppendProperties
      <4>4. (delivered' \o late') \o InFlight' = done \o InFlight
        BY <3>1, <4>1, <4>2, <4>3, ConcatEmptySeq
      <4>5. Line' = Line
        BY <1>2, <3>1, <4>4 DEF Line
      <4> QED
        BY <1>3, <3>1, <4>5
    <3> QED
      BY <3>3, <3>4
  <2>4. CASE WriteFails
    <3>1. InFlight' = <<>> /\ UNCHANGED <<accepted, delivered, late, queue>>
      BY <2>4 DEF WriteFails, PutSendBuffer, InFlight, history
    <3>2. Line' = done \o queue
      BY <1>2, <3>1, ConcatEmptySeq DEF Line
    <3> QED
      BY <1>1, <1>2, <1>3, <3>1, <3>2, OrderOfPart DEF TypeOK
  <2>5. CASE ClearMessage
    <3>1. queue' = <<>> /\ UNCHANGED <<accepted, delivered, late, sending>>
      BY <2>5 DEF ClearMessage, history
    <3>2. Line' = done \o InFlight
      BY <1>2, <3>1, ConcatEmptySeq DEF Line, InFlight
    <3>3. InOrder(accepted, done \o InFlight)
      BY <1>1, <1>2, <1>3, OrderOfPrefix DEF TypeOK
    <3> QED
      BY <1>3, <3>1, <3>2, <3>3
  <2>6. CASE Free
    <3>1. queue' = <<>> /\ InFlight' = <<>> /\ UNCHANGED <<accepted, delivered, late>>
      BY <2>6 DEF Free, PutSendBuffer, InFlight, history
    <3>2. Line' = done
      BY <1>2, <3>1, ConcatEmptySeq DEF Line
    <3>3. InOrder(accepted, done \o InFlight)
      BY <1>1, <1>2, <1>3, OrderOfPrefix DEF TypeOK
    <3>4. InOrder(accepted, done)
      BY <1>1, <1>2, <3>3, OrderOfPrefix DEF TypeOK
    <3> QED
      BY <1>3, <3>1, <3>2, <3>4
  <2>7. CASE UNCHANGED <<sending, queue, accepted, delivered, late>>
    BY <1>3, <2>7 DEF Line, InFlight
  <2> QED
    BY <2>1, <2>2, <2>3, <2>4, <2>5, <2>6, <2>7
       DEF Next, Continue, Loop, Send, Finish, SendMessage, ReadSize, Ask, EventWait, TakeDels,
           DrainPipe, HandleReadEventFails, HandleWriteEvent, TakeOps, NoRoom, QueueEmpty,
           Disconnect, Release, RemoteReads, RemoteWrites, RemoteGone, vars, sendVars, history
<1> QED
  BY <1>5, <1>6, <1>7, <1>8 DEF OrderInv

\* However a connection ends, what was and will still be written keeps the order of the
\* pushes, once each, and nothing follows a message that was cut: ClearMessage, the error
\* path of Send and the handler's destructor each drop a part of the line and no more.
THEOREM EndsInOrder == Spec => []EndKeepsOrder
<1>1. Init => OrderInv
  <2> SUFFICES ASSUME Init PROVE OrderInv
    OBVIOUS
  <2>1. Line = <<>> /\ accepted = <<>>
    <3>1. delivered = <<>> /\ late = <<>> /\ InFlight = <<>> /\ queue = <<>>
      BY DEF Init, InFlight
    <3> QED
      BY <3>1, EmptySeq, ConcatEmptySeq DEF Line, Init
  <2>2. Once(<<>>) /\ InOrder(<<>>, <<>>)
    BY EmptySeq DEF Once, InOrder
  <2> QED
    BY <2>1, <2>2 DEF Init, OrderInv
<1>2. OrderInv => EndKeepsOrder
  <2> SUFFICES ASSUME OrderInv PROVE EndKeepsOrder
    OBVIOUS
  <2>1. \A i \in DOMAIN Line : Place(Line[i]) \in DOMAIN accepted
                               /\ accepted[Place(Line[i])] = Line[i]
    BY DEF OrderInv, InOrder, Place
  <2>2. \A i, j \in DOMAIN Line : i < j => Place(Line[i]) < Place(Line[j])
    BY <2>1 DEF OrderInv, InOrder
  <2>3. cut => dead \/ stage = "deleted"
    BY DEF OrderInv
  <2> QED
    BY <2>2, <2>3, Zenon DEF EndKeepsOrder, Line
<1> QED
  BY <1>1, <1>2, OrderStep, InvariantHolds, PTL DEF Spec
=============================================================================
