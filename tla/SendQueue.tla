----------------------------- MODULE SendQueue -----------------------------
(***************************************************************************)
(* The sending half of one connection: user threads in                     *)
(* ANetStackMessageWorker::SendMessage push to a shared queue while the    *)
(* connection's event worker, the only reader, writes it to the socket in  *)
(* PosixTcpNetStackWorker::Send.  The worker sleeps in an edge-triggered   *)
(* epoll; a sender must wake it through the operation list and the pipe.   *)
(*                                                                         *)
(* The connection is the only one of its worker, so nobody else wakes it.  *)
(* It ends by Disconnect or by an error of its socket: it is unregistered, *)
(* its queue is cleared, and its handler is released and deleted, while    *)
(* senders that found it earlier go on.  What they do to a deleted handler *)
(* is undefined: they stop there.  A message is Units units long on the    *)
(* wire; the socket buffer holds Cap of them.                              *)
(***************************************************************************)
EXTENDS Naturals, Sequences

CONSTANTS Thread, Msg, Units, Cap, NoMsg

ASSUME Sizes == Units \in Nat \ {0} /\ Cap \in Nat \ {0}
ASSUME NoMsgIsNone == NoMsg \notin Msg

VARIABLES
    pc, arg, wasEmpty,     \* per sender: where it is, its message, previousSize = 0
    queue,                 \* m_bqMessages
    sending, left,         \* m_pSendingBuffer: its message, its available length
    rwOp, pipe,            \* the operation list holds the handler; bytes in the pipe
    phase, batch, resume,  \* worker_loop: its phase, fetched events, where Send returns
    sock, full, writable,  \* kernel: units buffered, a write met no room, pending edge
    stage,                 \* how far the connection's end has come, see Stages
    dead, cut,             \* the socket is broken; history: a message was left half written
    accepted, delivered,   \* history: messages pushed, messages written to the end
    late                   \* history: messages written once the end had begun

userVars == <<pc, arg, wasEmpty>>
sendVars == <<queue, sending, left>>
wakeVars == <<rwOp, pipe>>
loopVars == <<phase, batch, resume>>
kernelVars == <<sock, full, writable>>
endVars == <<stage, dead, cut>>
history == <<accepted, delivered, late>>
vars == <<userVars, sendVars, wakeVars, loopVars, kernelVars, endVars, history>>

\* Registered; unregistered, with the queue to clear; the handler to release; on the
\* worker's delete list; taken off the list and out of epoll; deleted.
Stages == {"open", "clear", "release", "released", "taken", "deleted"}

Init == /\ pc = [t \in Thread |-> "idle"]
        /\ arg = [t \in Thread |-> NoMsg]
        /\ wasEmpty = [t \in Thread |-> FALSE]
        /\ queue = <<>> /\ sending = NoMsg /\ left = 0
        /\ rwOp = FALSE /\ pipe = FALSE
        /\ phase = "wait" /\ batch = {} /\ resume = "wait"
        /\ sock = 0 /\ full = FALSE /\ writable = FALSE
        /\ stage = "open" /\ dead = FALSE /\ cut = FALSE
        /\ accepted = <<>> /\ delivered = <<>> /\ late = <<>>

-----------------------------------------------------------------------------
(* A sender: SendMessage(m).                                               *)
Return(t) == /\ pc' = [pc EXCEPT ![t] = "idle"]
             /\ arg' = [arg EXCEPT ![t] = NoMsg]
             /\ wasEmpty' = [wasEmpty EXCEPT ![t] = FALSE]

\* NBSocketService::SendMessage finds the handler while it is registered.
SendMessage(t, m) ==
    /\ pc[t] = "idle" /\ stage = "open"
    /\ pc' = [pc EXCEPT ![t] = "size"]
    /\ arg' = [arg EXCEPT ![t] = m]
    /\ UNCHANGED <<wasEmpty, sendVars, wakeVars, loopVars, kernelVars, endVars, history>>

\* previousSize = Size(): the queue's lock is released again before the push.
ReadSize(t) ==
    /\ pc[t] = "size" /\ stage # "deleted"
    /\ pc' = [pc EXCEPT ![t] = "push"]
    /\ wasEmpty' = [wasEmpty EXCEPT ![t] = queue = <<>>]
    /\ UNCHANGED <<arg, sendVars, wakeVars, loopVars, kernelVars, endVars, history>>

\* TryPush: the queue is unbounded, it cannot refuse.
Push(t) ==
    /\ pc[t] = "push" /\ stage # "deleted"
    /\ queue' = Append(queue, arg[t])
    /\ accepted' = Append(accepted, arg[t])
    /\ IF wasEmpty[t] THEN pc' = [pc EXCEPT ![t] = "ask"] /\ UNCHANGED <<arg, wasEmpty>>
                      ELSE Return(t)
    /\ UNCHANGED <<sending, left, wakeVars, loopVars, kernelVars, endVars, delivered, late>>

\* Mutant of Ask: no Wakeup.
AskUnwoken(t) ==
    /\ pc[t] = "ask" /\ stage # "deleted"
    /\ rwOp' = TRUE
    /\ Return(t)
    /\ UNCHANGED <<sendVars, pipe, loopVars, kernelVars, endVars, history>>

\* AddExternalRWOpEvent and Wakeup.
Ask(t) ==
    /\ pc[t] = "ask" /\ stage # "deleted"
    /\ rwOp' = TRUE /\ pipe' = TRUE
    /\ Return(t)
    /\ UNCHANGED <<sendVars, loopVars, kernelVars, endVars, history>>

-----------------------------------------------------------------------------
(* The event worker.                                                       *)
EventWait ==
    /\ phase = "wait" /\ (pipe \/ writable)
    /\ batch' = {e \in {"pipe", "write"} : IF e = "pipe" THEN pipe ELSE writable}
    /\ writable' = FALSE
    /\ phase' = "dels"
    /\ UNCHANGED <<userVars, sendVars, wakeVars, resume, sock, full, endVars, history>>

\* GetExternalEpDelEvents and DeleteHandler; the handler's fetched event is then skipped.
TakeDels ==
    /\ phase = "dels"
    /\ phase' = "events"
    /\ IF stage = "released"
       THEN stage' = "taken" /\ batch' = batch \ {"write"} /\ writable' = FALSE
       ELSE UNCHANGED <<stage, batch, writable>>
    /\ UNCHANGED <<userVars, sendVars, wakeVars, resume, sock, full, dead, cut, history>>

DrainPipe ==
    /\ phase = "events" /\ "pipe" \in batch
    /\ batch' = batch \ {"pipe"}
    /\ pipe' = FALSE
    /\ UNCHANGED <<userVars, sendVars, rwOp, phase, resume, kernelVars, endVars, history>>

\* Mutant of HandleWriteEvent: it leaves the sending to the next request.
HandleWriteEventIdle ==
    /\ phase = "events" /\ "write" \in batch
    /\ batch' = batch \ {"write"}
    /\ UNCHANGED <<userVars, sendVars, wakeVars, phase, resume, kernelVars, endVars, history>>

HandleWriteEvent ==
    /\ phase = "events" /\ "write" \in batch
    /\ batch' = batch \ {"write"}
    /\ phase' = "send" /\ resume' = "events"
    /\ UNCHANGED <<userVars, sendVars, wakeVars, kernelVars, endVars, history>>

\* process_event fails: on_finish unregisters the connection, if nobody else has, and
\* the worker has its end to finish before it goes on at `next`.
OnFinish(next) ==
    IF stage = "open" THEN stage' = "clear" /\ phase' = "finish"
                      ELSE UNCHANGED stage /\ phase' = next

\* A broken socket is reported as readable too, and Recv may meet its end first.
HandleReadEventFails ==
    /\ phase = "events" /\ "write" \in batch /\ dead
    /\ batch' = batch \ {"write"}
    /\ OnFinish("events") /\ resume' = "events"
    /\ UNCHANGED <<userVars, sendVars, wakeVars, kernelVars, dead, cut, history>>

\* GetExternalRWOpEvents, after every fetched event; the handlers taken for deletion are
\* skipped, and deleted when the list is through.
TakeOps ==
    /\ phase = "events" /\ batch = {}
    /\ rwOp => stage # "deleted"
    /\ rwOp' = FALSE
    /\ phase' = (IF stage = "taken" THEN "free" ELSE IF rwOp THEN "send" ELSE "wait")
    /\ resume' = "wait"
    /\ UNCHANGED <<userVars, sendVars, pipe, batch, kernelVars, endVars, history>>

\* Put_Send_Buffer: what is left of the message is not written.
PutSendBuffer ==
    /\ sending' = NoMsg /\ left' = 0
    /\ cut' = (cut \/ left \in 1 .. Units - 1)

\* The handler's destructor closes the socket and drops what is queued and half sent.
Free ==
    /\ phase = "free"
    /\ phase' = "wait"
    /\ stage' = "deleted"
    /\ queue' = <<>>
    /\ PutSendBuffer
    /\ UNCHANGED <<userVars, wakeVars, batch, resume, kernelVars, dead, history>>

-----------------------------------------------------------------------------
(* Send, one turn of its loop at a time.                                   *)

\* Mutant of PopAndEncode: the newest message first.
PopAndEncodeNewest ==
    /\ phase = "send" /\ left = 0 /\ queue # <<>>
    /\ sending' = queue[Len(queue)] /\ left' = Units
    /\ queue' = SubSeq(queue, 1, Len(queue) - 1)
    /\ UNCHANGED <<userVars, wakeVars, loopVars, kernelVars, endVars, history>>

PopAndEncode ==
    /\ phase = "send" /\ left = 0 /\ queue # <<>>
    /\ sending' = Head(queue) /\ left' = Units
    /\ queue' = Tail(queue)
    /\ UNCHANGED <<userVars, wakeVars, loopVars, kernelVars, endVars, history>>

Written(m) ==
    IF stage = "open" THEN delivered' = Append(delivered, m) /\ UNCHANGED late
                      ELSE late' = Append(late, m) /\ UNCHANGED delivered

\* write() takes what fits; the sending buffer goes back to the pool after the last unit.
Write ==
    /\ phase = "send" /\ left > 0 /\ ~dead
    /\ \E n \in 1 .. left :
        /\ sock + n <= Cap
        /\ n = left \/ sock + n = Cap
        /\ sock' = sock + n
        /\ left' = left - n
        /\ IF n = left THEN sending' = NoMsg /\ Written(sending)
                       ELSE UNCHANGED <<sending, delivered, late>>
    /\ UNCHANGED <<userVars, queue, wakeVars, loopVars, full, writable, endVars, accepted>>

\* EAGAIN: the rest waits for the next write event.
NoRoom ==
    /\ phase = "send" /\ left > 0 /\ ~dead /\ sock = Cap
    /\ full' = TRUE
    /\ phase' = resume
    /\ UNCHANGED <<userVars, sendVars, wakeVars, batch, resume, sock, writable, endVars, history>>

\* Any other error, or a write of nothing.
WriteFails ==
    /\ phase = "send" /\ left > 0 /\ dead
    /\ PutSendBuffer
    /\ OnFinish(resume)
    /\ UNCHANGED <<userVars, queue, wakeVars, batch, resume, kernelVars, dead, history>>

QueueEmpty ==
    /\ phase = "send" /\ left = 0 /\ queue = <<>>
    /\ phase' = resume
    /\ UNCHANGED <<userVars, sendVars, wakeVars, batch, resume, kernelVars, endVars, history>>

Send == PopAndEncode \/ Write \/ NoRoom \/ WriteFails \/ QueueEmpty

-----------------------------------------------------------------------------
(* The connection's end: a user's Disconnect, or the worker's on_finish.   *)
Disconnect ==
    /\ stage = "open"
    /\ stage' = "clear"
    /\ UNCHANGED <<userVars, sendVars, wakeVars, loopVars, kernelVars, dead, cut, history>>

\* Mutant of ClearMessage: the message being sent is dropped too.
ClearMessageAndBuffer ==
    /\ stage = "clear"
    /\ stage' = "release"
    /\ queue' = <<>>
    /\ PutSendBuffer
    /\ UNCHANGED <<userVars, wakeVars, loopVars, kernelVars, dead, history>>

ClearMessage ==
    /\ stage = "clear"
    /\ stage' = "release"
    /\ queue' = <<>>
    /\ UNCHANGED <<userVars, sending, left, wakeVars, loopVars, kernelVars, dead, cut, history>>

\* The last reference: the handler goes on its worker's delete list.
Release ==
    /\ stage = "release"
    /\ stage' = "released"
    /\ pipe' = TRUE
    /\ phase' = (IF phase = "finish" THEN resume ELSE phase)
    /\ UNCHANGED <<userVars, sendVars, rwOp, batch, resume, kernelVars, dead, cut, history>>

-----------------------------------------------------------------------------
(* The kernel and the remote end, as long as epoll watches the socket.     *)
Connected == ~dead /\ stage \notin {"taken", "deleted"}

\* The remote takes a unit; room after a refused write is an edge.
RemoteReads ==
    /\ sock > 0 /\ Connected
    /\ sock' = sock - 1
    /\ writable' = (writable \/ full) /\ full' = FALSE
    /\ UNCHANGED <<userVars, sendVars, wakeVars, loopVars, endVars, history>>

\* Data from the remote is an edge, and epoll then reports the socket's room too.
RemoteWrites ==
    /\ sock < Cap /\ Connected
    /\ writable' = TRUE
    /\ UNCHANGED <<userVars, sendVars, wakeVars, loopVars, sock, full, endVars, history>>

\* The connection breaks, which is an edge.
RemoteGone ==
    /\ Connected
    /\ dead' = TRUE /\ writable' = TRUE
    /\ UNCHANGED <<userVars, sendVars, wakeVars, loopVars, sock, full, stage, cut, history>>

-----------------------------------------------------------------------------
Continue(t) == ReadSize(t) \/ Push(t) \/ Ask(t)
Loop == EventWait \/ TakeDels \/ DrainPipe \/ HandleReadEventFails \/ HandleWriteEvent
        \/ TakeOps \/ Free \/ Send
Finish == ClearMessage \/ Release

\* Every message object is sent once.
Unsent(m) == \A i \in DOMAIN accepted : accepted[i] # m
Fresh(m) == Unsent(m) /\ \A t \in Thread : arg[t] # m

Next == \/ \E t \in Thread : Continue(t) \/ \E m \in Msg : Fresh(m) /\ SendMessage(t, m)
        \/ Loop
        \/ Disconnect \/ Finish
        \/ RemoteReads \/ RemoteWrites \/ RemoteGone

Spec == Init /\ [][Next]_vars

\* The worker, a sender inside a call and who finishes the connection are threads that
\* keep running, and the remote reads its socket; nobody has to send anything more.
Fairness == /\ \A t \in Thread : WF_vars(Continue(t))
            /\ WF_vars(Loop) /\ WF_vars(Finish)
            /\ WF_vars(RemoteReads)
FairSpec == Spec /\ Fairness

-----------------------------------------------------------------------------
TypeOK == /\ pc \in [Thread -> {"idle", "size", "push", "ask"}]
          /\ arg \in [Thread -> Msg \cup {NoMsg}]
          /\ wasEmpty \in [Thread -> BOOLEAN]
          /\ queue \in Seq(Msg)
          /\ sending \in Msg \cup {NoMsg}
          /\ left \in 0 .. Units
          /\ rwOp \in BOOLEAN /\ pipe \in BOOLEAN
          /\ phase \in {"wait", "dels", "events", "send", "finish", "free"}
          /\ batch \subseteq {"pipe", "write"}
          /\ resume \in {"wait", "events"}
          /\ sock \in 0 .. Cap
          /\ full \in BOOLEAN /\ writable \in BOOLEAN
          /\ stage \in Stages /\ dead \in BOOLEAN /\ cut \in BOOLEAN
          /\ accepted \in Seq(Msg) /\ delivered \in Seq(Msg) /\ late \in Seq(Msg)

\* No message is lost, doubled or overtaken between the senders' pushes and the
\* socket of an open connection, however the worker is interrupted in the middle of one.
InFlight == IF sending = NoMsg THEN <<>> ELSE <<sending>>
Conservation == stage = "open" => accepted = delivered \o InFlight \o queue

\* Where a message is among those pushed.
Place(m) == CHOOSE i \in DOMAIN accepted : accepted[i] = m

\* The end of a connection is clean on the wire: what is still written when it has begun
\* may follow a gap that ClearMessage left, but is in the senders' order and comes once,
\* and nothing is written behind a message that was cut.
EndKeepsOrder ==
    LET all == delivered \o late \o InFlight \o queue
    IN  /\ \A i, j \in DOMAIN all : i < j => Place(all[i]) < Place(all[j])
        /\ cut => dead \/ stage = "deleted"

\* A sender's request reaches the worker whenever it comes: the list is taken after
\* the pipe is drained, so an entry on it always has a wake-up ahead of it.
AskIsHeard == rwOp => pipe \/ phase # "wait"

\* After Send met a full socket, the rest of the message waits for an edge that is
\* still to come, as long as the connection is registered.
BlockedSendResumes ==
    phase = "wait" /\ left > 0 /\ stage = "open" => full \/ writable

\* Senders and worker implement a channel that keeps order and loses nothing until the
\* connection's end begins, which breaks it.
Channel == INSTANCE MsgChannel WITH broken <- stage # "open"
ImplementsChannel == Channel!Spec

Reached(m) == \E i \in DOMAIN delivered : delivered[i] = m
Pushed(m) == \E i \in DOMAIN accepted : accepted[i] = m
Ended == stage # "open" \/ dead

\* A message whose sender saw the queue empty is written, and so is all before it, unless
\* the connection ends first.
AskedIsWritten ==
    \A m \in Msg : (\E t \in Thread : pc[t] = "ask" /\ arg[t] = m) ~> Reached(m) \/ Ended

\* Events of the connection flush what no sender asked for.
TrafficFlushes == []<>writable => \A m \in Msg : Pushed(m) ~> Reached(m) \/ Ended

\* "We cannot be sure of a write event [...] the data just added could then never be
\* sent, so epoll must be woken and an external event added here"
\* (net-stack-msg-worker.cc:45): every message pushed on a connection that stays is written.
PushedIsWritten == \A m \in Msg : Pushed(m) ~> Reached(m) \/ Ended
=============================================================================
