----------------------------- MODULE MsgStream -----------------------------
(***************************************************************************)
(* Messages over one direction of a TCP connection: SndMessage::Encode     *)
(* turns a message into a header and a payload, Send writes them in pieces *)
(* and PosixTcpNetStackWorker::Recv puts the pieces together again, driven *)
(* by edge-triggered read events.  The bytes, the buffers and their        *)
(* cursors are those of modules WireFormat and Buffer.  The wake-ups of    *)
(* the sending side are module SendQueue's subject; here the sender writes *)
(* whenever it can.                                                        *)
(***************************************************************************)
EXTENDS WireFormat

CONSTANTS Cap,     \* the bytes that may be in transit
          NoMsg    \* the message of a byte of the header buffer nobody wrote

ASSUME Capacity == Cap \in Nat \ {0} /\ NoMsg \notin Msg

VARIABLES
    queue, sending,        \* sender: messages pushed, m_pSendingBuffer
    wire, eof, edge,       \* kernel: cells in transit, writer closed, read edge pending
    running, rcvState,     \* receiver: inside Recv, m_rcvState
    header, payload,       \* m_pHeaderBuffer and m_payloadBuffer
    m_header,              \* the header decoded last
    lost,                  \* payload buffers overwritten while set
    accepted, delivered, broken

sndVars == <<queue, sending>>
rcvVars == <<running, rcvState, header, payload, m_header, lost, delivered, broken>>
vars == <<sndVars, wire, eof, edge, rcvVars, accepted>>

Init == /\ queue = <<>> /\ sending = NoBuffer
        /\ wire = <<>> /\ eof = FALSE /\ edge = FALSE
        /\ running = FALSE /\ rcvState = "StartToRcvHeader"
        /\ header = GetNewBuffer(HeaderSize, Blank(NoMsg)) /\ payload = NoBuffer
        /\ m_header = [magic |-> 0, id |-> 0, len |-> 0]
        /\ lost = 0
        /\ accepted = <<>> /\ delivered = <<>> /\ broken = FALSE

-----------------------------------------------------------------------------
(* The sender.                                                             *)
Push(m) == /\ \A i \in DOMAIN accepted : accepted[i] # m
           /\ queue' = Append(queue, m) /\ accepted' = Append(accepted, m)
           /\ UNCHANGED <<sending, wire, eof, edge, rcvVars>>

\* Mutant of PopAndEncode: the newest message first.
PopAndEncodeNewest ==
    /\ AvailableLength(sending) = 0 /\ queue # <<>>
    /\ sending' = Encode[queue[Len(queue)]] /\ queue' = SubSeq(queue, 1, Len(queue) - 1)
    /\ UNCHANGED <<wire, eof, edge, rcvVars, accepted>>

PopAndEncode ==
    /\ AvailableLength(sending) = 0 /\ queue # <<>>
    /\ sending' = Encode[Head(queue)] /\ queue' = Tail(queue)
    /\ UNCHANGED <<wire, eof, edge, rcvVars, accepted>>

\* write() takes what fits, and it arrives in pieces of any size; the buffer is put back
\* when nothing is left of it.
Write ==
    /\ AvailableLength(sending) > 0 /\ ~eof
    /\ \E n \in 1 .. AvailableLength(sending) :
        LET rest == MoveHeadBack(sending, n)
        IN /\ Len(wire) + n <= Cap
           /\ wire' = wire \o Cells(sending, sending.pos, n)
           /\ sending' = IF AvailableLength(rest) <= 0 THEN NoBuffer ELSE rest
    /\ edge' = TRUE
    /\ UNCHANGED <<queue, eof, rcvVars, accepted>>

\* The sending side disconnects, between any two writes.
Close == /\ ~eof /\ eof' = TRUE /\ edge' = TRUE
         /\ UNCHANGED <<sndVars, wire, rcvVars, accepted>>

-----------------------------------------------------------------------------
(* The receiver.                                                           *)
\* A pending edge is reported as readable only if there still is something to read.
EventWait ==
    /\ ~running /\ ~broken /\ edge
    /\ edge' = FALSE
    /\ running' = (wire # <<>> \/ eof)
    /\ UNCHANGED <<sndVars, wire, eof, rcvState, header, payload, m_header, lost, accepted,
                   delivered, broken>>

ForHeader == rcvState \in {"StartToRcvHeader", "RcvingHeader"}

Allocates == rcvState = "StartToRcvPayload"

\* The buffers as a read finds them: a new header's is cleared, a new payload's is
\* allocated, whether or not one is set already.
HeaderBuffer ==
    IF rcvState = "StartToRcvHeader" THEN BZero(header, Blank(NoMsg)) ELSE header
PayloadBuffer ==
    IF Allocates THEN GetNewBuffer(m_header.len, Blank(NoMsg))
    ELSE payload

Lost == IF Allocates /\ payload # NoBuffer THEN lost + 1 ELSE lost

\* Where in the buffer a read begins, and for how much it asks.
ReadAt(b) == IF b.last # Null THEN b.last + 1 ELSE Start(b)

Room(b) ==
    IF rcvState \in {"StartToRcvHeader", "StartToRcvPayload"} THEN TotalLength(b) ELSE UnusedSize(b)

\* The outcomes of that read: bytes, EAGAIN, or 0 for the end (or for nothing asked).
Asked == Room(IF ForHeader THEN HeaderBuffer ELSE PayloadBuffer)
Got == IF Len(wire) < Asked THEN Len(wire) ELSE Asked
WouldBlock == Asked > 0 /\ wire = <<>> /\ ~eof
AtEnd == Asked = 0 \/ (wire = <<>> /\ eof)

\* n bytes go into b: CheckAndInitBufferPos and MoveTailBack.
ReadInto(b, n) ==
    Fill(MoveTailBack(IF b.pos = Null THEN SetPos(b, Start(b)) ELSE b, n),
         ReadAt(b), SubSeq(wire, 1, n))

\* A short header ends Recv; a whole one is decoded.
ReadHeader ==
    /\ running /\ ForHeader /\ Got > 0
    /\ \E n \in {Got} : \E b \in {ReadInto(HeaderBuffer, n)} :
          /\ wire' = SubSeq(wire, n + 1, Len(wire))
          /\ header' = b
          /\ IF AvailableLength(b) # TotalLength(b)
             THEN rcvState' = "RcvingHeader" /\ running' = FALSE /\ UNCHANGED broken
             ELSE IF DecodeMsgHeader(b)
             THEN rcvState' = "StartToRcvPayload" /\ UNCHANGED <<running, broken>>
             ELSE broken' = TRUE /\ running' = FALSE /\ UNCHANGED rcvState
          /\ m_header' = (IF AvailableLength(b) = TotalLength(b) THEN HeaderOf(b) ELSE m_header)
    /\ UNCHANGED <<sndVars, eof, edge, payload, lost, accepted, delivered>>

\* The message that header and payload make up, if they are one's.
Message(b) ==
    {m \in Msg : /\ m_header.id = MsgId[m]
                 /\ b.data = [i \in 1 .. PayloadLen[m] |-> <<i % Base, m, HeaderSize + i>>]}

\* Mutant of ReadPayload: Recv returns after each message.
ReadPayloadOnce ==
    /\ running /\ ~ForHeader /\ Got > 0
    /\ \E n \in {Got} : \E b \in {ReadInto(PayloadBuffer, n)} :
          /\ wire' = SubSeq(wire, n + 1, Len(wire))
          /\ running' = FALSE
          /\ IF AvailableLength(b) # m_header.len
             THEN rcvState' = "RcvingPayload" /\ payload' = b /\ UNCHANGED delivered
             ELSE /\ rcvState' = "StartToRcvHeader" /\ payload' = NoBuffer
                  /\ \E m \in Message(b) : delivered' = Append(delivered, m)
    /\ lost' = Lost
    /\ UNCHANGED <<sndVars, eof, edge, header, m_header, accepted, broken>>

\* HandleMessage takes the buffer of a whole payload over.
ReadPayload ==
    /\ running /\ ~ForHeader /\ Got > 0
    /\ \E n \in {Got} : \E b \in {ReadInto(PayloadBuffer, n)} :
          /\ wire' = SubSeq(wire, n + 1, Len(wire))
          /\ IF AvailableLength(b) # m_header.len
             THEN /\ rcvState' = "RcvingPayload" /\ running' = FALSE /\ payload' = b
                  /\ UNCHANGED delivered
             ELSE /\ rcvState' = "StartToRcvHeader" /\ payload' = NoBuffer
                  /\ \E m \in Message(b) : delivered' = Append(delivered, m)
                  /\ UNCHANGED running
    /\ lost' = Lost
    /\ UNCHANGED <<sndVars, eof, edge, header, m_header, accepted, broken>>

\* What a read without data leaves of the buffers.
NothingRead == header' = (IF ForHeader THEN HeaderBuffer ELSE header)
               /\ payload' = PayloadBuffer /\ lost' = Lost

\* EAGAIN: Recv returns and keeps its state for the next event.
ReadWouldBlock ==
    /\ running /\ WouldBlock
    /\ running' = FALSE
    /\ NothingRead
    /\ UNCHANGED <<sndVars, wire, eof, edge, rcvState, m_header, accepted, delivered, broken>>

\* End of file: the user is told and Recv fails.
ReadAtEnd ==
    /\ running /\ AtEnd
    /\ running' = FALSE /\ broken' = TRUE
    /\ NothingRead
    /\ UNCHANGED <<sndVars, wire, eof, edge, rcvState, m_header, accepted, delivered>>

-----------------------------------------------------------------------------
Sender == PopAndEncode \/ Write
Recv == EventWait \/ ReadHeader \/ ReadPayload \/ ReadWouldBlock \/ ReadAtEnd

Next == (\E m \in Msg : Push(m)) \/ Sender \/ Close \/ Recv

Spec == Init /\ [][Next]_vars

\* Both event workers keep running; nobody has to push or to close.
FairSpec == Spec /\ WF_vars(Sender) /\ WF_vars(Recv)

-----------------------------------------------------------------------------
\* Types, and no buffer's cursors outside its block.
Cell == (0 .. Base - 1) \X (Msg \cup {NoMsg}) \X (0 .. HeaderSize + MaxPayload)
StreamTypeOK ==
    /\ queue \in Seq(Msg) /\ wire \in Seq(Cell) /\ Len(wire) <= Cap
    /\ \A b \in {sending, header, payload} :
        b.data \in Seq(Cell) /\ b.available \in BOOLEAN /\ Inside(b)
    /\ rcvState \in {"StartToRcvHeader", "RcvingHeader", "StartToRcvPayload", "RcvingPayload"}
    /\ m_header \in [magic : 0 .. UIntMax, id : 0 .. UIntMax, len : 0 .. UIntMax]
    /\ {eof, edge, running, broken} \subseteq BOOLEAN
    /\ lost \in Nat
    /\ accepted \in Seq(Msg) /\ delivered \in Seq(Msg)

\* Whatever the sizes of the pieces, the messages come out whole, once and in order.
Channel == INSTANCE MsgChannel
ImplementsChannel == Channel!Spec

\* The connection breaks only at the end of what was written: no split of the stream
\* makes the receiver read a header where there is none.
BreaksOnlyAtEnd == broken => eof /\ wire = <<>>

\* A payload that has not arrived with its header costs one buffer, lost when the
\* next read allocates another, and never more than one for each message.
OneBufferLostPerMessage == lost <= Len(delivered) + 1

\* Types hold, every cursor of a buffer lies inside its memory, headers are read where
\* headers were written, and no message costs two buffers.
StreamInv == StreamTypeOK /\ BreaksOnlyAtEnd /\ OneBufferLostPerMessage

\* The receiver never sleeps on data: outside Recv, unread units have an edge coming.
NoDataForgotten == ~running /\ ~broken /\ wire # <<>> => edge

Reached(m) == \E i \in DOMAIN delivered : delivered[i] = m

\* What was written whole before the close is still delivered after it.
WrittenIsDelivered ==
    \A m \in Msg : (\E i \in DOMAIN wire : wire[i][2] = m /\ wire[i][3] = HeaderSize + PayloadLen[m])
                       ~> Reached(m)
=============================================================================
