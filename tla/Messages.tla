------------------------------ MODULE Messages ------------------------------
(***************************************************************************)
(* The memory behind messages, shared by every connection: blocks of the   *)
(* memory pool, the static free list of Buffer objects, and the counter of *)
(* message ids.  Threads (event workers and handshakes) receive messages   *)
(* and send them; a handshake that holds one message while it receives the *)
(* next is two.  Between two events a connection keeps the Buffer of what  *)
(* it has half received or half sent.                                      *)
(*                                                                         *)
(* A received message is an object that lives in a block of its own and is *)
(* destroyed in three steps, of which the first gives that block back.     *)
(* Before the other two a second thread may get it, or the pool gives its  *)
(* page back to the system.  Such a page's blocks count as free: the pool  *)
(* gets new pages, there as elsewhere.                                     *)
(***************************************************************************)
EXTENDS Naturals, Sequences, FiniteSets

CONSTANTS Thread, Block, Buf,
          None,     \* a null pointer
          Bytes,    \* what m_pBuffer reads as in a block that holds something else
          IdMax     \* UINT32_MAX

ASSUME Domains == /\ None \notin Block \cup Buf \cup Thread /\ Bytes \notin Buf \cup {None}
                  /\ IdMax \in Nat /\ IdMax > 2

VARIABLES
    pc, mpo, buffer, rm,   \* per thread: its place, payload block, Buffer and message
    free,                  \* the blocks in the pool
    m_pBuffer,             \* per block: that field of a message there, or Bytes
    made, mem,             \* the Buffer objects that exist; the block each one owns
    s_freeBuffers,         \* the free list
    begun, blank,          \* Buffers that connections keep; those without a byte yet
    lost,                  \* history: Buffers that nothing points to
    kept,                  \* messages handed to the user
    s_lastId, recent,      \* the id counter; the last IdMax - 1 ids
    unmapped,              \* blocks of dying messages whose page has gone to the system
    reused, exposed,       \* history: a dying message's block was given out, or unmapped
    fault                  \* a bad access

thrVars == <<pc, mpo, buffer, rm>>
connVars == <<begun, blank, lost>>
idVars == <<s_lastId, recent>>
pageVars == <<unmapped, reused, exposed>>
vars == <<thrVars, free, m_pBuffer, made, mem, s_freeBuffers, connVars, kept, idVars, pageVars,
          fault>>

Init == /\ pc = [t \in Thread |-> "idle"]
        /\ mpo = [t \in Thread |-> None] /\ buffer = [t \in Thread |-> None]
        /\ rm = [t \in Thread |-> None]
        /\ free = Block /\ m_pBuffer = [b \in Block |-> Bytes]
        /\ made = {} /\ mem = [b \in Buf |-> None] /\ s_freeBuffers = <<>>
        /\ begun = {} /\ blank = {} /\ lost = {}
        /\ kept = {}
        /\ s_lastId = 0 /\ recent = <<>>
        /\ unmapped = {} /\ reused = FALSE /\ exposed = FALSE /\ fault = FALSE

Go(t, from, to) == ~fault /\ pc[t] = from /\ pc' = [pc EXCEPT ![t] = to]

\* Messages whose destructor has given their block back and still uses it.
Dying == {rm[t] : t \in {u \in Thread : pc[u] \in {"released", "put"}}}

\* MemPool::Get: block b, whose new owner puts c where m_pBuffer was.
Get(b, c) == /\ b \in free /\ free' = free \ {b}
             /\ m_pBuffer' = [m_pBuffer EXCEPT ![b] = c]
             /\ unmapped' = unmapped \ {b}
             /\ reused' = (reused \/ b \in Dying)
             /\ UNCHANGED exposed

\* MemPool::Put of what a step lets go: a page all of whose blocks are free may go as well.
\* It matters to the dying messages in that page.
Put(blocks, dying) ==
    /\ free' = free \cup blocks
    /\ \E page \in IF blocks = {} THEN {{}} ELSE SUBSET (dying \cap free') :
         /\ unmapped' = unmapped \cup page
         /\ exposed' = (exposed \/ page # {})
    /\ UNCHANGED reused

-----------------------------------------------------------------------------
(* Receiving, and sending: Encode.                                         *)
\* The block of a payload that arrives, or of a message to send.
GetPayload(t, b) ==
    /\ Go(t, "idle", "payload") /\ Get(b, Bytes)
    /\ mpo' = [mpo EXCEPT ![t] = b]
    /\ UNCHANGED <<buffer, rm, made, mem, s_freeBuffers, connVars, kept, idVars, fault>>

\* Mutant of TakeBuffer: the buffer stays on the list.
TakeBufferKeeps(t) ==
    /\ Go(t, "payload", "buffer")
    /\ \/ /\ s_freeBuffers = <<>>
          /\ \E b \in Buf \ made : made' = made \cup {b} /\ buffer' = [buffer EXCEPT ![t] = b]
          /\ UNCHANGED s_freeBuffers
       \/ /\ s_freeBuffers # <<>>
          /\ buffer' = [buffer EXCEPT ![t] = Head(s_freeBuffers)]
          /\ UNCHANGED <<s_freeBuffers, made>>
    /\ UNCHANGED <<mpo, rm, free, m_pBuffer, mem, connVars, kept, idVars, pageVars, fault>>

\* GetNewBuffer, under the list's lock: the oldest free one, or a new one.
TakeBuffer(t) ==
    /\ Go(t, "payload", "buffer")
    /\ \/ /\ s_freeBuffers = <<>>
          /\ \E b \in Buf \ made : made' = made \cup {b} /\ buffer' = [buffer EXCEPT ![t] = b]
          /\ UNCHANGED s_freeBuffers
       \/ /\ s_freeBuffers # <<>>
          /\ buffer' = [buffer EXCEPT ![t] = Head(s_freeBuffers)]
          /\ s_freeBuffers' = Tail(s_freeBuffers)
          /\ UNCHANGED made
    /\ UNCHANGED <<mpo, rm, free, m_pBuffer, mem, connVars, kept, idVars, pageVars, fault>>

\* Mutant of Owned: the old block is dropped.
OwnedNever(b) == {}

\* Buffer::Refresh: what the buffer owned goes back to the pool.
Owned(b) == {mem[b]} \ {None}

\* What m_payloadBuffer may hold when it is assigned: nothing, or the buffer of an earlier
\* start of the same payload.
Overwritten == {{}} \cup {{b} : b \in blank}

\* GetNewBuffer, behind the lock: the buffer gets the payload's block, and m_payloadBuffer
\* the buffer.
RefreshBuffer(t) ==
    /\ Go(t, "buffer", "filled")
    /\ Put(Owned(buffer[t]), Dying)
    /\ mem' = [mem EXCEPT ![buffer[t]] = mpo[t]]
    /\ mpo' = [mpo EXCEPT ![t] = None]
    /\ \E over \in Overwritten : blank' = blank \ over /\ lost' = lost \cup over
    /\ UNCHANGED <<buffer, rm, m_pBuffer, made, s_freeBuffers, begun, kept, idVars, fault>>

\* The read or the write meets EAGAIN, or the end of the connection.  A payload is started
\* again from the beginning when no byte of it has come.
Pause(t) ==
    /\ Go(t, "filled", "idle")
    /\ \/ begun' = begun \cup {buffer[t]} /\ UNCHANGED blank
       \/ blank' = blank \cup {buffer[t]} /\ UNCHANGED begun
    /\ buffer' = [buffer EXCEPT ![t] = None]
    /\ UNCHANGED <<mpo, rm, free, m_pBuffer, made, mem, s_freeBuffers, lost, kept, idVars,
                   pageVars, fault>>

\* The next event finds the rest.
GoOn(t, b) ==
    /\ Go(t, "idle", "filled") /\ b \in begun
    /\ begun' = begun \ {b}
    /\ buffer' = [buffer EXCEPT ![t] = b]
    /\ UNCHANGED <<mpo, rm, free, m_pBuffer, made, mem, s_freeBuffers, blank, lost, kept, idVars,
                   pageVars, fault>>

\* The Recv that handshake calls within Recv fails in a payload: the outer Recv goes on to
\* clear m_payloadBuffer.
NestedRecvFails(t) ==
    /\ Go(t, "filled", "idle")
    /\ lost' = lost \cup {buffer[t]}
    /\ buffer' = [buffer EXCEPT ![t] = None]
    /\ UNCHANGED <<mpo, rm, free, m_pBuffer, made, mem, s_freeBuffers, begun, blank, kept, idVars,
                   pageVars, fault>>

\* Message::PutBuffer, under the list's lock.
PutBuffer(b) ==
    /\ Put(Owned(b), Dying)
    /\ mem' = [mem EXCEPT ![b] = None]
    /\ s_freeBuffers' = Append(s_freeBuffers, b)

\* Send has written the whole of an encoded message, or fails.
PutSendingBuffer(t) ==
    /\ Go(t, "filled", "idle")
    /\ PutBuffer(buffer[t])
    /\ buffer' = [buffer EXCEPT ![t] = None]
    /\ UNCHANGED <<mpo, rm, m_pBuffer, made, connVars, kept, idVars, fault>>

\* A connection's destructor.
CloseConnection(b) ==
    /\ ~fault /\ b \in begun \cup blank
    /\ PutBuffer(b)
    /\ begun' = begun \ {b} /\ blank' = blank \ {b}
    /\ UNCHANGED <<thrVars, m_pBuffer, made, lost, kept, idVars, fault>>

\* get_new_rcv_message: the whole payload becomes a message.
NewRcvMessage(t, b) ==
    /\ Go(t, "filled", "message") /\ Get(b, buffer[t])
    /\ rm' = [rm EXCEPT ![t] = b]
    /\ buffer' = [buffer EXCEPT ![t] = None]
    /\ UNCHANGED <<mpo, made, mem, s_freeBuffers, connVars, kept, idVars, fault>>

-----------------------------------------------------------------------------
(* The end of a received message.                                          *)
\* HandleMessage: a notification carries it to the user; m_releaseHandle is never set, so
\* that the end of the notification does nothing.
HandleMessage(t) ==
    /\ Go(t, "message", "idle")
    /\ kept' = kept \cup {rm[t]}
    /\ rm' = [rm EXCEPT ![t] = None]
    /\ UNCHANGED <<mpo, buffer, free, m_pBuffer, made, mem, s_freeBuffers, connVars, idVars,
                   pageVars, fault>>

\* A handshake's message is destroyed: first m_refMpo->Put().
ReleaseMemory(t) ==
    /\ Go(t, "message", "released")
    /\ Put({rm[t]}, Dying \cup {rm[t]})
    /\ UNCHANGED <<mpo, buffer, rm, m_pBuffer, made, mem, s_freeBuffers, connVars, kept, idVars,
                   fault>>

\* What a dying message reads in its block: anything, when the page is no longer the pool's.
ReadPointer(t) == {m_pBuffer[rm[t]]} \cup (IF rm[t] \in unmapped THEN {Bytes} ELSE {})

\* Then PutBuffer(m_pBuffer), whatever m_pBuffer has become.
ReleaseBuffer(t) ==
    /\ Go(t, "released", "put")
    /\ \E b \in ReadPointer(t) :
         IF b \in Buf THEN PutBuffer(b) /\ UNCHANGED fault
         ELSE fault' = TRUE /\ UNCHANGED <<free, mem, s_freeBuffers, pageVars>>
    /\ UNCHANGED <<mpo, buffer, rm, m_pBuffer, made, connVars, kept, idVars>>

\* Then m_pBuffer = nullptr: a store into an object that ends, which a compiler may leave out.
ClearPointer(t) ==
    /\ Go(t, "put", "idle")
    /\ \E c \in {None, m_pBuffer[rm[t]]} : m_pBuffer' = [m_pBuffer EXCEPT ![rm[t]] = c]
    /\ UNCHANGED fault \/ (rm[t] \in unmapped /\ fault' = TRUE)
    /\ rm' = [rm EXCEPT ![t] = None]
    /\ unmapped' = unmapped \ {rm[t]}
    /\ UNCHANGED <<mpo, buffer, free, made, mem, s_freeBuffers, connVars, kept, idVars, reused,
                   exposed>>

-----------------------------------------------------------------------------
(* Ids: SndMessage::get_new_id, under its own lock.                        *)
\* Mutant of NextId: the counter starts again one id early.
NextIdEarly == IF s_lastId + 2 >= IdMax THEN 1 ELSE s_lastId + 1

NextId == IF s_lastId + 1 = IdMax THEN 1 ELSE s_lastId + 1

get_new_id ==
    /\ ~fault
    /\ s_lastId' = NextId
    /\ recent' = LET ids == Append(recent, NextId)
                 IN IF Len(ids) < IdMax THEN ids ELSE Tail(ids)
    /\ UNCHANGED <<thrVars, free, m_pBuffer, made, mem, s_freeBuffers, connVars, kept, pageVars,
                   fault>>

-----------------------------------------------------------------------------
Receive(t) == \/ \E b \in Block : GetPayload(t, b) \/ NewRcvMessage(t, b)
              \/ TakeBuffer(t) \/ RefreshBuffer(t) \/ HandleMessage(t)
              \/ Pause(t) \/ NestedRecvFails(t) \/ \E b \in Buf : GoOn(t, b)

Release(t) == PutSendingBuffer(t) \/ ReleaseMemory(t) \/ ReleaseBuffer(t) \/ ClearPointer(t)

Next == \/ \E t \in Thread : Receive(t) \/ Release(t)
        \/ \E b \in Buf : CloseConnection(b)
        \/ get_new_id

Spec == Init /\ [][Next]_vars

-----------------------------------------------------------------------------
MessagesTypeOK ==
    /\ pc \in [Thread -> {"idle", "payload", "buffer", "filled", "message", "released", "put"}]
    /\ mpo \in [Thread -> Block \cup {None}] /\ rm \in [Thread -> Block \cup {None}]
    /\ buffer \in [Thread -> Buf \cup {None}]
    /\ free \subseteq Block /\ kept \subseteq Block
    /\ m_pBuffer \in [Block -> Buf \cup {None, Bytes}]
    /\ made \subseteq Buf /\ mem \in [Buf -> Block \cup {None}]
    /\ s_freeBuffers \in Seq(made)
    /\ begun \subseteq made /\ blank \subseteq made /\ lost \subseteq made
    /\ s_lastId \in 0 .. IdMax - 1 /\ recent \in Seq(1 .. IdMax - 1)
    /\ unmapped \subseteq Block
    /\ reused \in BOOLEAN /\ exposed \in BOOLEAN /\ fault \in BOOLEAN

\* The places a Buffer object can be in: on the list, with a thread, with a connection, in a
\* message, or out of reach.
Places(b) ==
    {<<"list", i>> : i \in {j \in DOMAIN s_freeBuffers : s_freeBuffers[j] = b}}
    \cup {<<"thread", t>> : t \in {u \in Thread : buffer[u] = b}}
    \cup {<<"begun", c>> : c \in {b} \cap begun} \cup {<<"blank", c>> : c \in {b} \cap blank}
    \cup {<<"message", t>> : t \in {u \in Thread : /\ pc[u] \in {"message", "released"}
                                                  /\ m_pBuffer[rm[u]] = b}}
    \cup {<<"user", m>> : m \in {k \in kept : m_pBuffer[k] = b}}
    \cup {<<"lost", c>> : c \in {b} \cap lost}

\* A Buffer is in one place at a time, and none gets lost but in the two ways above: a payload
\* started twice, and a Recv that failed within another.  It holds unless a message's block
\* was given out again before its destructor had done with it.
OneOwner == ~reused /\ ~fault => \A b \in made : Cardinality(Places(b)) = 1

\* The uses of a block: free, on its way to a buffer, with one, as a message.
Uses(b) ==
    (IF b \in free THEN {<<"free", b>>} ELSE {})
    \cup {<<"payload", t>> : t \in {u \in Thread : mpo[u] = b}}
    \cup {<<"buffer", c>> : c \in {d \in Buf : mem[d] = b}}
    \cup {<<"message", t>> : t \in {u \in Thread : pc[u] = "message" /\ rm[u] = b}}
    \cup (IF b \in kept THEN {<<"user", b>>} ELSE {})

\* Every block has one use.  Those of a message that was handed to the user stay in use, and
\* so does that of a lost buffer; again unless a block was given out too early.
MemoryAccounted == ~reused => \A b \in Block : Cardinality(Uses(b)) = 1

\* The destructor meets memory that is not its own only if between m_refMpo->Put() and its
\* end another thread got the message's block or the pool gave the page back.
CrashesOnlyAfterPut == fault => reused \/ exposed

\* Types hold, each Buffer object is in one place, and the destructor goes wrong only after
\* a block was given back too early.
MessagesInv == MessagesTypeOK /\ OneOwner /\ CrashesOnlyAfterPut

\* "Process-wide unique": the last IdMax - 1 ids differ, also across the counter's restart.
IdsApart == \A i, j \in DOMAIN recent : recent[i] = recent[j] => i = j
=============================================================================
