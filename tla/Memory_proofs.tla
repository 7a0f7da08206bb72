--------------------------- MODULE Memory_proofs ---------------------------
(***************************************************************************)
(* The memory of messages (Messages) for any number of threads, blocks and *)
(* Buffer objects, and the ids for any IdMax; and the pool that their      *)
(* memory comes from (MemPool), for any sizes, limits and requests: what   *)
(* is handed out is used by one user at a time.                            *)
(***************************************************************************)
EXTENDS Messages, MemPool, FiniteSetTheorems, TLAPS

Listed == {s_freeBuffers[i] : i \in DOMAIN s_freeBuffers}
Carries(t) == pc[t] \in {"message", "released"}

\* The Buffers that no thread has in hand: those of connections, and the lost ones.
Parked == begun \cup blank \cup lost
PartsApart == begun \cap blank = {} /\ begun \cap lost = {} /\ blank \cap lost = {}

\* What a thread has at its place, whatever was reused; m_pBuffer names no Buffer that was
\* not made.
PlaceInv ==
  /\ \A t \in Thread :
       /\ pc[t] \in {"payload", "buffer"} <=> mpo[t] # None
       /\ pc[t] \in {"buffer", "filled"} <=> buffer[t] # None
       /\ pc[t] \in {"message", "released", "put"} <=> rm[t] # None
       /\ buffer[t] # None => buffer[t] \in made
  /\ \A b \in Block : m_pBuffer[b] \in Buf => m_pBuffer[b] \in made

\* A block has one use.  That of a dying message is in the pool, and two messages never
\* die in one block.
BlocksApart ==
  /\ free \cap kept = {}
  /\ \A t \in Thread : mpo[t] # None =>
       /\ mpo[t] \notin free \cup kept
       /\ \A u \in Thread \ {t} : mpo[u] # mpo[t]
  /\ \A d \in Buf : mem[d] # None =>
       /\ mem[d] \notin free \cup kept
       /\ \A c \in Buf \ {d} : mem[c] # mem[d]
       /\ \A t \in Thread : mpo[t] # mem[d]
  /\ \A t \in Thread : pc[t] = "message" =>
       /\ rm[t] \notin free \cup kept
       /\ \A u \in Thread : mpo[u] # rm[t]
       /\ \A d \in Buf : mem[d] # rm[t]
  /\ \A t \in Thread : rm[t] # None => \A u \in Thread \ {t} : rm[u] # rm[t]
  /\ \A t \in Thread : pc[t] \in {"released", "put"} => rm[t] \in free

BlocksFound ==
  \A b \in Block :
    \/ b \in free \/ b \in kept
    \/ \E t \in Thread : mpo[t] = b
    \/ \E d \in Buf : mem[d] = b
    \/ \E t \in Thread : pc[t] = "message" /\ rm[t] = b

\* A Buffer is in one place.
BuffersApart ==
  /\ PartsApart
  /\ \A b \in Parked :
       /\ b \notin Listed
       /\ \A t \in Thread : buffer[t] # b /\ (Carries(t) => m_pBuffer[rm[t]] # b)
       /\ \A k \in kept : m_pBuffer[k] # b
  /\ \A i, j \in DOMAIN s_freeBuffers : s_freeBuffers[i] = s_freeBuffers[j] => i = j
  /\ \A t \in Thread : Carries(t) =>
       /\ m_pBuffer[rm[t]] \in Buf /\ m_pBuffer[rm[t]] \notin Listed
       /\ \A u \in Thread \ {t} : Carries(u) => m_pBuffer[rm[u]] # m_pBuffer[rm[t]]
  /\ \A k \in kept :
       /\ m_pBuffer[k] \in Buf /\ m_pBuffer[k] \notin Listed
       /\ \A j \in kept \ {k} : m_pBuffer[j] # m_pBuffer[k]
       /\ \A t \in Thread : Carries(t) => m_pBuffer[rm[t]] # m_pBuffer[k]
  /\ \A t \in Thread : buffer[t] # None =>
       /\ buffer[t] \notin Listed
       /\ \A u \in Thread \ {t} : buffer[u] # buffer[t]
       /\ \A u \in Thread : Carries(u) => m_pBuffer[rm[u]] # buffer[t]
       /\ \A k \in kept : m_pBuffer[k] # buffer[t]

BuffersFound ==
  \A b \in made :
    \/ b \in Listed \/ b \in Parked
    \/ \E t \in Thread : buffer[t] = b
    \/ \E t \in Thread : Carries(t) /\ m_pBuffer[rm[t]] = b
    \/ \E k \in kept : m_pBuffer[k] = b

MemoryInv == ~reused => /\ BlocksApart /\ BlocksFound
                        /\ ~fault => BuffersApart /\ BuffersFound

\* Only a page that went back too early makes a pointer unreadable.
PageInv == (unmapped # {} => exposed) /\ (fault => reused \/ exposed)

\* The ids of `recent` lead up to s_lastId, around the counter's restart.
IdInv ==
  /\ recent \in Seq(1 .. IdMax - 1) /\ Len(recent) < IdMax
  /\ s_lastId \in 0 .. IdMax - 1 /\ (s_lastId = 0 => recent = <<>>)
  /\ \A i \in 1 .. Len(recent) :
       LET back == Len(recent) - i
       IN recent[i] = IF s_lastId > back THEN s_lastId - back ELSE s_lastId - back + IdMax - 1

-----------------------------------------------------------------------------
(* Types and places.                                                       *)
ThrTypes ==
  /\ pc \in [Thread -> {"idle", "payload", "buffer", "filled", "message", "released", "put"}]
  /\ mpo \in [Thread -> Block \cup {None}]
  /\ rm \in [Thread -> Block \cup {None}]
  /\ buffer \in [Thread -> Buf \cup {None}]

MemTypes ==
  /\ free \subseteq Block /\ kept \subseteq Block
  /\ m_pBuffer \in [Block -> Buf \cup {None, Bytes}]
  /\ made \subseteq Buf /\ mem \in [Buf -> Block \cup {None}]
  /\ s_freeBuffers \in Seq(made)
  /\ begun \subseteq made /\ blank \subseteq made /\ lost \subseteq made
  /\ unmapped \subseteq Block
  /\ reused \in BOOLEAN /\ exposed \in BOOLEAN /\ fault \in BOOLEAN

\* What a step on Buffers keeps, whatever happened before.
Placed == ThrTypes /\ MemTypes /\ PlaceInv

LEMMA NoNull == None \notin Block /\ None \notin Buf /\ Bytes \notin Buf /\ Bytes # None
BY Domains

LEMMA InitPlaced == Init => Placed
<1> SUFFICES ASSUME Init PROVE Placed
  OBVIOUS
<1>1. ThrTypes
  BY DEF Init, ThrTypes
<1>2. MemTypes
  <2>1. s_freeBuffers \in Seq(made)
    BY DEF Init
  <2>2. /\ free \subseteq Block /\ kept \subseteq Block /\ made \subseteq Buf
        /\ begun \subseteq made /\ blank \subseteq made /\ lost \subseteq made
        /\ unmapped \subseteq Block
    BY DEF Init
  <2> QED
    BY <2>1, <2>2 DEF Init, MemTypes
<1>3. PlaceInv
  BY NoNull DEF Init, PlaceInv
<1> QED
  BY <1>1, <1>2, <1>3 DEF Placed

LEMMA PayloadPlaced ==
  ASSUME Placed, NEW t \in Thread, NEW b \in Block, GetPayload(t, b)
  PROVE  Placed'
<1> USE DEF GetPayload, Go, Get, connVars
<1>1. ThrTypes'
  BY DEF Placed, ThrTypes
<1>2. MemTypes'
  <2>1. reused' \in BOOLEAN
    BY DEF Placed, MemTypes
  <2> QED
    BY <2>1 DEF Placed, MemTypes
<1>3. PlaceInv'
  BY NoNull DEF Placed, ThrTypes, MemTypes, PlaceInv
<1> QED
  BY <1>1, <1>2, <1>3 DEF Placed

LEMMA TakePlaced ==
  ASSUME Placed, NEW t \in Thread, TakeBuffer(t)
  PROVE  /\ Placed'
         /\ buffer'[t] \in made'
<1> USE DEF Go
<1>1. PICK b \in Buf :
        /\ buffer' = [buffer EXCEPT ![t] = b] /\ b \in made' /\ made \subseteq made'
        /\ made' \subseteq Buf /\ s_freeBuffers' \in Seq(made')
  <2>1. CASE s_freeBuffers = <<>>
    <3>1. PICK b \in Buf \ made : made' = made \cup {b} /\ buffer' = [buffer EXCEPT ![t] = b]
      BY <2>1 DEF TakeBuffer
    <3>2. s_freeBuffers' \in Seq(made')
      BY <2>1, <3>1 DEF TakeBuffer
    <3> QED
      BY <3>1, <3>2 DEF Placed, MemTypes
  <2>2. CASE s_freeBuffers # <<>>
    <3>1. Head(s_freeBuffers) \in made /\ Tail(s_freeBuffers) \in Seq(made)
      BY <2>2 DEF Placed, MemTypes
    <3> QED
      BY <2>2, <3>1 DEF TakeBuffer, Placed, MemTypes
  <2> QED
    BY <2>1, <2>2
<1>2. /\ pc[t] = "payload" /\ pc' = [pc EXCEPT ![t] = "buffer"]
      /\ UNCHANGED <<mpo, rm, free, m_pBuffer, mem, connVars, kept, pageVars, fault>>
  BY DEF TakeBuffer
<1>3. ThrTypes'
  BY <1>1, <1>2 DEF Placed, ThrTypes
<1>4. MemTypes'
  <2>1. begun' \subseteq made' /\ blank' \subseteq made' /\ lost' \subseteq made'
    BY <1>1, <1>2 DEF Placed, MemTypes, connVars
  <2> QED
    BY <1>1, <1>2, <2>1 DEF Placed, MemTypes, pageVars
<1>5. PlaceInv'
  BY <1>1, <1>2, NoNull DEF Placed, ThrTypes, MemTypes, PlaceInv
<1> QED
  BY <1>1, <1>3, <1>4, <1>5 DEF Placed, ThrTypes

LEMMA OwnedBlocks == ASSUME MemTypes, NEW b \in Buf PROVE Owned(b) \subseteq Block
BY DEF MemTypes, Owned

\* What Put changes of the pool and of the history.
LEMMA PutIs ==
  ASSUME MemTypes, NEW blocks \in SUBSET Block, NEW dying, Put(blocks, dying)
  PROVE  /\ free' = free \cup blocks /\ free' \subseteq Block
         /\ unmapped' \subseteq Block /\ exposed' \in BOOLEAN /\ reused' = reused
         /\ exposed => exposed'
         /\ unmapped' # {} => unmapped # {} \/ exposed'
<1>1. free' = free \cup blocks /\ free' \subseteq Block /\ reused' = reused
  BY DEF Put, MemTypes
<1>2. PICK page \in SUBSET free' :
        unmapped' = unmapped \cup page /\ exposed' = (exposed \/ page # {})
  <2>1. PICK page \in IF blocks = {} THEN {{}} ELSE SUBSET (dying \cap free') :
          unmapped' = unmapped \cup page /\ exposed' = (exposed \/ page # {})
    BY DEF Put
  <2>2. page \in SUBSET free'
    OBVIOUS
  <2> QED
    BY <2>1, <2>2
<1>3. unmapped' \subseteq Block
  BY <1>1, <1>2 DEF MemTypes
<1>4. exposed' \in BOOLEAN /\ (exposed => exposed')
  BY <1>2
<1>5. unmapped' # {} => unmapped # {} \/ exposed'
  BY <1>2
<1> QED
  BY <1>1, <1>3, <1>4, <1>5

LEMMA RefreshPlaced ==
  ASSUME Placed, NEW t \in Thread, RefreshBuffer(t)
  PROVE  Placed' /\ buffer[t] \in made /\ mpo[t] \in Block
<1> USE DEF RefreshBuffer, Go
<1>1. pc[t] = "buffer" /\ buffer[t] \in made /\ mpo[t] \in Block /\ buffer[t] \in Buf
  BY NoNull DEF Placed, PlaceInv, ThrTypes, MemTypes
<1>2. ThrTypes'
  BY DEF Placed, ThrTypes
<1>3. MemTypes'
  <2>1. /\ free' \subseteq Block /\ unmapped' \subseteq Block /\ exposed' \in BOOLEAN
        /\ reused' = reused
    BY <1>1, OwnedBlocks, PutIs DEF Placed
  <2>2. blank' \subseteq made /\ lost' \subseteq made
    BY DEF Overwritten, Placed, MemTypes
  <2> QED
    BY <1>1, <2>1, <2>2 DEF Placed, MemTypes
<1>4. PlaceInv'
  BY <1>1, NoNull DEF Placed, ThrTypes, MemTypes, PlaceInv
<1> QED
  BY <1>1, <1>2, <1>3, <1>4 DEF Placed

LEMMA PutPlaced ==
  ASSUME MemTypes, NEW b \in made, PutBuffer(b),
         begun' \subseteq begun, blank' \subseteq blank,
         UNCHANGED <<lost, kept, m_pBuffer, made, fault>>
  PROVE  MemTypes'
<1>1. s_freeBuffers' \in Seq(made) /\ mem' \in [Buf -> Block \cup {None}]
  BY DEF MemTypes, PutBuffer
<1>2. /\ free' \subseteq Block /\ unmapped' \subseteq Block /\ exposed' \in BOOLEAN
      /\ reused' = reused
  BY OwnedBlocks, PutIs DEF MemTypes, PutBuffer
<1> QED
  BY <1>1, <1>2 DEF MemTypes

LEMMA SentPlaced ==
  ASSUME Placed, NEW t \in Thread, PutSendingBuffer(t)
  PROVE  Placed' /\ buffer[t] \in made
<1> USE DEF PutSendingBuffer, Go, connVars
<1>1. pc[t] = "filled" /\ buffer[t] \in made
  BY NoNull DEF Placed, PlaceInv
<1>2. ThrTypes'
  BY DEF Placed, ThrTypes
<1>3. MemTypes'
  BY <1>1, PutPlaced DEF Placed
<1>4. PlaceInv'
  BY <1>1, NoNull DEF Placed, ThrTypes, MemTypes, PlaceInv
<1> QED
  BY <1>1, <1>2, <1>3, <1>4 DEF Placed

LEMMA ReceivedPlaced ==
  ASSUME Placed, NEW t \in Thread, NEW b \in Block, NewRcvMessage(t, b)
  PROVE  Placed' /\ buffer[t] \in made
<1> USE DEF NewRcvMessage, Go, Get, connVars
<1>1. pc[t] = "filled" /\ buffer[t] \in made /\ buffer[t] \in Buf
  BY NoNull DEF Placed, PlaceInv, MemTypes
<1>2. ThrTypes'
  BY DEF Placed, ThrTypes
<1>3. MemTypes'
  <2>1. reused' \in BOOLEAN
    BY DEF Placed, MemTypes
  <2> QED
    BY <1>1, <2>1 DEF Placed, MemTypes
<1>4. PlaceInv'
  BY <1>1, NoNull DEF Placed, ThrTypes, MemTypes, PlaceInv
<1> QED
  BY <1>1, <1>2, <1>3, <1>4 DEF Placed

LEMMA HandledPlaced ==
  ASSUME Placed, NEW t \in Thread, HandleMessage(t)
  PROVE  Placed' /\ rm[t] \in Block
<1> USE DEF HandleMessage, Go, connVars, pageVars
<1>1. pc[t] = "message" /\ rm[t] \in Block
  BY DEF Placed, PlaceInv, ThrTypes
<1>2. ThrTypes'
  BY DEF Placed, ThrTypes
<1>3. MemTypes'
  BY <1>1 DEF Placed, MemTypes
<1>4. PlaceInv'
  BY <1>1, NoNull DEF Placed, ThrTypes, MemTypes, PlaceInv
<1> QED
  BY <1>1, <1>2, <1>3, <1>4 DEF Placed

LEMMA ReleasedPlaced ==
  ASSUME Placed, NEW t \in Thread, ReleaseMemory(t)
  PROVE  Placed' /\ rm[t] \in Block
<1> USE DEF ReleaseMemory, Go, connVars
<1>1. pc[t] = "message" /\ rm[t] \in Block
  BY DEF Placed, PlaceInv, ThrTypes
<1>2. ThrTypes'
  BY DEF Placed, ThrTypes
<1>3. MemTypes'
  <2>1. /\ free' \subseteq Block /\ unmapped' \subseteq Block /\ exposed' \in BOOLEAN
        /\ reused' = reused
    BY <1>1, PutIs DEF Placed
  <2> QED
    BY <2>1 DEF Placed, MemTypes
<1>4. PlaceInv'
  BY <1>1, NoNull DEF Placed, ThrTypes, MemTypes, PlaceInv
<1> QED
  BY <1>1, <1>2, <1>3, <1>4 DEF Placed

LEMMA ReleaseBufferPlaced ==
  ASSUME Placed, NEW t \in Thread, ReleaseBuffer(t)
  PROVE  Placed' /\ rm[t] \in Block
<1> USE DEF ReleaseBuffer, Go, connVars
<1>1. pc[t] = "released" /\ rm[t] \in Block
  BY DEF Placed, PlaceInv, ThrTypes
<1>2. ThrTypes'
  BY DEF Placed, ThrTypes
<1>3. MemTypes'
  <2>1. PICK b \in ReadPointer(t) :
          IF b \in Buf THEN PutBuffer(b) /\ UNCHANGED fault
          ELSE fault' = TRUE /\ UNCHANGED <<free, mem, s_freeBuffers, pageVars>>
    OBVIOUS
  <2>2. CASE b \in Buf
    <3>1. b \in made
      BY <1>1, <2>2, NoNull DEF Placed, PlaceInv, ReadPointer
    <3> QED
      BY <2>1, <2>2, <3>1, PutPlaced DEF Placed
  <2>3. CASE b \notin Buf
    BY <2>1, <2>3 DEF Placed, MemTypes, pageVars
  <2> QED
    BY <2>2, <2>3
<1>4. PlaceInv'
  BY <1>1, NoNull DEF Placed, ThrTypes, MemTypes, PlaceInv
<1> QED
  BY <1>1, <1>2, <1>3, <1>4 DEF Placed

LEMMA ClearedPlaced ==
  ASSUME Placed, NEW t \in Thread, ClearPointer(t)
  PROVE  Placed' /\ rm[t] \in Block
<1> USE DEF ClearPointer, Go, connVars
<1>1. pc[t] = "put" /\ rm[t] \in Block
  BY DEF Placed, PlaceInv, ThrTypes
<1>2. ThrTypes'
  BY DEF Placed, ThrTypes
<1>3. PICK c \in {None, m_pBuffer[rm[t]]} : m_pBuffer' = [m_pBuffer EXCEPT ![rm[t]] = c]
  OBVIOUS
<1>4. MemTypes'
  <2>1. m_pBuffer' \in [Block -> Buf \cup {None, Bytes}]
    BY <1>1, <1>3 DEF Placed, MemTypes
  <2>2. unmapped' \subseteq Block
    BY DEF Placed, MemTypes
  <2>3. fault' \in BOOLEAN
    BY DEF Placed, MemTypes
  <2> QED
    BY <2>1, <2>2, <2>3 DEF Placed, MemTypes
<1>5. PlaceInv'
  BY <1>1, <1>3, NoNull DEF Placed, ThrTypes, MemTypes, PlaceInv
<1> QED
  BY <1>1, <1>2, <1>4, <1>5 DEF Placed

LEMMA PausedPlaced ==
  ASSUME Placed, NEW t \in Thread, Pause(t) \/ NestedRecvFails(t)
  PROVE  Placed' /\ buffer[t] \in made
<1> USE DEF Pause, NestedRecvFails, Go, pageVars
<1>1. pc[t] = "filled" /\ buffer[t] \in made
  BY NoNull DEF Placed, PlaceInv
<1>2. ThrTypes'
  BY DEF Placed, ThrTypes
<1>3. MemTypes'
  BY <1>1 DEF Placed, MemTypes
<1>4. PlaceInv'
  BY <1>1, NoNull DEF Placed, ThrTypes, MemTypes, PlaceInv
<1> QED
  BY <1>1, <1>2, <1>3, <1>4 DEF Placed

LEMMA GoesOnPlaced ==
  ASSUME Placed, NEW t \in Thread, NEW b \in Buf, GoOn(t, b)
  PROVE  Placed'
<1> USE DEF GoOn, Go, pageVars
<1>1. pc[t] = "idle" /\ b \in made
  BY DEF Placed, MemTypes
<1>2. ThrTypes'
  BY DEF Placed, ThrTypes
<1>3. MemTypes'
  BY DEF Placed, MemTypes
<1>4. PlaceInv'
  BY <1>1, NoNull DEF Placed, ThrTypes, MemTypes, PlaceInv
<1> QED
  BY <1>2, <1>3, <1>4 DEF Placed

LEMMA ClosedPlaced ==
  ASSUME Placed, NEW b \in Buf, CloseConnection(b)
  PROVE  Placed'
<1>1. b \in made /\ UNCHANGED <<thrVars, m_pBuffer, made>>
  BY DEF CloseConnection, Placed, MemTypes
<1>2. MemTypes'
  BY <1>1, PutPlaced DEF CloseConnection, Placed
<1>3. ThrTypes' /\ PlaceInv'
  BY <1>1 DEF Placed, ThrTypes, PlaceInv, thrVars
<1> QED
  BY <1>2, <1>3 DEF Placed

-----------------------------------------------------------------------------
(* The free list as a set.                                                 *)
Distinct == \A i, j \in DOMAIN s_freeBuffers : s_freeBuffers[i] = s_freeBuffers[j] => i = j

LEMMA ListedAfterPut ==
  ASSUME NEW S, s_freeBuffers \in Seq(S), NEW b \in S,
         s_freeBuffers' = Append(s_freeBuffers, b), Distinct, b \notin Listed
  PROVE  Listed' = Listed \cup {b} /\ Distinct'
<1>1. /\ Len(s_freeBuffers) \in Nat
      /\ DOMAIN s_freeBuffers = 1 .. Len(s_freeBuffers)
      /\ DOMAIN s_freeBuffers' = 1 .. Len(s_freeBuffers) + 1
      /\ \A i \in 1 .. Len(s_freeBuffers) : s_freeBuffers'[i] = s_freeBuffers[i]
      /\ s_freeBuffers'[Len(s_freeBuffers) + 1] = b
  OBVIOUS
<1>2. \A i \in 1 .. Len(s_freeBuffers) + 1 :
        i \in 1 .. Len(s_freeBuffers) \/ i = Len(s_freeBuffers) + 1
  BY <1>1
<1>3. \A i \in 1 .. Len(s_freeBuffers) : i \in 1 .. Len(s_freeBuffers) + 1
  BY <1>1
<1>4. Len(s_freeBuffers) + 1 \in 1 .. Len(s_freeBuffers) + 1
  BY <1>1
<1>5. Listed' = Listed \cup {b}
  <2>1. ASSUME NEW x \in Listed' PROVE x \in Listed \cup {b}
    BY <1>1, <1>2, <2>1 DEF Listed
  <2>2. ASSUME NEW x \in Listed PROVE x \in Listed'
    BY <1>1, <1>3, <2>2 DEF Listed
  <2>3. b \in Listed'
    BY <1>1, <1>4 DEF Listed
  <2> QED
    BY <2>1, <2>2, <2>3
<1>6. \A i \in 1 .. Len(s_freeBuffers) : s_freeBuffers[i] # b
  BY <1>1 DEF Listed
<1>7. Distinct'
  BY <1>1, <1>2, <1>6 DEF Distinct
<1> QED
  BY <1>5, <1>7

LEMMA ListedAfterTake ==
  ASSUME NEW S, s_freeBuffers \in Seq(S), s_freeBuffers # <<>>,
         s_freeBuffers' = Tail(s_freeBuffers), Distinct
  PROVE  /\ Listed = Listed' \cup {Head(s_freeBuffers)} /\ Head(s_freeBuffers) \notin Listed'
         /\ Distinct'
<1>1. /\ Len(s_freeBuffers) \in Nat /\ Len(s_freeBuffers) > 0
      /\ DOMAIN s_freeBuffers = 1 .. Len(s_freeBuffers)
      /\ DOMAIN s_freeBuffers' = 1 .. Len(s_freeBuffers) - 1
      /\ \A i \in 1 .. Len(s_freeBuffers) - 1 : s_freeBuffers'[i] = s_freeBuffers[i + 1]
      /\ s_freeBuffers[1] = Head(s_freeBuffers)
  OBVIOUS
<1>2. \A i \in 1 .. Len(s_freeBuffers) - 1 : i + 1 \in 1 .. Len(s_freeBuffers) /\ i + 1 # 1
  BY <1>1
<1>3. 1 \in 1 .. Len(s_freeBuffers)
  BY <1>1
<1>4. \A i \in 1 .. Len(s_freeBuffers) : i = 1 \/ \E j \in 1 .. Len(s_freeBuffers) - 1 : i = j + 1
  <2>1. ASSUME NEW i \in 1 .. Len(s_freeBuffers), i # 1
        PROVE  i - 1 \in 1 .. Len(s_freeBuffers) - 1 /\ i = (i - 1) + 1
    BY <1>1, <2>1
  <2> QED
    BY <2>1
<1>5. Listed = Listed' \cup {Head(s_freeBuffers)}
  <2>1. ASSUME NEW x \in Listed' PROVE x \in Listed
    BY <1>1, <1>2, <2>1 DEF Listed
  <2>2. ASSUME NEW x \in Listed PROVE x \in Listed' \cup {Head(s_freeBuffers)}
    <3>1. PICK i \in 1 .. Len(s_freeBuffers) : s_freeBuffers[i] = x
      BY <1>1, <2>2 DEF Listed
    <3>2. CASE i = 1
      BY <1>1, <3>1, <3>2
    <3>3. CASE i # 1
      <4>1. PICK j \in 1 .. Len(s_freeBuffers) - 1 : i = j + 1
        BY <1>4, <3>3
      <4>2. s_freeBuffers'[j] = x
        BY <1>1, <3>1, <4>1
      <4> QED
        BY <1>1, <4>2 DEF Listed
    <3> QED
      BY <3>2, <3>3
  <2>3. Head(s_freeBuffers) \in Listed
    BY <1>1, <1>3 DEF Listed
  <2> QED
    BY <2>1, <2>2, <2>3
<1>6. Head(s_freeBuffers) \notin Listed'
  BY <1>1, <1>2, <1>3 DEF Listed, Distinct
<1>7. Distinct'
  <2>1. ASSUME NEW i \in 1 .. Len(s_freeBuffers) - 1, NEW j \in 1 .. Len(s_freeBuffers) - 1,
               s_freeBuffers'[i] = s_freeBuffers'[j]
        PROVE  i = j
    <3>1. s_freeBuffers[i + 1] = s_freeBuffers[j + 1]
      BY <1>1, <2>1
    <3>2. i + 1 = j + 1
      BY <1>1, <1>2, <3>1 DEF Distinct
    <3> QED
      BY <1>1, <3>2
  <2> QED
    BY <1>1, <2>1 DEF Distinct
<1> QED
  BY <1>5, <1>6, <1>7

-----------------------------------------------------------------------------
(* One use for a block and one place for a Buffer.                         *)
LEMMA BlocksStay ==
  ASSUME BlocksApart, BlocksFound, UNCHANGED <<free, kept, mpo, mem, rm>>,
         \A t \in Thread : /\ pc'[t] = "message" <=> pc[t] = "message"
                           /\ pc'[t] \in {"released", "put"} => pc[t] \in {"released", "put"}
  PROVE  BlocksApart' /\ BlocksFound'
BY DEF BlocksApart, BlocksFound

LEMMA BuffersStay ==
  ASSUME BuffersApart, BuffersFound, UNCHANGED <<s_freeBuffers, kept, buffer, rm, made>>,
         \A t \in Thread : Carries(t)' <=> Carries(t),
         \A t \in Thread : Carries(t) => m_pBuffer'[rm[t]] = m_pBuffer[rm[t]],
         \A k \in kept : m_pBuffer'[k] = m_pBuffer[k],
         Parked' = Parked, PartsApart'
  PROVE  BuffersApart' /\ BuffersFound'
<1>1. Listed' = Listed
  BY DEF Listed
<1> QED
  BY <1>1 DEF BuffersApart, BuffersFound

LEMMA PayloadMemory ==
  ASSUME Placed, MemoryInv, NEW t \in Thread, NEW b \in Block, GetPayload(t, b)
  PROVE  MemoryInv'
<1> SUFFICES ASSUME ~reused'
             PROVE  BlocksApart' /\ BlocksFound' /\ BuffersApart' /\ BuffersFound'
  BY DEF MemoryInv
<1>1. ~reused /\ ~fault /\ b \notin Dying /\ b \in free /\ free' = free \ {b} /\ mpo[t] = None
      /\ UNCHANGED <<rm, mem, kept, buffer, made, s_freeBuffers, connVars>>
  BY DEF GetPayload, Get, Go, Placed, PlaceInv
<1>2. BlocksApart /\ BlocksFound /\ BuffersApart /\ BuffersFound
  BY <1>1 DEF MemoryInv
<1>3. /\ \A u \in Thread : mpo'[u] = IF u = t THEN b ELSE mpo[u]
      /\ \A u \in Thread \ {t} : pc'[u] = pc[u]
      /\ pc[t] = "idle" /\ pc'[t] = "payload"
      /\ \A k \in Block \ {b} : m_pBuffer'[k] = m_pBuffer[k]
  BY DEF GetPayload, Get, Go, Placed, ThrTypes, MemTypes
<1>4. b \notin kept /\ \A u \in Thread : pc[u] \in {"message", "released", "put"} => rm[u] # b
  BY <1>1, <1>2 DEF BlocksApart, Dying
<1>5. BlocksApart'
  BY <1>1, <1>2, <1>3, <1>4, NoNull DEF BlocksApart
<1>6. BlocksFound'
  <2> SUFFICES ASSUME NEW x \in Block
               PROVE  \/ x \in free' \/ x \in kept'
                      \/ \E u \in Thread : mpo'[u] = x
                      \/ \E d \in Buf : mem'[d] = x
                      \/ \E u \in Thread : pc'[u] = "message" /\ rm'[u] = x
    BY DEF BlocksFound
  <2>1. CASE x = b
    BY <1>3, <2>1
  <2>2. ASSUME NEW u \in Thread, mpo[u] = x PROVE mpo'[u] = x
    BY <1>1, <1>3, <2>2, NoNull
  <2>3. ASSUME NEW u \in Thread, pc[u] = "message" PROVE pc'[u] = "message"
    BY <1>3, <2>3
  <2>4. x \in free => x \in free' \/ x = b
    BY <1>1
  <2> QED
    BY <1>1, <1>2, <2>1, <2>2, <2>3, <2>4 DEF BlocksFound
<1>7. /\ \A u \in Thread : Carries(u)' <=> Carries(u)
      /\ \A u \in Thread : Carries(u) => m_pBuffer'[rm[u]] = m_pBuffer[rm[u]]
      /\ \A k \in kept : m_pBuffer'[k] = m_pBuffer[k]
  BY <1>3, <1>4 DEF Carries, Placed, PlaceInv, ThrTypes, MemTypes
<1>8. Parked' = Parked /\ PartsApart'
  BY <1>1, <1>2 DEF Parked, PartsApart, connVars, BuffersApart
<1> QED
  BY <1>1, <1>2, <1>5, <1>6, <1>7, <1>8, BuffersStay

LEMMA TakeMemory ==
  ASSUME Placed, MemoryInv, NEW t \in Thread, TakeBuffer(t)
  PROVE  MemoryInv'
<1> SUFFICES ASSUME ~reused'
             PROVE  BlocksApart' /\ BlocksFound' /\ BuffersApart' /\ BuffersFound'
  BY DEF MemoryInv
<1>1. /\ ~reused /\ ~fault /\ UNCHANGED <<mpo, rm, free, m_pBuffer, mem, kept, connVars>>
      /\ pc[t] = "payload" /\ pc' = [pc EXCEPT ![t] = "buffer"]
  BY DEF TakeBuffer, Go, pageVars
<1>2. BlocksApart /\ BlocksFound /\ BuffersApart /\ BuffersFound
  BY <1>1 DEF MemoryInv
<1>3. pc'[t] = "buffer" /\ \A u \in Thread \ {t} : pc'[u] = pc[u]
  BY <1>1 DEF Placed, ThrTypes
<1>4. BlocksApart' /\ BlocksFound'
  BY <1>1, <1>2, <1>3, BlocksStay
<1>5. PICK b \in Buf :
        /\ buffer' = [buffer EXCEPT ![t] = b]
        /\ b \notin Listed' /\ Distinct' /\ Listed' \subseteq Listed /\ made' = made \cup {b}
        /\ \/ b \notin made /\ Listed' = Listed
           \/ b \in Listed /\ Listed = Listed' \cup {b}
  <2>1. CASE s_freeBuffers = <<>>
    <3>1. PICK b \in Buf \ made : made' = made \cup {b} /\ buffer' = [buffer EXCEPT ![t] = b]
      BY <2>1 DEF TakeBuffer
    <3>2. s_freeBuffers' = s_freeBuffers
      BY <2>1 DEF TakeBuffer
    <3>3. Listed' = Listed /\ Distinct' /\ b \notin Listed
      BY <1>2, <2>1, <3>2 DEF Listed, Distinct, BuffersApart
    <3> QED
      BY <3>1, <3>3
  <2>2. CASE s_freeBuffers # <<>>
    <3>1. /\ s_freeBuffers' = Tail(s_freeBuffers) /\ made' = made
          /\ buffer' = [buffer EXCEPT ![t] = Head(s_freeBuffers)]
      BY <2>2 DEF TakeBuffer
    <3>2. /\ Listed = Listed' \cup {Head(s_freeBuffers)} /\ Head(s_freeBuffers) \notin Listed'
          /\ Distinct'
      BY <1>2, <2>2, <3>1, ListedAfterTake DEF Placed, MemTypes, BuffersApart, Distinct
    <3>3. Head(s_freeBuffers) \in made
      BY <2>2 DEF Placed, MemTypes
    <3> QED
      BY <3>1, <3>2, <3>3 DEF Placed, MemTypes
  <2> QED
    BY <2>1, <2>2
<1>6. \A u \in Thread : buffer'[u] = IF u = t THEN b ELSE buffer[u]
  BY <1>5 DEF Placed, ThrTypes
<1>7. /\ \A u \in Thread : Carries(u)' <=> Carries(u)
      /\ \A u \in Thread : Carries(u) => m_pBuffer[rm[u]] \in made
      /\ \A k \in kept : m_pBuffer[k] \in made
      /\ buffer[t] = None
  BY <1>1, <1>2, <1>3 DEF Carries, Placed, PlaceInv, ThrTypes, MemTypes, BuffersApart
<1>7a. Parked' = Parked /\ PartsApart' /\ Parked \subseteq made
  BY <1>1, <1>2 DEF Parked, PartsApart, connVars, BuffersApart, Placed, MemTypes
<1>8. /\ b \notin Parked
      /\ \A u \in Thread : buffer[u] # b
      /\ \A u \in Thread : Carries(u) => m_pBuffer[rm[u]] # b
      /\ \A k \in kept : m_pBuffer[k] # b
  <2>1. CASE b \notin made
    BY <1>7, <1>7a, <2>1, NoNull DEF Placed, PlaceInv
  <2>2. CASE b \in Listed
    BY <1>2, <2>2, NoNull DEF BuffersApart
  <2> QED
    BY <1>5, <2>1, <2>2
<1>9. BuffersApart'
  BY <1>1, <1>2, <1>5, <1>6, <1>7, <1>8, <1>7a DEF BuffersApart, Distinct
<1>10. BuffersFound'
  <2> SUFFICES ASSUME NEW c \in made'
               PROVE  \/ c \in Listed' \/ c \in Parked'
                      \/ \E u \in Thread : buffer'[u] = c
                      \/ \E u \in Thread : Carries(u)' /\ m_pBuffer'[rm'[u]] = c
                      \/ \E k \in kept' : m_pBuffer'[k] = c
    BY DEF BuffersFound
  <2>1. CASE c = b
    BY <1>6, <2>1
  <2>2. CASE c # b
    <3>1. c \in made /\ (c \in Listed => c \in Listed') /\ c # None
      BY <1>5, <2>2, NoNull DEF Placed, MemTypes
    <3>2. \A u \in Thread : buffer[u] = c => buffer'[u] = c
      BY <1>6, <1>7, <3>1
    <3> QED
      BY <1>1, <1>2, <1>7, <1>7a, <3>1, <3>2 DEF BuffersFound
  <2> QED
    BY <2>1, <2>2
<1> QED
  BY <1>4, <1>9, <1>10

LEMMA RefreshMemory ==
  ASSUME Placed, MemoryInv, NEW t \in Thread, RefreshBuffer(t)
  PROVE  MemoryInv'
<1> SUFFICES ASSUME ~reused'
             PROVE  BlocksApart' /\ BlocksFound' /\ BuffersApart' /\ BuffersFound'
  BY DEF MemoryInv
<1>1. /\ ~reused /\ ~fault /\ UNCHANGED <<buffer, rm, m_pBuffer, made, s_freeBuffers, kept>>
      /\ pc[t] = "buffer" /\ pc' = [pc EXCEPT ![t] = "filled"]
      /\ free' = free \cup Owned(buffer[t])
      /\ mem' = [mem EXCEPT ![buffer[t]] = mpo[t]] /\ mpo' = [mpo EXCEPT ![t] = None]
  BY DEF RefreshBuffer, Go, Put
<1>2. BlocksApart /\ BlocksFound /\ BuffersApart /\ BuffersFound
  BY <1>1 DEF MemoryInv
<1>3. PICK b \in Buf : b = buffer[t]
  BY RefreshPlaced DEF Placed, MemTypes
<1>4. PICK p \in Block : p = mpo[t]
  BY RefreshPlaced
<1>5. /\ pc'[t] = "filled" /\ \A u \in Thread \ {t} : pc'[u] = pc[u]
      /\ \A u \in Thread : mpo'[u] = IF u = t THEN None ELSE mpo[u]
      /\ \A d \in Buf : mem'[d] = IF d = b THEN p ELSE mem[d]
  BY <1>1, <1>3, <1>4 DEF Placed, ThrTypes, MemTypes
<1>6. /\ free \subseteq free' /\ \A x \in free' : x \in free \/ (x = mem[b] /\ x # None)
      /\ mem[b] # None => mem[b] \in free'
  BY <1>1, <1>3 DEF Owned
<1>7. /\ p \notin free /\ p \notin kept /\ p # mem[b] /\ p # None
      /\ \A u \in Thread \ {t} : mpo[u] # p
      /\ \A d \in Buf : mem[d] # p
      /\ \A u \in Thread : pc[u] = "message" => rm[u] # p
  BY <1>2, <1>4, NoNull DEF BlocksApart
<1>8. BlocksApart'
  <2>1. free' \cap kept' = {}
    BY <1>1, <1>2, <1>6 DEF BlocksApart
  <2>2. \A u \in Thread : mpo'[u] # None =>
          /\ mpo'[u] \notin free' \cup kept'
          /\ \A v \in Thread \ {u} : mpo'[v] # mpo'[u]
    BY <1>1, <1>2, <1>3, <1>5, <1>6 DEF BlocksApart
  <2>3. \A d \in Buf : mem'[d] # None =>
          /\ mem'[d] \notin free' \cup kept'
          /\ \A c \in Buf \ {d} : mem'[c] # mem'[d]
          /\ \A u \in Thread : mpo'[u] # mem'[d]
    BY <1>1, <1>2, <1>3, <1>5, <1>6, <1>7 DEF BlocksApart
  <2>4. \A u \in Thread : pc'[u] = "message" =>
          /\ rm'[u] \notin free' \cup kept'
          /\ \A v \in Thread : mpo'[v] # rm'[u]
          /\ \A d \in Buf : mem'[d] # rm'[u]
    <3>1. \A u \in Thread : pc'[u] = "message" => pc[u] = "message" /\ rm[u] # None
      BY <1>5 DEF Placed, PlaceInv
    <3> QED
      BY <1>1, <1>2, <1>3, <1>5, <1>6, <1>7, <3>1 DEF BlocksApart
  <2>5. \A u \in Thread : rm'[u] # None => \A v \in Thread \ {u} : rm'[v] # rm'[u]
    BY <1>1, <1>2 DEF BlocksApart
  <2>6. \A u \in Thread : pc'[u] \in {"released", "put"} => rm'[u] \in free'
    BY <1>1, <1>2, <1>5, <1>6 DEF BlocksApart
  <2> QED
    BY <2>1, <2>2, <2>3, <2>4, <2>5, <2>6 DEF BlocksApart
<1>9. BlocksFound'
  <2> SUFFICES ASSUME NEW x \in Block
               PROVE  \/ x \in free' \/ x \in kept'
                      \/ \E u \in Thread : mpo'[u] = x
                      \/ \E d \in Buf : mem'[d] = x
                      \/ \E u \in Thread : pc'[u] = "message" /\ rm'[u] = x
    BY DEF BlocksFound
  <2>1. CASE x = p
    BY <1>3, <1>5, <2>1
  <2>2. ASSUME NEW u \in Thread, mpo[u] = x, x # p PROVE mpo'[u] = x
    BY <1>4, <1>5, <2>2
  <2>3. ASSUME NEW u \in Thread, pc[u] = "message" PROVE pc'[u] = "message"
    BY <1>1, <1>5, <2>3
  <2>4. ASSUME NEW d \in Buf, mem[d] = x PROVE mem'[d] = x \/ x \in free'
    BY <1>5, <1>6, <2>4, NoNull
  <2> QED
    BY <1>1, <1>2, <1>6, <2>1, <2>2, <2>3, <2>4 DEF BlocksFound
<1>10. \A u \in Thread : Carries(u)' <=> Carries(u)
  BY <1>1, <1>5 DEF Carries
<1>11. Parked' = Parked /\ PartsApart'
  <2>1. PICK over \in Overwritten : blank' = blank \ over /\ lost' = lost \cup over
    BY DEF RefreshBuffer
  <2>2. over \subseteq blank /\ begun' = begun
    BY DEF Overwritten, RefreshBuffer
  <2> QED
    BY <1>2, <2>1, <2>2 DEF Parked, PartsApart, BuffersApart
<1> QED
  BY <1>1, <1>2, <1>8, <1>9, <1>10, <1>11, BuffersStay

\* PutBuffer gives the Buffer's block back to the pool.
LEMMA PutBlocks ==
  ASSUME Placed, BlocksApart, BlocksFound, NEW b \in Buf, PutBuffer(b),
         UNCHANGED <<kept, mpo, rm>>,
         \A u \in Thread : /\ pc'[u] = "message" <=> pc[u] = "message"
                           /\ pc'[u] \in {"released", "put"} => pc[u] \in {"released", "put"}
  PROVE  BlocksApart' /\ BlocksFound'
<1>1. \A d \in Buf : mem'[d] = IF d = b THEN None ELSE mem[d]
  BY DEF Placed, MemTypes, PutBuffer
<1>2. /\ free \subseteq free' /\ \A x \in free' : x \in free \/ (x = mem[b] /\ x # None)
      /\ mem[b] # None => mem[b] \in free'
  BY DEF Owned, PutBuffer, Put
<1>3. BlocksApart'
  <2>1. free' \cap kept' = {}
    BY <1>2 DEF BlocksApart
  <2>2. \A u \in Thread : mpo'[u] # None =>
          /\ mpo'[u] \notin free' \cup kept'
          /\ \A v \in Thread \ {u} : mpo'[v] # mpo'[u]
    BY <1>2 DEF BlocksApart
  <2>3. \A d \in Buf : mem'[d] # None =>
          /\ mem'[d] \notin free' \cup kept'
          /\ \A c \in Buf \ {d} : mem'[c] # mem'[d]
          /\ \A u \in Thread : mpo'[u] # mem'[d]
    BY <1>1, <1>2 DEF BlocksApart
  <2>4. \A u \in Thread : pc'[u] = "message" =>
          /\ rm'[u] \notin free' \cup kept'
          /\ \A v \in Thread : mpo'[v] # rm'[u]
          /\ \A d \in Buf : mem'[d] # rm'[u]
    <3>1. \A u \in Thread : pc[u] = "message" => rm[u] # None
      BY DEF Placed, PlaceInv
    <3> QED
      BY <1>1, <1>2, <3>1 DEF BlocksApart
  <2>5. \A u \in Thread : rm'[u] # None => \A v \in Thread \ {u} : rm'[v] # rm'[u]
    BY DEF BlocksApart
  <2>6. \A u \in Thread : pc'[u] \in {"released", "put"} => rm'[u] \in free'
    BY <1>2 DEF BlocksApart
  <2> QED
    BY <2>1, <2>2, <2>3, <2>4, <2>5, <2>6 DEF BlocksApart
<1>4. BlocksFound'
  <2>1. \A x \in Block : \A d \in Buf : mem[d] = x => mem'[d] = x \/ x \in free'
    BY <1>1, <1>2, NoNull
  <2> QED
    BY <1>2, <2>1 DEF BlocksFound
<1> QED
  BY <1>3, <1>4

LEMMA SentMemory ==
  ASSUME Placed, MemoryInv, NEW t \in Thread, PutSendingBuffer(t)
  PROVE  MemoryInv'
<1> SUFFICES ASSUME ~reused'
             PROVE  BlocksApart' /\ BlocksFound' /\ BuffersApart' /\ BuffersFound'
  BY DEF MemoryInv
<1>1. /\ ~reused /\ ~fault /\ UNCHANGED <<mpo, rm, m_pBuffer, made, kept, connVars>>
      /\ pc[t] = "filled" /\ pc' = [pc EXCEPT ![t] = "idle"]
      /\ PutBuffer(buffer[t]) /\ buffer' = [buffer EXCEPT ![t] = None]
  BY DEF PutSendingBuffer, Go, PutBuffer, Put
<1>2. BlocksApart /\ BlocksFound /\ BuffersApart /\ BuffersFound
  BY <1>1 DEF MemoryInv
<1>3. PICK b \in made : b = buffer[t]
  BY SentPlaced
<1>4. /\ pc'[t] = "idle" /\ \A u \in Thread \ {t} : pc'[u] = pc[u]
      /\ \A u \in Thread : buffer'[u] = IF u = t THEN None ELSE buffer[u]
      /\ b \in Buf /\ b # None
  BY <1>1, <1>3, NoNull DEF Placed, ThrTypes, MemTypes
<1>5. BlocksApart' /\ BlocksFound'
  <2>1. \A u \in Thread : /\ pc'[u] = "message" <=> pc[u] = "message"
                          /\ pc'[u] \in {"released", "put"} => pc[u] \in {"released", "put"}
    BY <1>1, <1>4
  <2> QED
    BY <1>1, <1>2, <1>3, <1>4, <2>1, PutBlocks
<1>6. \A u \in Thread : Carries(u)' <=> Carries(u)
  BY <1>1, <1>4 DEF Carries
<1>7. b \notin Listed
  BY <1>2, <1>3, <1>4 DEF BuffersApart
<1>8. Listed' = Listed \cup {b} /\ Distinct'
  BY <1>1, <1>2, <1>3, <1>7, ListedAfterPut DEF Placed, MemTypes, PutBuffer, BuffersApart, Distinct
<1>9. Parked' = Parked /\ PartsApart' /\ b \notin Parked
  BY <1>1, <1>2, <1>3 DEF Parked, PartsApart, connVars, BuffersApart
<1>10. BuffersApart'
  <2>1. \A d \in Parked' :
          /\ d \notin Listed'
          /\ \A u \in Thread : buffer'[u] # d /\ (Carries(u)' => m_pBuffer'[rm'[u]] # d)
          /\ \A k \in kept' : m_pBuffer'[k] # d
    BY <1>1, <1>2, <1>4, <1>6, <1>8, <1>9, NoNull
       DEF BuffersApart, Placed, MemTypes, Parked
  <2> QED
    BY <1>1, <1>2, <1>3, <1>4, <1>6, <1>8, <1>9, <2>1 DEF BuffersApart, Distinct
<1>11. BuffersFound'
  BY <1>1, <1>2, <1>3, <1>4, <1>6, <1>8, <1>9 DEF BuffersFound
<1> QED
  BY <1>5, <1>10, <1>11

LEMMA ReceivedMemory ==
  ASSUME Placed, MemoryInv, NEW t \in Thread, NEW b \in Block, NewRcvMessage(t, b)
  PROVE  MemoryInv'
<1> SUFFICES ASSUME ~reused'
             PROVE  BlocksApart' /\ BlocksFound' /\ BuffersApart' /\ BuffersFound'
  BY DEF MemoryInv
<1>1. /\ ~reused /\ ~fault /\ b \notin Dying /\ b \in free /\ free' = free \ {b}
      /\ pc[t] = "filled" /\ pc' = [pc EXCEPT ![t] = "message"]
      /\ rm' = [rm EXCEPT ![t] = b] /\ buffer' = [buffer EXCEPT ![t] = None]
      /\ m_pBuffer' = [m_pBuffer EXCEPT ![b] = buffer[t]]
      /\ UNCHANGED <<mpo, made, mem, s_freeBuffers, kept, connVars>>
  BY DEF NewRcvMessage, Get, Go
<1>2. BlocksApart /\ BlocksFound /\ BuffersApart /\ BuffersFound
  BY <1>1 DEF MemoryInv
<1>3. PICK c \in made : c = buffer[t]
  BY ReceivedPlaced
<1>4. /\ pc'[t] = "message" /\ \A u \in Thread \ {t} : pc'[u] = pc[u]
      /\ \A u \in Thread : rm'[u] = IF u = t THEN b ELSE rm[u]
      /\ \A u \in Thread : buffer'[u] = IF u = t THEN None ELSE buffer[u]
      /\ \A x \in Block : m_pBuffer'[x] = IF x = b THEN c ELSE m_pBuffer[x]
      /\ rm[t] = None /\ c \in Buf /\ c # None
  BY <1>1, <1>3, NoNull DEF Placed, ThrTypes, MemTypes, PlaceInv
<1>5. /\ b \notin kept /\ b # None
      /\ \A u \in Thread : rm[u] # b
      /\ \A u \in Thread : mpo[u] # b
      /\ \A d \in Buf : mem[d] # b
  <2>1. \A u \in Thread : rm[u] # b
    BY <1>1, <1>2, NoNull DEF BlocksApart, Dying, Placed, PlaceInv, ThrTypes
  <2> QED
    BY <1>1, <1>2, <2>1, NoNull DEF BlocksApart
<1>6. BlocksApart'
  BY <1>1, <1>2, <1>4, <1>5 DEF BlocksApart
<1>7. BlocksFound'
  <2>1. \A x \in Block : \A u \in Thread : pc[u] = "message" /\ rm[u] = x =>
          pc'[u] = "message" /\ rm'[u] = x
    BY <1>1, <1>4
  <2> QED
    BY <1>1, <1>2, <1>4, <2>1 DEF BlocksFound
<1>8. /\ \A u \in Thread \ {t} : Carries(u)' <=> Carries(u)
      /\ Carries(t)' /\ ~Carries(t)
      /\ m_pBuffer'[rm'[t]] = c
      /\ \A u \in Thread \ {t} : Carries(u) => m_pBuffer'[rm'[u]] = m_pBuffer[rm[u]]
      /\ \A k \in kept : m_pBuffer'[k] = m_pBuffer[k]
  BY <1>1, <1>4, <1>5 DEF Carries, Placed, PlaceInv, ThrTypes, MemTypes
<1>9. Listed' = Listed /\ Parked' = Parked /\ PartsApart' /\ c \notin Parked
  BY <1>1, <1>2, <1>3 DEF Listed, Parked, PartsApart, connVars, BuffersApart
<1>10. BuffersApart'
  <2>1. \A u \in Thread : Carries(u)' =>
          /\ m_pBuffer'[rm'[u]] \in Buf /\ m_pBuffer'[rm'[u]] \notin Listed'
          /\ \A v \in Thread \ {u} : Carries(v)' => m_pBuffer'[rm'[v]] # m_pBuffer'[rm'[u]]
    BY <1>2, <1>3, <1>4, <1>8, <1>9 DEF BuffersApart
  <2>2. \A k \in kept' :
          /\ m_pBuffer'[k] \in Buf /\ m_pBuffer'[k] \notin Listed'
          /\ \A j \in kept' \ {k} : m_pBuffer'[j] # m_pBuffer'[k]
          /\ \A u \in Thread : Carries(u)' => m_pBuffer'[rm'[u]] # m_pBuffer'[k]
    BY <1>1, <1>2, <1>3, <1>4, <1>8, <1>9 DEF BuffersApart
  <2>3. \A u \in Thread : buffer'[u] # None =>
          /\ buffer'[u] \notin Listed'
          /\ \A v \in Thread \ {u} : buffer'[v] # buffer'[u]
          /\ \A v \in Thread : Carries(v)' => m_pBuffer'[rm'[v]] # buffer'[u]
          /\ \A k \in kept' : m_pBuffer'[k] # buffer'[u]
    BY <1>1, <1>2, <1>3, <1>4, <1>8, <1>9 DEF BuffersApart
  <2>4. Distinct'
    BY <1>1, <1>2 DEF BuffersApart, Distinct
  <2>5. \A d \in Parked' :
          /\ d \notin Listed'
          /\ \A u \in Thread : buffer'[u] # d /\ (Carries(u)' => m_pBuffer'[rm'[u]] # d)
          /\ \A k \in kept' : m_pBuffer'[k] # d
    BY <1>1, <1>2, <1>4, <1>8, <1>9, NoNull DEF BuffersApart, Placed, MemTypes, Parked
  <2> QED
    BY <1>9, <2>1, <2>2, <2>3, <2>4, <2>5 DEF BuffersApart, Distinct
<1>11. BuffersFound'
  <2> SUFFICES ASSUME NEW d \in made
               PROVE  \/ d \in Listed' \/ d \in Parked'
                      \/ \E u \in Thread : buffer'[u] = d
                      \/ \E u \in Thread : Carries(u)' /\ m_pBuffer'[rm'[u]] = d
                      \/ \E k \in kept' : m_pBuffer'[k] = d
    BY <1>1 DEF BuffersFound
  <2>1. CASE d = c
    BY <1>8, <2>1
  <2>2. CASE d # c
    <3>1. \A u \in Thread : buffer[u] = d => buffer'[u] = d
      BY <1>3, <1>4, <2>2
    <3>2. \A u \in Thread : Carries(u) => Carries(u)' /\ m_pBuffer'[rm'[u]] = m_pBuffer[rm[u]]
      BY <1>8
    <3> QED
      BY <1>1, <1>2, <1>8, <1>9, <3>1, <3>2 DEF BuffersFound
  <2> QED
    BY <2>1, <2>2
<1> QED
  BY <1>6, <1>7, <1>10, <1>11

LEMMA HandledMemory ==
  ASSUME Placed, MemoryInv, NEW t \in Thread, HandleMessage(t)
  PROVE  MemoryInv'
<1> SUFFICES ASSUME ~reused'
             PROVE  BlocksApart' /\ BlocksFound' /\ BuffersApart' /\ BuffersFound'
  BY DEF MemoryInv
<1>1. /\ ~reused /\ ~fault /\ pc[t] = "message" /\ pc' = [pc EXCEPT ![t] = "idle"]
      /\ kept' = kept \cup {rm[t]} /\ rm' = [rm EXCEPT ![t] = None]
      /\ UNCHANGED <<mpo, buffer, free, m_pBuffer, made, mem, s_freeBuffers, connVars>>
  BY DEF HandleMessage, Go, pageVars
<1>2. BlocksApart /\ BlocksFound /\ BuffersApart /\ BuffersFound
  BY <1>1 DEF MemoryInv
<1>3. PICK b \in Block : b = rm[t]
  BY HandledPlaced
<1>4. /\ pc'[t] = "idle" /\ \A u \in Thread \ {t} : pc'[u] = pc[u]
      /\ \A u \in Thread : rm'[u] = IF u = t THEN None ELSE rm[u]
      /\ b # None /\ b \notin kept /\ kept' = kept \cup {b}
  BY <1>1, <1>2, <1>3, NoNull DEF Placed, ThrTypes, BlocksApart
<1>5. BlocksApart'
  BY <1>1, <1>2, <1>3, <1>4 DEF BlocksApart
<1>6. BlocksFound'
  <2>1. \A x \in Block : \A u \in Thread : pc[u] = "message" /\ rm[u] = x =>
          x = b \/ (pc'[u] = "message" /\ rm'[u] = x)
    BY <1>3, <1>4
  <2> QED
    BY <1>1, <1>2, <1>4, <2>1 DEF BlocksFound
<1>7. /\ \A u \in Thread \ {t} : Carries(u)' <=> Carries(u)
      /\ Carries(t) /\ ~Carries(t)'
      /\ \A u \in Thread \ {t} : rm'[u] = rm[u]
  BY <1>1, <1>4 DEF Carries
<1>8. Listed' = Listed /\ Parked' = Parked /\ PartsApart'
  BY <1>1, <1>2 DEF Listed, Parked, PartsApart, connVars, BuffersApart
<1>9. BuffersApart'
  <2>1. \A u \in Thread : Carries(u)' =>
          /\ m_pBuffer'[rm'[u]] \in Buf /\ m_pBuffer'[rm'[u]] \notin Listed'
          /\ \A v \in Thread \ {u} : Carries(v)' => m_pBuffer'[rm'[v]] # m_pBuffer'[rm'[u]]
    BY <1>1, <1>2, <1>7, <1>8 DEF BuffersApart
  <2>2. \A k \in kept' :
          /\ m_pBuffer'[k] \in Buf /\ m_pBuffer'[k] \notin Listed'
          /\ \A j \in kept' \ {k} : m_pBuffer'[j] # m_pBuffer'[k]
          /\ \A u \in Thread : Carries(u)' => m_pBuffer'[rm'[u]] # m_pBuffer'[k]
    BY <1>1, <1>2, <1>3, <1>4, <1>7, <1>8 DEF BuffersApart
  <2>3. \A u \in Thread : buffer'[u] # None =>
          /\ buffer'[u] \notin Listed'
          /\ \A v \in Thread \ {u} : buffer'[v] # buffer'[u]
          /\ \A v \in Thread : Carries(v)' => m_pBuffer'[rm'[v]] # buffer'[u]
          /\ \A k \in kept' : m_pBuffer'[k] # buffer'[u]
    BY <1>1, <1>2, <1>3, <1>4, <1>7, <1>8 DEF BuffersApart
  <2>4. Distinct'
    BY <1>1, <1>2 DEF BuffersApart, Distinct
  <2>5. \A d \in Parked' :
          /\ d \notin Listed'
          /\ \A u \in Thread : buffer'[u] # d /\ (Carries(u)' => m_pBuffer'[rm'[u]] # d)
          /\ \A k \in kept' : m_pBuffer'[k] # d
    BY <1>1, <1>2, <1>3, <1>4, <1>7, <1>8 DEF BuffersApart
  <2> QED
    BY <1>8, <2>1, <2>2, <2>3, <2>4, <2>5 DEF BuffersApart, Distinct
<1>10. BuffersFound'
  <2>1. \A u \in Thread : Carries(u) => u = t \/ (Carries(u)' /\ rm'[u] = rm[u])
    BY <1>7
  <2> QED
    BY <1>1, <1>2, <1>3, <1>4, <1>8, <2>1 DEF BuffersFound
<1> QED
  BY <1>5, <1>6, <1>9, <1>10

LEMMA ReleasedMemory ==
  ASSUME Placed, MemoryInv, NEW t \in Thread, ReleaseMemory(t)
  PROVE  MemoryInv'
<1> SUFFICES ASSUME ~reused'
             PROVE  BlocksApart' /\ BlocksFound' /\ BuffersApart' /\ BuffersFound'
  BY DEF MemoryInv
<1>1. /\ ~reused /\ ~fault /\ pc[t] = "message" /\ pc' = [pc EXCEPT ![t] = "released"]
      /\ free' = free \cup {rm[t]}
      /\ UNCHANGED <<mpo, buffer, rm, m_pBuffer, made, mem, s_freeBuffers, kept, connVars>>
  BY DEF ReleaseMemory, Go, Put
<1>2. BlocksApart /\ BlocksFound /\ BuffersApart /\ BuffersFound
  BY <1>1 DEF MemoryInv
<1>3. PICK b \in Block : b = rm[t]
  BY ReleasedPlaced
<1>4. /\ pc'[t] = "released" /\ \A u \in Thread \ {t} : pc'[u] = pc[u]
      /\ b # None /\ b \notin kept /\ free' = free \cup {b}
      /\ \A u \in Thread \ {t} : rm[u] # b
  BY <1>1, <1>2, <1>3, NoNull DEF Placed, ThrTypes, BlocksApart
<1>5. BlocksApart'
  BY <1>1, <1>2, <1>3, <1>4 DEF BlocksApart
<1>6. BlocksFound'
  <2>1. \A x \in Block : \A u \in Thread : pc[u] = "message" /\ rm[u] = x =>
          x = b \/ pc'[u] = "message"
    BY <1>3, <1>4
  <2> QED
    BY <1>1, <1>2, <1>4, <2>1 DEF BlocksFound
<1>7. \A u \in Thread : Carries(u)' <=> Carries(u)
  BY <1>1, <1>4 DEF Carries
<1>8. Parked' = Parked /\ PartsApart'
  BY <1>1, <1>2 DEF Parked, PartsApart, connVars, BuffersApart
<1> QED
  BY <1>1, <1>2, <1>5, <1>6, <1>7, <1>8, BuffersStay

\* The destructor's last reference: its Buffer goes to the list, or, when the page may be
\* gone, the read is a bad access and the blocks are as they were.
LEMMA ReleaseBufferMemory ==
  ASSUME Placed, MemoryInv, NEW t \in Thread, ReleaseBuffer(t)
  PROVE  MemoryInv' /\ (fault' => reused \/ unmapped # {})
<1>1. /\ pc[t] = "released" /\ pc' = [pc EXCEPT ![t] = "put"] /\ ~fault
      /\ UNCHANGED <<mpo, buffer, rm, m_pBuffer, made, kept, connVars>>
  BY DEF ReleaseBuffer, Go
<1>2. PICK c \in ReadPointer(t) :
        IF c \in Buf THEN PutBuffer(c) /\ UNCHANGED fault
        ELSE fault' = TRUE /\ UNCHANGED <<free, mem, s_freeBuffers, pageVars>>
  BY DEF ReleaseBuffer
<1>3. reused' = reused
  BY <1>2 DEF PutBuffer, Put, pageVars
<1> SUFFICES ASSUME ~reused
             PROVE  /\ BlocksApart' /\ BlocksFound' /\ (~fault' => BuffersApart' /\ BuffersFound')
                    /\ fault' => unmapped # {}
  BY <1>3 DEF MemoryInv
<1>4. BlocksApart /\ BlocksFound /\ BuffersApart /\ BuffersFound
  BY <1>1 DEF MemoryInv
<1>5. Carries(t) /\ m_pBuffer[rm[t]] \in Buf
  BY <1>1, <1>4 DEF Carries, BuffersApart
<1>6. pc'[t] = "put" /\ \A u \in Thread \ {t} : pc'[u] = pc[u]
  BY <1>1 DEF Placed, ThrTypes
<1>7. \A u \in Thread : /\ pc'[u] = "message" <=> pc[u] = "message"
                        /\ pc'[u] \in {"released", "put"} => pc[u] \in {"released", "put"}
  BY <1>1, <1>6
<1>8. CASE c \notin Buf
  <2>1. fault' /\ UNCHANGED <<free, mem>> /\ unmapped # {}
    BY <1>2, <1>5, <1>8 DEF ReadPointer
  <2> QED
    BY <1>1, <1>4, <1>7, <2>1, BlocksStay
<1>9. CASE c \in Buf
  <2>1. PICK b \in made : b = m_pBuffer[rm[t]]
    BY <1>5, ReleaseBufferPlaced DEF Placed, PlaceInv
  <2>2. c = b
    BY <1>9, <2>1, NoNull DEF ReadPointer
  <2>3. PutBuffer(b) /\ ~fault' /\ b \in Buf /\ b \notin Listed
    BY <1>1, <1>2, <1>4, <1>5, <1>9, <2>1, <2>2 DEF BuffersApart
  <2>4. BlocksApart' /\ BlocksFound'
    BY <1>1, <1>4, <1>7, <2>3, PutBlocks
  <2>5. /\ \A u \in Thread \ {t} : Carries(u)' <=> Carries(u)
        /\ ~Carries(t)'
    BY <1>6 DEF Carries
  <2>6. Listed' = Listed \cup {b} /\ Distinct'
    BY <1>4, <2>3, ListedAfterPut DEF Placed, MemTypes, PutBuffer, BuffersApart, Distinct
  <2>7. Parked' = Parked /\ PartsApart' /\ b \notin Parked
    BY <1>1, <1>4, <1>5, <2>1 DEF Parked, PartsApart, connVars, BuffersApart
  <2>8. BuffersApart'
    BY <1>1, <1>4, <1>5, <2>1, <2>5, <2>6, <2>7 DEF BuffersApart, Distinct
  <2>9. BuffersFound'
    BY <1>1, <1>4, <2>1, <2>5, <2>6, <2>7 DEF BuffersFound
  <2> QED
    BY <2>3, <2>4, <2>8, <2>9
<1> QED
  BY <1>8, <1>9

LEMMA ClearedMemory ==
  ASSUME Placed, MemoryInv, NEW t \in Thread, ClearPointer(t)
  PROVE  MemoryInv'
<1> SUFFICES ASSUME ~reused'
             PROVE  BlocksApart' /\ BlocksFound' /\ BuffersApart' /\ BuffersFound'
  BY DEF MemoryInv
<1>1. /\ ~reused /\ ~fault /\ pc[t] = "put" /\ pc' = [pc EXCEPT ![t] = "idle"]
      /\ rm' = [rm EXCEPT ![t] = None]
      /\ UNCHANGED <<mpo, buffer, free, made, mem, s_freeBuffers, kept, connVars>>
      /\ \E c : m_pBuffer' = [m_pBuffer EXCEPT ![rm[t]] = c]
  BY DEF ClearPointer, Go
<1>2. BlocksApart /\ BlocksFound /\ BuffersApart /\ BuffersFound
  BY <1>1 DEF MemoryInv
<1>3. PICK b \in Block : b = rm[t]
  BY ClearedPlaced
<1>4. /\ pc'[t] = "idle" /\ \A u \in Thread \ {t} : pc'[u] = pc[u]
      /\ \A u \in Thread : rm'[u] = IF u = t THEN None ELSE rm[u]
      /\ \A x \in Block \ {b} : m_pBuffer'[x] = m_pBuffer[x]
  BY <1>1, <1>3 DEF Placed, ThrTypes, MemTypes
<1>5. b # None /\ b \notin kept /\ \A u \in Thread \ {t} : rm[u] # b
  BY <1>1, <1>2, <1>3, NoNull DEF BlocksApart
<1>6. BlocksApart'
  BY <1>1, <1>2, <1>4 DEF BlocksApart
<1>7. BlocksFound'
  <2>1. \A u \in Thread : pc[u] = "message" => pc'[u] = "message" /\ rm'[u] = rm[u]
    BY <1>1, <1>4
  <2> QED
    BY <1>1, <1>2, <2>1 DEF BlocksFound
<1>8. \A u \in Thread : (Carries(u)' <=> Carries(u)) /\ (Carries(u) => u # t)
  BY <1>1, <1>4 DEF Carries
<1>9. \A u \in Thread : Carries(u) => m_pBuffer'[rm'[u]] = m_pBuffer[rm[u]]
  BY <1>4, <1>5, <1>8 DEF Carries, Placed, PlaceInv, ThrTypes
<1>10. \A k \in kept : m_pBuffer'[k] = m_pBuffer[k]
  BY <1>4, <1>5 DEF Placed, MemTypes
<1>11. Listed' = Listed /\ Parked' = Parked /\ PartsApart'
  BY <1>1, <1>2 DEF Listed, Parked, PartsApart, connVars, BuffersApart
<1>12. BuffersApart'
  BY <1>1, <1>2, <1>8, <1>9, <1>10, <1>11 DEF BuffersApart
<1>13. BuffersFound'
  BY <1>1, <1>2, <1>8, <1>9, <1>10, <1>11 DEF BuffersFound
<1> QED
  BY <1>6, <1>7, <1>12, <1>13

\* A thread that leaves a Buffer where m_payloadBuffer or m_pSendingBuffer keeps it, or where
\* nothing does.
LEMMA PausedMemory ==
  ASSUME Placed, MemoryInv, NEW t \in Thread, Pause(t) \/ NestedRecvFails(t)
  PROVE  MemoryInv'
<1> SUFFICES ASSUME ~reused'
             PROVE  BlocksApart' /\ BlocksFound' /\ BuffersApart' /\ BuffersFound'
  BY DEF MemoryInv
<1>1. /\ ~reused /\ ~fault /\ pc[t] = "filled" /\ pc' = [pc EXCEPT ![t] = "idle"]
      /\ buffer' = [buffer EXCEPT ![t] = None]
      /\ UNCHANGED <<mpo, rm, free, m_pBuffer, made, mem, s_freeBuffers, kept>>
  BY DEF Pause, NestedRecvFails, Go, pageVars
<1>2. BlocksApart /\ BlocksFound /\ BuffersApart /\ BuffersFound
  BY <1>1 DEF MemoryInv
<1>3. PICK b \in made : b = buffer[t]
  BY PausedPlaced
<1>4. /\ pc'[t] = "idle" /\ \A u \in Thread \ {t} : pc'[u] = pc[u]
      /\ \A u \in Thread : buffer'[u] = IF u = t THEN None ELSE buffer[u]
      /\ b \in Buf /\ b # None
  BY <1>1, <1>3, NoNull DEF Placed, ThrTypes, MemTypes
<1>5. BlocksApart' /\ BlocksFound'
  <2>1. \A u \in Thread : /\ pc'[u] = "message" <=> pc[u] = "message"
                          /\ pc'[u] \in {"released", "put"} => pc[u] \in {"released", "put"}
    BY <1>1, <1>4
  <2> QED
    BY <1>1, <1>2, <2>1, BlocksStay
<1>6. \A u \in Thread : Carries(u)' <=> Carries(u)
  BY <1>1, <1>4 DEF Carries
<1>7. b \notin Parked /\ b \notin Listed /\ Listed' = Listed
  BY <1>1, <1>2, <1>3, <1>4 DEF BuffersApart, Listed
<1>8. Parked' = Parked \cup {b} /\ PartsApart'
  BY <1>2, <1>3, <1>7 DEF Pause, NestedRecvFails, Parked, PartsApart, BuffersApart
<1>9. BuffersApart'
  <2>1. \A d \in Parked' :
          /\ d \notin Listed'
          /\ \A u \in Thread : buffer'[u] # d /\ (Carries(u)' => m_pBuffer'[rm'[u]] # d)
          /\ \A k \in kept' : m_pBuffer'[k] # d
    <3>1. \A d \in Parked : d # None
      BY NoNull DEF Placed, MemTypes, Parked
    <3> QED
      BY <1>1, <1>2, <1>3, <1>4, <1>6, <1>7, <1>8, <3>1 DEF BuffersApart
  <2> QED
    BY <1>1, <1>2, <1>3, <1>4, <1>6, <1>7, <1>8, <2>1 DEF BuffersApart
<1>10. BuffersFound'
  BY <1>1, <1>2, <1>3, <1>4, <1>6, <1>7, <1>8 DEF BuffersFound
<1> QED
  BY <1>5, <1>9, <1>10

LEMMA GoesOnMemory ==
  ASSUME Placed, MemoryInv, NEW t \in Thread, NEW b \in Buf, GoOn(t, b)
  PROVE  MemoryInv'
<1> SUFFICES ASSUME ~reused'
             PROVE  BlocksApart' /\ BlocksFound' /\ BuffersApart' /\ BuffersFound'
  BY DEF MemoryInv
<1>1. /\ ~reused /\ ~fault /\ pc[t] = "idle" /\ pc' = [pc EXCEPT ![t] = "filled"]
      /\ buffer' = [buffer EXCEPT ![t] = b] /\ b \in begun /\ begun' = begun \ {b}
      /\ UNCHANGED <<mpo, rm, free, m_pBuffer, made, mem, s_freeBuffers, blank, lost, kept>>
  BY DEF GoOn, Go, pageVars
<1>2. BlocksApart /\ BlocksFound /\ BuffersApart /\ BuffersFound
  BY <1>1 DEF MemoryInv
<1>3. /\ pc'[t] = "filled" /\ \A u \in Thread \ {t} : pc'[u] = pc[u]
      /\ \A u \in Thread : buffer'[u] = IF u = t THEN b ELSE buffer[u]
      /\ b # None /\ buffer[t] = None
  BY <1>1, NoNull DEF Placed, ThrTypes, PlaceInv
<1>4. BlocksApart' /\ BlocksFound'
  <2>1. \A u \in Thread : /\ pc'[u] = "message" <=> pc[u] = "message"
                          /\ pc'[u] \in {"released", "put"} => pc[u] \in {"released", "put"}
    BY <1>1, <1>3
  <2> QED
    BY <1>1, <1>2, <2>1, BlocksStay
<1>5. (\A u \in Thread : Carries(u)' <=> Carries(u)) /\ Listed' = Listed
  BY <1>1, <1>3 DEF Carries, Listed
<1>6. b \in Parked /\ Parked' = Parked \ {b} /\ PartsApart'
  BY <1>1, <1>2 DEF Parked, PartsApart, BuffersApart
<1>7. BuffersApart'
  BY <1>1, <1>2, <1>3, <1>5, <1>6 DEF BuffersApart
<1>8. BuffersFound'
  <2>1. \A u \in Thread : \A c \in made : buffer[u] = c => buffer'[u] = c
    BY <1>3, NoNull DEF Placed, MemTypes
  <2> QED
    BY <1>1, <1>2, <1>3, <1>5, <1>6, <2>1 DEF BuffersFound
<1> QED
  BY <1>4, <1>7, <1>8

LEMMA ClosedMemory ==
  ASSUME Placed, MemoryInv, NEW b \in Buf, CloseConnection(b)
  PROVE  MemoryInv'
<1> SUFFICES ASSUME ~reused'
             PROVE  BlocksApart' /\ BlocksFound' /\ BuffersApart' /\ BuffersFound'
  BY DEF MemoryInv
<1>1. /\ ~reused /\ ~fault /\ b \in begun \cup blank /\ PutBuffer(b)
      /\ begun' = begun \ {b} /\ blank' = blank \ {b}
      /\ UNCHANGED <<pc, mpo, buffer, rm, m_pBuffer, made, lost, kept>>
  BY DEF CloseConnection, thrVars, PutBuffer, Put
<1>2. BlocksApart /\ BlocksFound /\ BuffersApart /\ BuffersFound
  BY <1>1 DEF MemoryInv
<1>3. BlocksApart' /\ BlocksFound'
  BY <1>1, <1>2, PutBlocks
<1>4. \A u \in Thread : Carries(u)' <=> Carries(u)
  BY <1>1 DEF Carries
<1>5. b \in Parked /\ b \notin Listed /\ b \in made
  BY <1>1, <1>2 DEF Parked, BuffersApart, Placed, MemTypes
<1>6. Listed' = Listed \cup {b} /\ Distinct'
  BY <1>1, <1>2, <1>5, ListedAfterPut DEF Placed, MemTypes, PutBuffer, BuffersApart, Distinct
<1>7. Parked' = Parked \ {b} /\ PartsApart'
  BY <1>1, <1>2 DEF Parked, PartsApart, BuffersApart
<1>8. BuffersApart'
  BY <1>1, <1>2, <1>4, <1>5, <1>6, <1>7 DEF BuffersApart, Distinct
<1>9. BuffersFound'
  BY <1>1, <1>2, <1>4, <1>5, <1>6, <1>7 DEF BuffersFound
<1> QED
  BY <1>3, <1>8, <1>9

-----------------------------------------------------------------------------
(* Ids.                                                                    *)
LEMMA NewId ==
  ASSUME IdInv, get_new_id
  PROVE  IdInv'
<1> DEFINE ids == Append(recent, NextId)
<1>0. IdMax \in Nat /\ IdMax > 2
  BY Domains
<1>1. NextId \in 1 .. IdMax - 1 /\ s_lastId' = NextId
  BY <1>0 DEF IdInv, get_new_id, NextId
<1>2. Len(recent) \in Nat /\ Len(recent) < IdMax
  BY DEF IdInv
<1>3. /\ ids \in Seq(1 .. IdMax - 1) /\ Len(ids) = Len(recent) + 1
      /\ \A i \in 1 .. Len(recent) : ids[i] = recent[i]
      /\ ids[Len(recent) + 1] = NextId
  BY <1>1 DEF IdInv
<1>4. \A i \in 1 .. Len(ids) :
        \/ ids[i] = IF NextId > Len(ids) - i THEN NextId - (Len(ids) - i)
                    ELSE NextId - (Len(ids) - i) + IdMax - 1
        \/ Len(ids) - i = IdMax - 1
  <2> SUFFICES ASSUME NEW i \in 1 .. Len(ids), Len(ids) - i # IdMax - 1
               PROVE  ids[i] = IF NextId > Len(ids) - i THEN NextId - (Len(ids) - i)
                               ELSE NextId - (Len(ids) - i) + IdMax - 1
    OBVIOUS
  <2>1. CASE i = Len(recent) + 1
    BY <1>1, <1>3, <2>1
  <2>2. CASE i # Len(recent) + 1
    <3>1. i \in 1 .. Len(recent)
      BY <1>2, <1>3, <2>2
    <3>2. ids[i] = IF s_lastId > Len(recent) - i THEN s_lastId - (Len(recent) - i)
                   ELSE s_lastId - (Len(recent) - i) + IdMax - 1
      BY <1>3, <3>1 DEF IdInv
    <3>3. s_lastId \in 1 .. IdMax - 1
      BY <1>0, <1>2, <3>1 DEF IdInv
    <3>4. CASE s_lastId + 1 = IdMax
      <4>1. NextId = 1
        BY <3>4 DEF NextId
      <4> DEFINE back == Len(recent) - i
      <4>2. back \in Nat /\ back = Len(recent) - i
        BY <1>2, <3>1
      <4>3. /\ Len(ids) - i = back + 1 /\ back < IdMax - 1 /\ s_lastId = IdMax - 1
            /\ ids[i] = s_lastId - back
        <5>1. back < IdMax - 1
          BY <1>0, <1>2, <3>1, <4>2
        <5>2. Len(ids) - i = back + 1
          BY <1>2, <1>3, <3>1, <4>2
        <5>3. s_lastId = IdMax - 1
          BY <1>0, <3>3, <3>4
        <5> QED
          BY <1>0, <3>2, <4>2, <5>1, <5>2, <5>3
      <4> HIDE DEF ids, back
      <4> QED
        BY <1>0, <4>1, <4>2, <4>3
    <3>5. CASE s_lastId + 1 # IdMax
      <4>1. NextId = s_lastId + 1
        BY <3>5 DEF NextId
      <4> QED
        BY <1>0, <1>2, <1>3, <3>1, <3>2, <3>3, <3>5, <4>1
    <3> QED
      BY <3>4, <3>5
  <2> QED
    BY <2>1, <2>2
<1>5. CASE Len(ids) < IdMax
  <2>1. recent' = ids
    BY <1>5 DEF get_new_id
  <2>2. \A i \in 1 .. Len(ids) : Len(ids) - i # IdMax - 1
    BY <1>0, <1>2, <1>3, <1>5
  <2> QED
    BY <1>0, <1>1, <1>3, <1>4, <1>5, <2>1, <2>2 DEF IdInv
<1>6. CASE ~(Len(ids) < IdMax)
  <2>1. recent' = Tail(ids)
    BY <1>6 DEF get_new_id
  <2>2. /\ recent' \in Seq(1 .. IdMax - 1) /\ Len(recent') = Len(ids) - 1
        /\ \A i \in 1 .. Len(ids) - 1 : recent'[i] = ids[i + 1]
    BY <1>2, <1>3, <2>1
  <2>3. \A i \in 1 .. Len(recent') :
          LET back == Len(recent') - i
          IN recent'[i] = IF s_lastId' > back THEN s_lastId' - back
                          ELSE s_lastId' - back + IdMax - 1
    <3> SUFFICES ASSUME NEW i \in 1 .. Len(recent')
                 PROVE  LET back == Len(recent') - i
                        IN recent'[i] = IF s_lastId' > back THEN s_lastId' - back
                                        ELSE s_lastId' - back + IdMax - 1
      OBVIOUS
    <3>1. i + 1 \in 1 .. Len(ids) /\ Len(ids) - (i + 1) # IdMax - 1
          /\ Len(ids) - (i + 1) = Len(recent') - i
      <4>1. Len(ids) \in Nat /\ Len(ids) = IdMax
        <5>1. Len(ids) = Len(recent) + 1 /\ ~(Len(ids) < IdMax)
          BY <1>3, <1>6
        <5> HIDE DEF ids
        <5> QED
          BY <1>0, <1>2, <5>1
      <4>2. i \in 1 .. IdMax - 1 /\ Len(recent') = IdMax - 1
        BY <2>2, <4>1
      <4> HIDE DEF ids
      <4> QED
        BY <1>0, <4>1, <4>2
    <3> HIDE DEF ids
    <3>2. recent'[i] = ids[i + 1]
      BY <1>2, <1>3, <2>2
    <3> QED
      BY <1>1, <1>4, <3>1, <3>2
  <2> QED
    BY <1>0, <1>1, <1>2, <1>3, <2>2, <2>3 DEF IdInv
<1> QED
  BY <1>5, <1>6

LEMMA IdsDiffer == IdInv => IdsApart
<1> SUFFICES ASSUME IdInv, NEW i \in DOMAIN recent, NEW j \in DOMAIN recent, recent[i] = recent[j]
             PROVE  i = j
  BY DEF IdsApart
<1>1. i \in 1 .. Len(recent) /\ j \in 1 .. Len(recent) /\ Len(recent) \in Nat
  BY DEF IdInv
<1>2. /\ recent[i] = IF s_lastId > Len(recent) - i THEN s_lastId - (Len(recent) - i)
                     ELSE s_lastId - (Len(recent) - i) + IdMax - 1
      /\ recent[j] = IF s_lastId > Len(recent) - j THEN s_lastId - (Len(recent) - j)
                     ELSE s_lastId - (Len(recent) - j) + IdMax - 1
  BY <1>1 DEF IdInv
<1>3. PICK m \in 0 .. IdMax - 2 : m = Len(recent) - i
  BY <1>1, Domains DEF IdInv
<1>4. PICK n \in 0 .. IdMax - 2 : n = Len(recent) - j
  BY <1>1, Domains DEF IdInv
<1>5. m = n
  <2>1. IdMax \in Nat /\ IdMax > 2 /\ s_lastId \in 0 .. IdMax - 1
    BY Domains DEF IdInv
  <2>2. /\ recent[i] = IF s_lastId > m THEN s_lastId - m ELSE s_lastId - m + IdMax - 1
        /\ recent[j] = IF s_lastId > n THEN s_lastId - n ELSE s_lastId - n + IdMax - 1
    BY <1>2, <1>3, <1>4
  <2>3. /\ s_lastId > m => recent[i] = s_lastId - m /\ recent[i] <= s_lastId
        /\ ~(s_lastId > m) =>
             recent[i] = s_lastId - m + IdMax - 1 /\ recent[i] > s_lastId
    BY <2>1, <2>2
  <2>4. /\ s_lastId > n => recent[j] = s_lastId - n /\ recent[j] <= s_lastId
        /\ ~(s_lastId > n) =>
             recent[j] = s_lastId - n + IdMax - 1 /\ recent[j] > s_lastId
    <3>1. CASE s_lastId > n
      <4>1. recent[j] = s_lastId - n
        BY <2>2, <3>1
      <4> QED
        BY <2>1, <3>1, <4>1
    <3>2. CASE ~(s_lastId > n)
      <4>1. recent[j] = s_lastId - n + IdMax - 1
        BY <2>2, <3>2
      <4> QED
        BY <2>1, <3>2, <4>1
    <3> QED
      BY <3>1, <3>2
  <2>5. s_lastId > m <=> s_lastId > n
    BY <2>1, <2>3, <2>4
  <2>6. CASE s_lastId > m
    BY <2>1, <2>3, <2>4, <2>5, <2>6
  <2>7. CASE ~(s_lastId > m)
    BY <2>1, <2>3, <2>4, <2>5, <2>7
  <2> QED
    BY <2>6, <2>7
<1> QED
  BY <1>1, <1>3, <1>4, <1>5

-----------------------------------------------------------------------------
(* The invariant.                                                          *)
IInv == Placed /\ MemoryInv /\ PageInv /\ IdInv

LEMMA InitIInv == Init => IInv
<1> SUFFICES ASSUME Init PROVE IInv
  OBVIOUS
<1>1. MemoryInv
  BY NoNull DEF Init, MemoryInv, BlocksApart, BlocksFound, BuffersApart, BuffersFound, Listed,
     Carries, Parked, PartsApart
<1>2. IdInv
  <2>1. recent \in Seq(1 .. IdMax - 1) /\ Len(recent) = 0
    BY DEF Init
  <2> QED
    BY <2>1, Domains DEF Init, IdInv
<1> QED
  BY <1>1, <1>2, InitPlaced DEF Init, IInv, PageInv

\* The history only grows, and a bad access has its reason in it.
LEMMA PagesKept ==
  ASSUME Placed, MemoryInv, PageInv,
         \/ \E t \in Thread : Receive(t) \/ Release(t)
         \/ \E b \in Buf : CloseConnection(b)
  PROVE  PageInv'
<1>1. ASSUME NEW blocks \in SUBSET Block, NEW dying, Put(blocks, dying),
             fault' => fault \/ reused \/ unmapped # {}
      PROVE  PageInv'
  BY <1>1, PutIs DEF Placed, PageInv
<1>2. ASSUME NEW b \in Block, NEW c, Get(b, c), UNCHANGED fault PROVE PageInv'
  BY <1>2 DEF Get, PageInv
<1>3. CASE UNCHANGED <<pageVars, fault>>
  BY <1>3 DEF PageInv, pageVars
<1>4. ASSUME NEW b \in Buf, CloseConnection(b) PROVE PageInv'
  <2>1. Owned(b) \subseteq Block /\ Put(Owned(b), Dying) /\ UNCHANGED fault
    BY <1>4, OwnedBlocks DEF CloseConnection, PutBuffer, Placed
  <2> QED
    BY <1>1, <2>1
<1>5. ASSUME NEW t \in Thread, Receive(t) PROVE PageInv'
  <2>1. ASSUME NEW b \in Block, GetPayload(t, b) \/ NewRcvMessage(t, b) PROVE PageInv'
    BY <1>2, <2>1 DEF GetPayload, NewRcvMessage
  <2>2. CASE RefreshBuffer(t)
    <3>1. Owned(buffer[t]) \subseteq Block
      BY <2>2, RefreshPlaced, OwnedBlocks DEF Placed, MemTypes
    <3> QED
      BY <1>1, <2>2, <3>1 DEF RefreshBuffer
  <2>3. ASSUME TakeBuffer(t) \/ HandleMessage(t) \/ Pause(t) \/ NestedRecvFails(t)
               \/ \E b \in Buf : GoOn(t, b)
        PROVE  UNCHANGED <<pageVars, fault>>
    BY <2>3 DEF TakeBuffer, HandleMessage, Pause, NestedRecvFails, GoOn
  <2> QED
    BY <1>3, <1>5, <2>1, <2>2, <2>3 DEF Receive
<1>6. ASSUME NEW t \in Thread, Release(t) PROVE PageInv'
  <2>1. CASE PutSendingBuffer(t)
    <3>1. Owned(buffer[t]) \subseteq Block
      BY <2>1, SentPlaced, OwnedBlocks DEF Placed, MemTypes
    <3> QED
      BY <1>1, <2>1, <3>1 DEF PutSendingBuffer, PutBuffer
  <2>2. CASE ReleaseMemory(t)
    BY <1>1, <2>2, ReleasedPlaced DEF ReleaseMemory
  <2>3. CASE ReleaseBuffer(t)
    <3>1. fault' => reused \/ unmapped # {}
      BY <2>3, ReleaseBufferMemory
    <3>2. CASE UNCHANGED pageVars
      BY <3>1, <3>2 DEF PageInv, pageVars
    <3>3. ASSUME NEW b \in Buf, PutBuffer(b) PROVE PageInv'
      BY <1>1, <3>1, <3>3, OwnedBlocks DEF PutBuffer, Placed
    <3> QED
      BY <2>3, <3>2, <3>3 DEF ReleaseBuffer
  <2>4. CASE ClearPointer(t)
    BY <2>4 DEF ClearPointer, PageInv
  <2> QED
    BY <1>6, <2>1, <2>2, <2>3, <2>4 DEF Release
<1> QED
  BY <1>4, <1>5, <1>6

LEMMA NextKeepsIInv == IInv /\ [Next]_vars => IInv'
<1> SUFFICES ASSUME IInv, [Next]_vars PROVE IInv'
  OBVIOUS
<1>0. Placed /\ MemoryInv /\ PageInv /\ IdInv
  BY DEF IInv
<1>1. ASSUME NEW t \in Thread, Receive(t) \/ Release(t)
      PROVE  Placed' /\ MemoryInv' /\ IdInv'
  <2>1. UNCHANGED idVars
    BY <1>1 DEF Receive, Release, GetPayload, NewRcvMessage, TakeBuffer, RefreshBuffer,
       HandleMessage, Pause, NestedRecvFails, GoOn, PutSendingBuffer, ReleaseMemory,
       ReleaseBuffer, ClearPointer
  <2>2. IdInv'
    BY <1>0, <2>1 DEF IdInv, idVars
  <2>3. Placed' /\ MemoryInv'
    BY <1>0, <1>1, PayloadPlaced, TakePlaced, RefreshPlaced, SentPlaced, ReceivedPlaced,
       HandledPlaced, ReleasedPlaced, ReleaseBufferPlaced, ClearedPlaced, PausedPlaced,
       GoesOnPlaced, PayloadMemory, TakeMemory, RefreshMemory, SentMemory, ReceivedMemory,
       HandledMemory, ReleasedMemory, ReleaseBufferMemory, ClearedMemory, PausedMemory,
       GoesOnMemory
       DEF Receive, Release
  <2> QED
    BY <2>2, <2>3
<1>2. ASSUME NEW b \in Buf, CloseConnection(b)
      PROVE  Placed' /\ MemoryInv' /\ IdInv'
  <2>1. IdInv'
    BY <1>0, <1>2 DEF CloseConnection, IdInv, idVars
  <2> QED
    BY <1>0, <1>2, <2>1, ClosedPlaced, ClosedMemory
<1>3. CASE get_new_id \/ UNCHANGED vars
  <2>1. UNCHANGED <<thrVars, free, m_pBuffer, made, mem, s_freeBuffers, connVars, kept, pageVars,
                    fault>>
    BY <1>3 DEF get_new_id, vars
  <2>2. Placed'
    BY <1>0, <2>1 DEF Placed, ThrTypes, MemTypes, PlaceInv, thrVars, connVars, pageVars
  <2>3. MemoryInv'
    <3>1. /\ \A t \in Thread : Carries(t)' <=> Carries(t)
          /\ Parked' = Parked /\ (PartsApart => PartsApart')
      BY <2>1 DEF Carries, thrVars, Parked, PartsApart, connVars
    <3>2. ASSUME BlocksApart, BlocksFound PROVE BlocksApart' /\ BlocksFound'
      BY <2>1, <3>2, BlocksStay DEF thrVars
    <3>3. ASSUME BuffersApart, BuffersFound PROVE BuffersApart' /\ BuffersFound'
      <4>1. PartsApart
        BY <3>3 DEF BuffersApart
      <4> QED
        BY <2>1, <3>1, <3>3, <4>1, BuffersStay DEF thrVars
    <3> QED
      BY <1>0, <2>1, <3>2, <3>3 DEF MemoryInv, pageVars
  <2>4. IdInv'
    BY <1>0, <1>3, NewId DEF IdInv, vars, idVars
  <2>5. PageInv'
    BY <1>0, <2>1 DEF PageInv, pageVars
  <2> QED
    BY <2>2, <2>3, <2>4, <2>5 DEF IInv
<1>4. ASSUME \/ \E t \in Thread : Receive(t) \/ Release(t)
             \/ \E b \in Buf : CloseConnection(b)
      PROVE  IInv'
  BY <1>0, <1>1, <1>2, <1>4, PagesKept DEF IInv
<1> QED
  BY <1>3, <1>4 DEF Next

LEMMA IInvAlways == Spec => []IInv
BY InitIInv, NextKeepsIInv, PTL DEF Spec

-----------------------------------------------------------------------------
(* What the invariant says of the places of Buffers and of blocks.         *)
LEMMA OnePlace ==
  ASSUME Placed, BuffersApart, BuffersFound, NEW b \in made
  PROVE  Cardinality(Places(b)) = 1
<1> DEFINE inList == {j \in DOMAIN s_freeBuffers : s_freeBuffers[j] = b}
           ofThread == {u \in Thread : buffer[u] = b}
           inMessage == {u \in Thread : Carries(u) /\ m_pBuffer[rm[u]] = b}
           ofUser == {k \in kept : m_pBuffer[k] = b}
           parked == {<<"begun", c>> : c \in {b} \cap begun}
                     \cup {<<"blank", c>> : c \in {b} \cap blank}
                     \cup {<<"lost", c>> : c \in {b} \cap lost}
<1>1. Places(b) = {<<"list", i>> : i \in inList} \cup {<<"thread", t>> : t \in ofThread}
                  \cup {<<"message", t>> : t \in inMessage} \cup {<<"user", m>> : m \in ofUser}
                  \cup parked
  <2> HIDE DEF inList, ofThread, ofUser
  <2>1. inMessage = {u \in Thread : pc[u] \in {"message", "released"} /\ m_pBuffer[rm[u]] = b}
    BY DEF Carries
  <2> HIDE DEF inMessage
  <2> QED
    BY <2>1, Zenon DEF Places, inList, ofThread, ofUser
<1>2. b \in Buf /\ b # None
  BY NoNull DEF Placed, MemTypes
<1>2a. b \notin Parked => parked = {}
  BY DEF Parked
<1>3. CASE b \in Listed
  <2>1. PICK i \in DOMAIN s_freeBuffers : s_freeBuffers[i] = b
    BY <1>3 DEF Listed
  <2>2. inList = {i}
    BY <2>1 DEF BuffersApart
  <2>3. ofThread = {} /\ inMessage = {} /\ ofUser = {} /\ parked = {}
    BY <1>2, <1>3, <1>2a DEF BuffersApart
  <2> HIDE DEF inList, ofThread, inMessage, ofUser, parked
  <2>4. Places(b) = {<<"list", i>>}
    BY <1>1, <2>2, <2>3
  <2> QED
    BY <2>4, FS_Singleton
<1>4. CASE \E t \in Thread : buffer[t] = b
  <2>1. PICK t \in Thread : buffer[t] = b
    BY <1>4
  <2>2. ofThread = {t}
    BY <1>2, <2>1 DEF BuffersApart
  <2>3. inList = {} /\ inMessage = {} /\ ofUser = {} /\ parked = {}
    BY <1>2, <1>2a, <2>1 DEF BuffersApart, Listed
  <2> HIDE DEF inList, ofThread, inMessage, ofUser, parked
  <2>4. Places(b) = {<<"thread", t>>}
    BY <1>1, <2>2, <2>3
  <2> QED
    BY <2>4, FS_Singleton
<1>5. CASE \E t \in Thread : Carries(t) /\ m_pBuffer[rm[t]] = b
  <2>1. PICK t \in Thread : Carries(t) /\ m_pBuffer[rm[t]] = b
    BY <1>5
  <2>2. inMessage = {t}
    BY <2>1 DEF BuffersApart
  <2>3. inList = {} /\ ofThread = {} /\ ofUser = {} /\ parked = {}
    BY <1>2, <1>2a, <2>1 DEF BuffersApart, Listed
  <2> HIDE DEF inList, ofThread, inMessage, ofUser, parked
  <2>4. Places(b) = {<<"message", t>>}
    BY <1>1, <2>2, <2>3
  <2> QED
    BY <2>4, FS_Singleton
<1>6. CASE \E k \in kept : m_pBuffer[k] = b
  <2>1. PICK k \in kept : m_pBuffer[k] = b
    BY <1>6
  <2>2. ofUser = {k}
    BY <2>1 DEF BuffersApart
  <2>3. inList = {} /\ ofThread = {} /\ inMessage = {} /\ parked = {}
    BY <1>2, <1>2a, <2>1 DEF BuffersApart, Listed
  <2> HIDE DEF inList, ofThread, inMessage, ofUser, parked
  <2>4. Places(b) = {<<"user", k>>}
    BY <1>1, <2>2, <2>3
  <2> QED
    BY <2>4, FS_Singleton
<1>7. CASE b \in Parked
  <2>1. inList = {} /\ ofThread = {} /\ inMessage = {} /\ ofUser = {}
    BY <1>7 DEF BuffersApart, Listed
  <2>2. parked \in {{<<"begun", b>>}, {<<"blank", b>>}, {<<"lost", b>>}}
    <3>1. CASE b \in begun
      <4>1. b \notin blank /\ b \notin lost
        BY <3>1 DEF BuffersApart, PartsApart
      <4> QED
        BY <3>1, <4>1
    <3>2. CASE b \in blank
      <4>1. b \notin begun /\ b \notin lost
        BY <3>2 DEF BuffersApart, PartsApart
      <4> QED
        BY <3>2, <4>1
    <3>3. CASE b \in lost
      <4>1. b \notin begun /\ b \notin blank
        BY <3>3 DEF BuffersApart, PartsApart
      <4> QED
        BY <3>3, <4>1
    <3> QED
      BY <1>7, <3>1, <3>2, <3>3 DEF Parked
  <2> HIDE DEF inList, ofThread, inMessage, ofUser, parked
  <2>3. Places(b) = parked
    BY <1>1, <2>1
  <2> QED
    BY <2>2, <2>3, FS_Singleton
<1> QED
  BY <1>3, <1>4, <1>5, <1>6, <1>7 DEF BuffersFound

LEMMA OneUse ==
  ASSUME Placed, BlocksApart, BlocksFound, NEW b \in Block
  PROVE  Cardinality(Uses(b)) = 1
<1> DEFINE inPool == IF b \in free THEN {<<"free", b>>} ELSE {}
           payloads == {u \in Thread : mpo[u] = b}
           buffers == {d \in Buf : mem[d] = b}
           messages == {u \in Thread : pc[u] = "message" /\ rm[u] = b}
           ofUser == IF b \in kept THEN {<<"user", b>>} ELSE {}
<1>1. Uses(b) = inPool \cup {<<"payload", t>> : t \in payloads}
                \cup {<<"buffer", c>> : c \in buffers}
                \cup {<<"message", t>> : t \in messages} \cup ofUser
  BY Zenon DEF Uses
<1>2. b # None
  BY NoNull
<1>3. CASE b \in free
  <2>1. payloads = {} /\ buffers = {} /\ messages = {} /\ ofUser = {}
    BY <1>2, <1>3 DEF BlocksApart
  <2>2. inPool = {<<"free", b>>}
    BY <1>3
  <2> HIDE DEF inPool, payloads, buffers, messages, ofUser
  <2>3. Uses(b) = {<<"free", b>>}
    BY <1>1, <2>1, <2>2
  <2> QED
    BY <2>3, FS_Singleton
<1>4. CASE b \in kept
  <2>1. payloads = {} /\ buffers = {} /\ messages = {} /\ inPool = {}
    BY <1>2, <1>4 DEF BlocksApart
  <2>2. ofUser = {<<"user", b>>}
    BY <1>4
  <2> HIDE DEF inPool, payloads, buffers, messages, ofUser
  <2>3. Uses(b) = {<<"user", b>>}
    BY <1>1, <2>1, <2>2
  <2> QED
    BY <2>3, FS_Singleton
<1>5. CASE \E t \in Thread : mpo[t] = b
  <2>1. PICK t \in Thread : mpo[t] = b
    BY <1>5
  <2>2. payloads = {t} /\ b \notin free /\ b \notin kept
    BY <1>2, <2>1 DEF BlocksApart
  <2>3. buffers = {} /\ messages = {} /\ inPool = {} /\ ofUser = {}
    BY <1>2, <2>1, <2>2 DEF BlocksApart
  <2> HIDE DEF inPool, payloads, buffers, messages, ofUser
  <2>4. Uses(b) = {<<"payload", t>>}
    BY <1>1, <2>2, <2>3
  <2> QED
    BY <2>4, FS_Singleton
<1>6. CASE \E d \in Buf : mem[d] = b
  <2>1. PICK d \in Buf : mem[d] = b
    BY <1>6
  <2>2. buffers = {d} /\ b \notin free /\ b \notin kept
    BY <1>2, <2>1 DEF BlocksApart
  <2>3. payloads = {} /\ messages = {} /\ inPool = {} /\ ofUser = {}
    BY <1>2, <2>1, <2>2 DEF BlocksApart
  <2> HIDE DEF inPool, payloads, buffers, messages, ofUser
  <2>4. Uses(b) = {<<"buffer", d>>}
    BY <1>1, <2>2, <2>3
  <2> QED
    BY <2>4, FS_Singleton
<1>7. CASE \E t \in Thread : pc[t] = "message" /\ rm[t] = b
  <2>1. PICK t \in Thread : pc[t] = "message" /\ rm[t] = b
    BY <1>7
  <2>2. messages = {t} /\ b \notin free /\ b \notin kept
    BY <1>2, <2>1 DEF BlocksApart
  <2>3. payloads = {} /\ buffers = {} /\ inPool = {} /\ ofUser = {}
    BY <1>2, <2>1, <2>2 DEF BlocksApart
  <2> HIDE DEF inPool, payloads, buffers, messages, ofUser
  <2>4. Uses(b) = {<<"message", t>>}
    BY <1>1, <2>2, <2>3
  <2> QED
    BY <2>4, FS_Singleton
<1> QED
  BY <1>3, <1>4, <1>5, <1>6, <1>7 DEF BlocksFound

-----------------------------------------------------------------------------
(* Each Buffer object is in one place, and out of reach only when a payload was started    *)
(* twice or a Recv failed within another, unless a block that ~Message had given back was  *)
(* given out while the destructor still used it; and a destructor meets memory that is not *)
(* its own only after that, or after the pool gave its page back.  PutBuffer, GetNewBuffer *)
(* and Refresh, by any number of threads.                                                  *)
THEOREM EveryBufferHasOnePlace == Spec => []MessagesInv
<1>1. IInv => MessagesInv
  <2> SUFFICES ASSUME IInv PROVE MessagesInv
    OBVIOUS
  <2>1. MessagesTypeOK
    BY DEF IInv, Placed, ThrTypes, MemTypes, IdInv, MessagesTypeOK
  <2>2. OneOwner
    BY OnePlace DEF IInv, MemoryInv, OneOwner
  <2>3. CrashesOnlyAfterPut
    BY DEF IInv, PageInv, CrashesOnlyAfterPut
  <2> QED
    BY <2>1, <2>2, <2>3 DEF MessagesInv
<1> QED
  BY <1>1, IInvAlways, PTL

\* Every block of the pool has one use: what Get gives out comes back by one Put, and only
\* the blocks of messages that the user keeps and of lost Buffers stay out.
THEOREM EveryBlockHasOneUse == Spec => []MemoryAccounted
<1>1. IInv => MemoryAccounted
  BY OneUse DEF IInv, MemoryInv, MemoryAccounted
<1> QED
  BY <1>1, IInvAlways, PTL

\* The last IdMax - 1 ids of get_new_id differ, for any IdMax: also across the restart of
\* the counter, which jumps over 0.
THEOREM IdsStayApart == Spec => []IdsApart
<1>1. IInv => IdsApart
  BY IdsDiffer DEF IInv
<1> QED
  BY <1>1, IInvAlways, PTL

-----------------------------------------------------------------------------
(***************************************************************************)
(* The pool.  The lists of all slots, fixed and bulk, are read as one      *)
(* table, Lists.  The inductive invariant says of the lists, the heap and  *)
(* the objects in use that they do not overlap (Apart), of each list that  *)
(* its count is exact and that it has no page to release (Kept), of the    *)
(* tables which pages they name (PagesInv), and of the tree of bulk slots  *)
(* what is true until a larger slot was emptied (TreeInv).  Each call is   *)
(* one lemma.                                                              *)
(***************************************************************************)

Pages == 1 .. MaxPages
Bulks == {Bulk(n) : n \in 1 .. Wrap - 1}
AllSlots == Slots \cup Bulks

(* A free list of objects 1 .. n: no page of it is without one. *)
IsList(objs, n) ==
  /\ DOMAIN objs \subseteq Pages
  /\ \A p \in DOMAIN objs : objs[p] # {} /\ objs[p] \subseteq 1 .. n

(* The free list of any slot. *)
ListOf(slot) ==
  IF slot \in Slots THEN slots[slot].objs
  ELSE IF slot[2] \in DOMAIN hash THEN hash[slot[2]].objs ELSE Empty
Lists == [s \in AllSlots |-> ListOf(s)]

(* Free lists F, pages H and objects in use U that do not overlap. *)
ListOfSlot(F, H, s) ==
  IsList(F[s], PageObjs(s)) /\ \A p \in DOMAIN F[s] : p \in DOMAIN H /\ H[p] = s
ObjectInUse(F, H, h) ==
  /\ h.slot \in AllSlots /\ h.page \in DOMAIN H /\ H[h.page] = h.slot
  /\ h.obj \in 1 .. PageObjs(h.slot) /\ h.size <= h.slot[2]
  /\ <<h.page, h.obj>> \notin FreeIn(F[h.slot])
UsedOnce(U) == \A g, h \in U : g.page = h.page /\ g.obj = h.obj => g = h
Apart(F, H, U) ==
  /\ DOMAIN H \subseteq Pages
  /\ \A s \in AllSlots : ListOfSlot(F, H, s)
  /\ \A h \in U : ObjectInUse(F, H, h)
  /\ UsedOnce(U)

(* A list whose count is exact and that has no page to release. *)
Kept(r, s) ==
  /\ r.cnt \in Nat /\ r.cnt = CountOf(r.objs)
  /\ r.cnt >= Limit(s) /\ s # Bulk(ReserveMax) =>
       \A p \in DOMAIN r.objs : Cardinality(r.objs[p]) < PageObjs(s)

\* The tables have entries for slots there are; only slots that are kept have free lists.
TablesInv ==
  /\ requests \in SizeSets
  /\ DOMAIN slots = Slots
  /\ DOMAIN hash \subseteq 1 .. Wrap - 1 /\ \A n \in DOMAIN hash : n <= ReserveMax
  /\ DOMAIN bulkPages \subseteq 1 .. Wrap - 1
  /\ tree \subseteq 1 .. Wrap - 1
  /\ emptied \in BOOLEAN /\ crashed \in BOOLEAN /\ destroyed \in BOOLEAN

\* What Kept says, of every list.
KeptInv ==
  /\ \A s \in Slots : Kept(slots[s], s)
  /\ \A n \in DOMAIN hash : Kept(hash[n], Bulk(n))

\* Until a larger slot gave its last object, the tree has the slots with free objects.
TreeInv == ~emptied => tree = DOMAIN hash /\ \A n \in DOMAIN hash : hash[n].cnt > 0

\* Every page was allocated for a slot, and the slot's page set has it; a bulk slot's may
\* have forgotten it.
PagesInv ==
  /\ \A p \in DOMAIN heap : heap[p] \in AllSlots
  /\ \A s \in Slots : slots[s].pages = {p \in DOMAIN heap : heap[p] = s}
  /\ \A n \in 1 .. Wrap - 1 : PagesOf(n) = {p \in DOMAIN heap : heap[p] = Bulk(n)} \ forgotten
  /\ forgotten \subseteq {p \in DOMAIN heap : heap[p] \in Bulks}

\* The invariant of a pool that lives.
InUse == Apart(Lists, heap, held)
Working == TablesInv /\ KeptInv /\ TreeInv /\ InUse /\ PagesInv

PoolIInv ==
  /\ MemPoolInv
  /\ CrashesOnlyAfterLoss
  /\ ~destroyed => Working

(* Division of numbers: the provers take these facts one at a time.        *)
LEMMA DivMod ==
  ASSUME NEW a \in Nat, NEW b \in Nat \ {0}
  PROVE  /\ a \div b \in Nat /\ a % b \in Nat /\ a % b < b
         /\ a = (a \div b) * b + (a % b)
  <1>1. a \div b \in Nat /\ a % b \in Nat /\ a % b < b
    BY SMT
  <1>2. a = (a \div b) * b + (a % b)
    BY SMT
  <1> QED
    BY <1>1, <1>2

(* Multiplication keeps the order.                                         *)
LEMMA MulMono ==
  ASSUME NEW a \in Nat, NEW b \in Nat, NEW c \in Nat
  PROVE  /\ a * c \in Nat
         /\ a <= b => a * c <= b * c
         /\ a * c < b * c => a < b
         /\ c # 0 => a <= a * c
  <1>1. a * c \in Nat /\ (a <= b => a * c <= b * c)
    BY SMT
  <1>2. a * c < b * c => a < b
    BY SMT
  <1>3. c # 0 => a <= a * c
    BY SMT
  <1> QED
    BY <1>1, <1>2, <1>3

NextMultiple(in, step, m) ==
  in <= Roundup(in, step) /\ \E i \in 0 .. m : Roundup(in, step) = i * step

(* roundup gives the next multiple, when no greater multiple than m of the *)
(* step is needed and that one is below Wrap.                              *)
LEMMA RoundupIsNext ==
  ASSUME NEW in \in Nat, NEW step \in Nat \ {0}, NEW m \in Nat,
         in <= m * step, m * step < Wrap, Wrap \in Nat
  PROVE  NextMultiple(in, step, m)
  <1> DEFINE q == in \div step
  <1>1. /\ q \in Nat /\ in % step \in Nat
        /\ in = q * step + (in % step)
        /\ in % step < step
    BY DivMod
  <1>2. q * step \in Nat /\ (q + 1) * step = q * step + step /\ m * step \in Nat
    BY <1>1
  <1>3. CASE in % step = 0
    <2>1. Roundup(in, step) = in /\ in = q * step
      BY <1>1, <1>3 DEF Roundup
    <2>2. q <= m
      <3>1. q * step < (m + 1) * step
        <4>1. (m + 1) * step = m * step + step
          BY SMT
        <4> QED
          BY <2>1, <4>1, <1>2
      <3>2. q < m + 1
        <4> HIDE DEF q
        <4> QED
          BY <3>1, <1>1, MulMono
      <3> QED
        BY <3>2, <1>1
    <2> QED
      BY <2>1, <2>2, <1>1 DEF NextMultiple
  <1>4. CASE in % step # 0
    <2>1. Roundup(in, step) = ((q + 1) * step) % Wrap
      BY <1>4 DEF Roundup
    <2>2. q < m
      <3>1. q * step < m * step
        BY <1>1, <1>2, <1>4
      <3> HIDE DEF q
      <3> QED
        BY <3>1, <1>1, MulMono
    <2>3. (q + 1) * step <= m * step
      <3> HIDE DEF q
      <3>1. q + 1 \in Nat /\ q + 1 <= m
        BY <2>2, <1>1
      <3> QED
        BY <3>1, MulMono
    <2>4. ((q + 1) * step) % Wrap = (q + 1) * step
      <3> DEFINE v == (q + 1) * step
      <3>1. v \in Nat /\ v < Wrap
        BY <2>3, <1>2
      <3> HIDE DEF v
      <3>2. v % Wrap = v
        BY <3>1
      <3> QED
        BY <3>2 DEF v
    <2>5. in <= (q + 1) * step /\ q + 1 \in 0 .. m
      BY <1>1, <1>2, <2>2
    <2> QED
      BY <2>1, <2>4, <2>5 DEF NextMultiple
  <1> QED
    BY <1>3, <1>4

(* A page of an expanded size holds at least one object.                   *)
LEMMA ExpandIsLarger ==
  ASSUME NEW o \in Nat \ {0}, NEW f \in Nat \ {0}, PageSize \in Nat \ {0}
  PROVE  ExpandSize(o, f) \in Nat /\ o <= ExpandSize(o, f)
  <1> DEFINE a == o * f
             k == a \div PageSize + (IF a % PageSize # 0 THEN 1 ELSE 0)
  <1>1. a \in Nat /\ o <= a
    BY MulMono
  <1> HIDE DEF a
  <1>2. /\ a \div PageSize \in Nat /\ a % PageSize \in Nat
        /\ a = (a \div PageSize) * PageSize + (a % PageSize)
        /\ a % PageSize < PageSize
    BY <1>1, DivMod
  <1>3. k * PageSize \in Nat /\ a <= k * PageSize
    <2>1. CASE a % PageSize = 0
      BY <1>2, <2>1, <1>1
    <2>2. CASE a % PageSize # 0
      <3>1. k = a \div PageSize + 1
        BY <2>2
      <3>2. (a \div PageSize + 1) * PageSize = (a \div PageSize) * PageSize + PageSize
        BY <1>2, SMT
      <3>3. (a \div PageSize) * PageSize \in Nat
        BY <1>2, SMT
      <3> HIDE DEF k
      <3> QED
        BY <1>2, <1>1, <3>1, <3>2, <3>3
    <2> QED
      BY <2>1, <2>2
  <1>4. ExpandSize(o, f) = k * PageSize
    BY DEF ExpandSize, a
  <1> QED
    BY <1>1, <1>3, <1>4

(* The sizes and factors are positive numbers.                             *)
LEMMA PoolConstants ==
  /\ PageSize \in Nat \ {0} /\ Footstep \in Nat \ {0} /\ TinyThreshold \in Nat \ {0}
  /\ BigThreshold \in Nat \ {0} /\ BulkThreshold \in Nat \ {0} /\ ReserveMax \in Nat \ {0}
  /\ ExpandFactor \in Nat \ {0} /\ ExpandBulkFactor \in Nat \ {0} /\ Wrap \in Nat \ {0}
  BY MemPoolAssumption, Zenon

(* No fixed slot is a bulk slot, and a bulk slot is named by its size.     *)
LEMMA SlotNames ==
  /\ \A s \in Slots : s[1] \in {"Tiny", "Small", "Big"} /\ s \notin Bulks
  /\ \A n : Bulk(n)[1] = "Bulk" /\ Bulk(n)[2] = n
  /\ \A s \in Bulks : s[1] = "Bulk" /\ s = Bulk(s[2]) /\ s[2] \in 1 .. Wrap - 1
  /\ \A n \in 1 .. Wrap - 1 : Bulk(n) \in AllSlots /\ Bulk(n) \notin Slots
  <1>1. \A s \in Slots : s[1] \in {"Tiny", "Small", "Big"}
    BY SMT DEF Slots
  <1>2. \A n : Bulk(n)[1] = "Bulk" /\ Bulk(n)[2] = n
    BY SMT DEF Bulk
  <1>3. \A s \in Bulks : \E n \in 1 .. Wrap - 1 : s = Bulk(n)
    BY Zenon DEF Bulks
  <1>4. \A n \in 1 .. Wrap - 1 : Bulk(n) \in Bulks
    BY Zenon DEF Bulks
  <1>5. "Bulk" \notin {"Tiny", "Small", "Big"}
    BY SMT
  <1>6. \A s \in Bulks : s[1] = "Bulk" /\ s = Bulk(s[2]) /\ s[2] \in 1 .. Wrap - 1
    BY <1>2, <1>3, Zenon
  <1>7. \A s \in Slots : s \notin Bulks
    BY <1>1, <1>5, <1>6, Zenon
  <1> QED
    BY <1>1, <1>2, <1>4, <1>6, <1>7, Zenon DEF AllSlots

(* The three ways a slot is named.                                         *)
LEMMA SlotTypes ==
  ASSUME NEW s \in AllSlots
  PROVE  \/ s[1] = "Tiny" /\ s[2] = TinyThreshold
         \/ s[1] \in {"Small", "Big"} /\ s[2] \in Nat \ {0}
         \/ s[1] = "Bulk" /\ s[2] \in 1 .. Wrap - 1 /\ s \in Bulks
  <1>1. CASE s \in Bulks
    BY <1>1, SlotNames, Zenon
  <1>2. CASE s = <<"Tiny", TinyThreshold>>
    BY <1>2, SMT
  <1>3. ASSUME NEW i \in 1 .. BigThreshold \div Footstep, s = <<"Small", i * Footstep>>
        PROVE  s[1] \in {"Small", "Big"} /\ s[2] \in Nat \ {0}
    <2>1. i * Footstep \in Nat \ {0}
      BY PoolConstants, MulMono, SMT
    <2>2. s[1] = "Small" /\ s[2] = i * Footstep
      BY <1>3, SMT
    <2> QED
      BY <2>1, <2>2, Zenon
  <1>4. ASSUME NEW i \in 1 .. BulkThreshold \div PageSize, s = <<"Big", i * PageSize>>
        PROVE  s[1] \in {"Small", "Big"} /\ s[2] \in Nat \ {0}
    <2>1. i * PageSize \in Nat \ {0}
      BY PoolConstants, MulMono, SMT
    <2>2. s[1] = "Big" /\ s[2] = i * PageSize
      BY <1>4, SMT
    <2> QED
      BY <2>1, <2>2, Zenon
  <1> QED
    BY <1>1, <1>2, <1>3, <1>4, Zenon DEF AllSlots, Slots

(* How many objects of size b a page of a bytes has.                       *)
LEMMA DivIsCount ==
  ASSUME NEW a \in Nat, NEW b \in Nat \ {0}, b <= a
  PROVE  a \div b \in Nat \ {0} /\ (a \div b) * b <= a
  <1>1. a \div b \in Nat /\ (a \div b) * b <= a
    BY SMT
  <1>2. a \div b # 0
    BY SMT
  <1> QED
    BY <1>1, <1>2

(* The counts of a page: put never takes fewer objects for a page than it  *)
(* has, and the right number but at and above the largest size kept.       *)
LEMMA PageCounts ==
  ASSUME NEW s \in AllSlots
  PROVE  /\ s[2] \in Nat \ {0}
         /\ PageObjs(s) \in Nat \ {0}
         /\ PageObjs(s) * s[2] <= SlotPageSize(s)
         /\ OnePageObjs(s) \in Nat \ {0}
         /\ PageObjs(s) <= OnePageObjs(s)
         /\ s[1] = "Bulk" /\ ReserveMax <= s[2] => PageObjs(s) = 1
         /\ s[1] # "Bulk" \/ s[2] < ReserveMax => OnePageObjs(s) = PageObjs(s)
         /\ Limit(s) \in Nat /\ OnePageObjs(s) <= Limit(s)
  <1>1. ASSUME NEW page \in Nat, NEW size \in Nat \ {0}, size <= page,
               s[2] = size, SlotPageSize(s) = page
        PROVE  /\ s[2] \in Nat \ {0} /\ PageObjs(s) \in Nat \ {0}
               /\ PageObjs(s) * s[2] <= SlotPageSize(s)
    BY <1>1, DivIsCount DEF PageObjs
  <1>2. ASSUME s[1] \in {"Tiny", "Small", "Big", "Bulk"}, OnePageObjs(s) \in Nat
        PROVE  Limit(s) \in Nat /\ OnePageObjs(s) <= Limit(s)
    <2>1. Resident[s[1]] \in Nat
      BY <1>2, MemPoolAssumption
    <2> QED
      BY <2>1, <1>2 DEF Limit
  <1>3. CASE s[1] = "Tiny" /\ s[2] = TinyThreshold
    <2>1. SlotPageSize(s) = PageSize /\ TinyThreshold <= PageSize
      BY <1>3, MemPoolAssumption DEF SlotPageSize
    <2>2. s[1] # "Bulk" /\ OnePageObjs(s) = PageObjs(s)
      BY <1>3 DEF OnePageObjs
    <2>3. /\ s[2] \in Nat \ {0} /\ PageObjs(s) \in Nat \ {0}
          /\ PageObjs(s) * s[2] <= SlotPageSize(s)
      BY <2>1, <1>3, <1>1, PoolConstants
    <2> QED
      BY <1>2, <2>2, <2>3, <1>3
  <1>4. CASE s[1] \in {"Small", "Big"} /\ s[2] \in Nat \ {0}
    <2>1. SlotPageSize(s) = ExpandSize(s[2], ExpandFactor)
      BY <1>4 DEF SlotPageSize
    <2>2. s[1] # "Bulk" /\ OnePageObjs(s) = PageObjs(s)
      BY <1>4 DEF OnePageObjs
    <2>3. /\ s[2] \in Nat \ {0} /\ PageObjs(s) \in Nat \ {0}
          /\ PageObjs(s) * s[2] <= SlotPageSize(s)
      BY <2>1, <1>4, <1>1, PoolConstants, ExpandIsLarger
    <2> QED
      BY <1>2, <2>2, <2>3, <1>4
  <1>5. CASE s[1] = "Bulk" /\ s[2] \in 1 .. Wrap - 1
    <2> DEFINE expanded == ExpandSize(s[2], ExpandBulkFactor)
    <2>1. s[2] \in Nat \ {0} /\ expanded \in Nat /\ s[2] <= expanded
      <3>1. s[2] \in Nat \ {0}
        BY <1>5, PoolConstants
      <3> QED
        BY <3>1, PoolConstants, ExpandIsLarger
    <2>2. /\ SlotPageSize(s) = IF s[2] < ReserveMax THEN expanded ELSE s[2]
          /\ OnePageObjs(s) = expanded \div s[2]
      BY <1>5 DEF SlotPageSize, OnePageObjs
    <2> HIDE DEF expanded
    <2>3. OnePageObjs(s) \in Nat \ {0}
      BY <2>1, <2>2, DivIsCount
    <2>4. CASE s[2] < ReserveMax
      <3>1. SlotPageSize(s) = expanded /\ OnePageObjs(s) = PageObjs(s)
        BY <2>2, <2>4 DEF PageObjs
      <3>2. /\ PageObjs(s) \in Nat \ {0} /\ PageObjs(s) * s[2] <= SlotPageSize(s)
        BY <3>1, <2>1, <1>1
      <3> QED
        BY <1>2, <1>5, <2>1, <2>3, <2>4, <3>1, <3>2, PoolConstants
    <2>5. CASE ~(s[2] < ReserveMax)
      <3>1. SlotPageSize(s) = s[2]
        BY <2>2, <2>5
      <3>2. PageObjs(s) = 1
        <4>1. \A x \in Nat \ {0} : x \div x = 1
          BY SMT
        <4> QED
          BY <3>1, <4>1, <2>1 DEF PageObjs
      <3> QED
        BY <1>2, <1>5, <2>1, <2>3, <2>5, <3>1, <3>2, PoolConstants
    <2> QED
      BY <2>4, <2>5
  <1> QED
    BY <1>3, <1>4, <1>5, SlotTypes

(* Some takes an element of a set that has one.                            *)
LEMMA SomeIsIn == ASSUME NEW S, S # {} PROVE Some(S) \in S
  BY Zenon DEF Some

(* A map with one entry less.                                              *)
LEMMA WithoutIs ==
  ASSUME NEW f, NEW k
  PROVE  /\ DOMAIN Without(f, k) = DOMAIN f \ {k}
         /\ \A x \in DOMAIN f : x # k => Without(f, k)[x] = f[x]
  BY Zenon DEF Without

(* The map without an entry.                                               *)
LEMMA EmptyIs == DOMAIN Empty = {}
  BY Zenon DEF Empty

(* The free objects of a list are those its pages list.                    *)
LEMMA FreeInElements ==
  ASSUME NEW objs
  PROVE  /\ \A p, o : <<p, o>> \in FreeIn(objs) <=> (p \in DOMAIN objs /\ o \in objs[p])
         /\ \A x \in FreeIn(objs) : \E p \in DOMAIN objs : \E o \in objs[p] : x = <<p, o>>
  <1>1. \A x : x \in FreeIn(objs) <=> \E p \in DOMAIN objs : \E o \in objs[p] : x = <<p, o>>
    <2> SUFFICES ASSUME NEW x
                 PROVE  x \in FreeIn(objs)
                          <=> \E p \in DOMAIN objs : \E o \in objs[p] : x = <<p, o>>
      BY Zenon
    <2>1. x \in FreeIn(objs) <=> \E p \in DOMAIN objs : x \in {<<p, o>> : o \in objs[p]}
      BY SMT DEF FreeIn
    <2>2. \A p : x \in {<<p, o>> : o \in objs[p]} <=> \E o \in objs[p] : x = <<p, o>>
      BY Zenon
    <2> QED
      BY <2>1, <2>2, Zenon
  <1>2. ASSUME NEW p, NEW o
        PROVE  <<p, o>> \in FreeIn(objs) <=> (p \in DOMAIN objs /\ o \in objs[p])
    <2>1. ASSUME NEW q, NEW r, <<p, o>> = <<q, r>> PROVE p = q /\ o = r
      BY <2>1, SMT
    <2> QED
      BY <1>1, <2>1, Zenon
  <1> QED
    BY <1>1, <1>2, Zenon

(* A free object is on one page of its list.                               *)
LEMMA FreeInPick ==
  ASSUME NEW objs, NEW x \in FreeIn(objs)
  PROVE  \E p \in DOMAIN objs : \E o \in objs[p] : x = <<p, o>>
  BY FreeInElements, Zenon

(* A list has finitely many free objects.                                  *)
LEMMA FreeInFinite ==
  ASSUME NEW n \in Nat, NEW objs, IsList(objs, n)
  PROVE  IsFiniteSet(FreeIn(objs)) /\ CountOf(objs) \in Nat
  <1>1. IsFiniteSet(Pages) /\ IsFiniteSet(1 .. n)
    BY FS_Interval, MemPoolAssumption DEF Pages
  <1>2. IsFiniteSet(Pages \X (1 .. n))
    BY <1>1, FS_Product, Zenon
  <1>3. FreeIn(objs) \subseteq Pages \X (1 .. n)
    <2> SUFFICES ASSUME NEW x \in FreeIn(objs) PROVE x \in Pages \X (1 .. n)
      BY Zenon
    <2>1. PICK p \in DOMAIN objs : \E o \in objs[p] : x = <<p, o>>
      BY FreeInElements, Zenon
    <2>2. PICK o \in objs[p] : x = <<p, o>>
      BY <2>1, Zenon
    <2>3. p \in Pages /\ o \in 1 .. n
      BY Zenon DEF IsList
    <2> QED
      BY <2>2, <2>3, SMT
  <1>4. IsFiniteSet(FreeIn(objs))
    BY <1>2, <1>3, FS_Subset, Zenon
  <1> QED
    BY <1>4, FS_CardinalityType, Zenon DEF CountOf

(* The objects of one page are as many as its list. *)
LEMMA OnePageCount ==
  ASSUME NEW p, NEW S, IsFiniteSet(S)
  PROVE  /\ IsFiniteSet({<<p, o>> : o \in S})
         /\ Cardinality({<<p, o>> : o \in S}) = Cardinality(S)
  <1> DEFINE T == {<<p, o>> : o \in S}
             f == [o \in S |-> <<p, o>>]
  <1>1. f \in [S -> T]
    BY Zenon
  <1>2. ASSUME NEW a \in S, NEW b \in S, f[a] = f[b] PROVE a = b
    BY <1>2, SMT
  <1>3. \A t \in T : \E s \in S : f[s] = t
    BY Zenon
  <1>4. f \in Bijection(S, T)
    BY <1>1, <1>2, <1>3, Zenon DEF Bijection, Injection, Surjection, IsInjective
  <1>5. ExistsBijection(S, T)
    BY <1>4, Zenon DEF ExistsBijection
  <1> QED
    BY <1>5, FS_Bijection, Zenon

(* A list without pages has no free object.                                *)
LEMMA EmptyList ==
  ASSUME NEW objs, DOMAIN objs = {}
  PROVE  FreeIn(objs) = {} /\ CountOf(objs) = 0 /\ \A n : IsList(objs, n)
  <1>1. FreeIn(objs) = {}
    BY FreeInElements, Zenon
  <1> QED
    BY <1>1, FS_EmptySet, Zenon DEF CountOf, IsList

(* A list with a page has a free object.                                   *)
LEMMA SameFreeObjects ==
  ASSUME NEW n \in Nat, NEW objs, IsList(objs, n), DOMAIN objs # {}
  PROVE  CountOf(objs) > 0
  <1>1. PICK p \in DOMAIN objs : TRUE
    BY Zenon
  <1>2. PICK o \in objs[p] : TRUE
    BY <1>1, Zenon DEF IsList
  <1>3. FreeIn(objs) # {}
    BY <1>2, FreeInElements, Zenon
  <1>4. IsFiniteSet(FreeIn(objs)) /\ CountOf(objs) \in Nat
    BY FreeInFinite, Zenon
  <1>5. CountOf(objs) # 0
    BY <1>3, <1>4, FS_EmptySet, Zenon DEF CountOf
  <1> QED
    BY <1>4, <1>5

TakesOne(objs, p, n) ==
  /\ Some(objs[p]) \in objs[p]
  /\ IsList(TakeFrom(objs, p), n)
  /\ DOMAIN TakeFrom(objs, p) \subseteq DOMAIN objs
  /\ \A q \in DOMAIN TakeFrom(objs, p) : TakeFrom(objs, p)[q] \subseteq objs[q]
  /\ FreeIn(TakeFrom(objs, p)) = FreeIn(objs) \ {<<p, Some(objs[p])>>}
  /\ CountOf(objs) \in Nat /\ CountOf(TakeFrom(objs, p)) = CountOf(objs) - 1
  /\ CountOf(objs) > 0

(* get_free_obj_from_slot_page takes one free object, and drops the page   *)
(* from the list with its last one.                                        *)
LEMMA TakeFromList ==
  ASSUME NEW n \in Nat, NEW objs, IsList(objs, n), NEW p \in DOMAIN objs
  PROVE  TakesOne(objs, p, n)
  <1> DEFINE o == Some(objs[p])
             new == TakeFrom(objs, p)
  <1>1. o \in objs[p]
    BY SomeIsIn, Zenon DEF IsList
  <1> HIDE DEF o
  <1>2. /\ IsList(new, n) /\ DOMAIN new \subseteq DOMAIN objs
        /\ \A q \in DOMAIN new : new[q] \subseteq objs[q]
        /\ \A q, r : (q \in DOMAIN new /\ r \in new[q])
                       <=> (q \in DOMAIN objs /\ r \in objs[q] /\ ~(q = p /\ r = o))
    <2>1. CASE objs[p] = {o}
      <3>1. new = Without(objs, p)
        BY <2>1, Zenon DEF TakeFrom, o
      <3> HIDE DEF new
      <3>2. DOMAIN new = DOMAIN objs \ {p} /\ \A x \in DOMAIN objs : x # p => new[x] = objs[x]
        BY <3>1, WithoutIs, Zenon
      <3>3. \A q \in DOMAIN new : q \in DOMAIN objs /\ q # p /\ new[q] = objs[q]
        BY <3>2, Zenon
      <3>4. IsList(new, n)
        BY <3>2, <3>3, Zenon DEF IsList
      <3> QED
        BY <2>1, <3>2, <3>3, <3>4, Zenon
    <2>2. CASE objs[p] # {o}
      <3>1. new = With(objs, p, objs[p] \ {o})
        BY <2>2, Zenon DEF TakeFrom, o
      <3> HIDE DEF new
      <3>2. /\ DOMAIN new = DOMAIN objs /\ new[p] = objs[p] \ {o}
            /\ \A x \in DOMAIN objs : x # p => new[x] = objs[x]
        <4>1. /\ DOMAIN With(objs, p, objs[p] \ {o}) = DOMAIN objs \cup {p}
              /\ With(objs, p, objs[p] \ {o})[p] = objs[p] \ {o}
              /\ \A x \in DOMAIN objs : x # p => With(objs, p, objs[p] \ {o})[x] = objs[x]
          BY Zenon DEF With
        <4>2. DOMAIN objs \cup {p} = DOMAIN objs
          BY Zenon
        <4> QED
          BY <4>1, <4>2, <3>1, Zenon
      <3>3. new[p] # {} /\ new[p] \subseteq objs[p]
        BY <3>2, <2>2, <1>1, Zenon
      <3>4. IsList(new, n)
        BY <3>2, <3>3, Zenon DEF IsList
      <3> QED
        BY <3>2, <3>3, <3>4, <1>1, Zenon
    <2> QED
      BY <2>1, <2>2
  <1> HIDE DEF new
  <1>3. FreeIn(new) = FreeIn(objs) \ {<<p, o>>}
    <2>1. ASSUME NEW x \in FreeIn(new) PROVE x \in FreeIn(objs) \ {<<p, o>>}
      <3>1. PICK q \in DOMAIN new : \E r \in new[q] : x = <<q, r>>
        BY <2>1, FreeInPick, Zenon
      <3>2. PICK r \in new[q] : x = <<q, r>>
        BY <3>1, Zenon
      <3>3. q \in DOMAIN objs /\ r \in objs[q] /\ ~(q = p /\ r = o)
        BY <1>2, Zenon
      <3>4. <<q, r>> # <<p, o>>
        BY <3>3, SMT
      <3> QED
        BY <3>2, <3>3, <3>4, FreeInElements, Zenon
    <2>2. ASSUME NEW x \in FreeIn(objs) \ {<<p, o>>} PROVE x \in FreeIn(new)
      <3>0. x \in FreeIn(objs)
        BY <2>2, Zenon
      <3>1. PICK q \in DOMAIN objs : \E r \in objs[q] : x = <<q, r>>
        BY <3>0, FreeInPick
      <3>2. PICK r \in objs[q] : x = <<q, r>>
        BY <3>1, Zenon
      <3>3. ~(q = p /\ r = o)
        BY <3>2, <2>2, Zenon
      <3>4. q \in DOMAIN new /\ r \in new[q]
        BY <1>2, <3>3, Zenon
      <3> QED
        BY <3>2, <3>4, FreeInElements, Zenon
    <2> QED
      BY <2>1, <2>2, Zenon
  <1>4. IsFiniteSet(FreeIn(objs)) /\ CountOf(objs) \in Nat
    BY FreeInFinite, Zenon
  <1>5. <<p, o>> \in FreeIn(objs)
    BY <1>1, FreeInElements, Zenon
  <1>6. CountOf(new) = CountOf(objs) - 1
    BY <1>3, <1>4, <1>5, FS_RemoveElement, Zenon DEF CountOf
  <1>7. CountOf(objs) > 0
    <2>1. CountOf(objs) # 0
      BY <1>4, <1>5, FS_EmptySet, Zenon DEF CountOf
    <2> QED
      BY <2>1, <1>4
  <1> QED
    BY <1>1, <1>2, <1>3, <1>4, <1>6, <1>7, Zenon DEF o, new, TakesOne

AddsOne(objs, p, o, n) ==
  /\ IsList(PutBack(objs, p, o), n)
  /\ DOMAIN PutBack(objs, p, o) = DOMAIN objs \cup {p}
  /\ \A q \in DOMAIN objs : q # p => PutBack(objs, p, o)[q] = objs[q]
  /\ FreeIn(PutBack(objs, p, o)) = FreeIn(objs) \cup {<<p, o>>}
  /\ CountOf(objs) \in Nat /\ CountOf(PutBack(objs, p, o)) = CountOf(objs) + 1

(* put adds the object to the list of its page. *)
LEMMA PutBackInList ==
  ASSUME NEW n \in Nat, NEW objs, IsList(objs, n),
         NEW p \in Pages, NEW o \in 1 .. n, <<p, o>> \notin FreeIn(objs)
  PROVE  AddsOne(objs, p, o, n)
  <1> DEFINE list == {o} \cup IF p \in DOMAIN objs THEN objs[p] ELSE {}
             new == PutBack(objs, p, o)
  <1>2. \A r : r \in list <=> (r = o \/ (p \in DOMAIN objs /\ r \in objs[p]))
    BY Zenon
  <1>9. new = With(objs, p, list)
    BY Zenon DEF PutBack
  <1> HIDE DEF list, new
  <1>1. /\ DOMAIN new = DOMAIN objs \cup {p} /\ new[p] = list
        /\ \A x \in DOMAIN objs : x # p => new[x] = objs[x]
    <2>1. /\ DOMAIN With(objs, p, list) = DOMAIN objs \cup {p}
          /\ With(objs, p, list)[p] = list
          /\ \A x \in DOMAIN objs : x # p => With(objs, p, list)[x] = objs[x]
      BY Zenon DEF With
    <2> QED
      BY <2>1, <1>9, Zenon
  <1>3. list # {} /\ list \subseteq 1 .. n
    BY <1>2, Zenon DEF IsList
  <1>4. IsList(new, n)
    BY <1>1, <1>3, Zenon DEF IsList
  <1>5. \A q, r : (q \in DOMAIN new /\ r \in new[q])
                    <=> ((q \in DOMAIN objs /\ r \in objs[q]) \/ (q = p /\ r = o))
    BY <1>1, <1>2, Zenon
  <1>6. FreeIn(new) = FreeIn(objs) \cup {<<p, o>>}
    <2>1. ASSUME NEW x \in FreeIn(new) PROVE x \in FreeIn(objs) \cup {<<p, o>>}
      <3>1. PICK q \in DOMAIN new : \E r \in new[q] : x = <<q, r>>
        BY <2>1, FreeInPick, Zenon
      <3>2. PICK r \in new[q] : x = <<q, r>>
        BY <3>1, Zenon
      <3> QED
        BY <3>2, <1>5, FreeInElements, Zenon
    <2>2. ASSUME NEW x \in FreeIn(objs) PROVE x \in FreeIn(new)
      <3>1. PICK q \in DOMAIN objs : \E r \in objs[q] : x = <<q, r>>
        BY <2>2, FreeInPick, Zenon
      <3>2. PICK r \in objs[q] : x = <<q, r>>
        BY <3>1, Zenon
      <3> QED
        BY <3>2, <1>5, FreeInElements, Zenon
    <2>3. <<p, o>> \in FreeIn(new)
      BY <1>5, FreeInElements, Zenon
    <2> QED
      BY <2>1, <2>2, <2>3, Zenon
  <1>7. IsFiniteSet(FreeIn(objs)) /\ CountOf(objs) \in Nat
    BY FreeInFinite, Zenon
  <1>8. CountOf(new) = CountOf(objs) + 1
    BY <1>6, <1>7, FS_AddElement, Zenon DEF CountOf
  <1> QED
    BY <1>1, <1>4, <1>6, <1>7, <1>8, Zenon DEF new, AddsOne

DropsPage(objs, p, n) ==
  /\ IsList(Without(objs, p), n)
  /\ DOMAIN Without(objs, p) = DOMAIN objs \ {p}
  /\ \A q \in DOMAIN objs : q # p => Without(objs, p)[q] = objs[q]
  /\ Cardinality(objs[p]) \in Nat /\ CountOf(objs) \in Nat
  /\ CountOf(Without(objs, p)) = CountOf(objs) - Cardinality(objs[p])
  /\ CountOf(Without(objs, p)) \in Nat
  /\ \A x : x \in FreeIn(Without(objs, p)) => x \in FreeIn(objs)

(* A page leaves the list with all its free objects. *)
LEMMA PageLeavesList ==
  ASSUME NEW n \in Nat, NEW objs, IsList(objs, n), NEW p \in DOMAIN objs
  PROVE  DropsPage(objs, p, n)
  <1> DEFINE new == Without(objs, p)
             page == {<<p, o>> : o \in objs[p]}
  <1>1. DOMAIN new = DOMAIN objs \ {p} /\ \A x \in DOMAIN objs : x # p => new[x] = objs[x]
    BY WithoutIs, Zenon
  <1> HIDE DEF new
  <1>2. IsList(new, n)
    BY <1>1, Zenon DEF IsList
  <1>3. FreeIn(new) = FreeIn(objs) \ page
    <2>1. ASSUME NEW x \in FreeIn(new) PROVE x \in FreeIn(objs) \ page
      <3>1. PICK q \in DOMAIN new : \E r \in new[q] : x = <<q, r>>
        BY <2>1, FreeInPick, Zenon
      <3>2. PICK r \in new[q] : x = <<q, r>>
        BY <3>1, Zenon
      <3>3. q # p /\ q \in DOMAIN objs /\ r \in objs[q]
        BY <1>1, Zenon
      <3>4. \A o : <<q, r>> # <<p, o>>
        BY <3>3, SMT
      <3>5. x \notin page
        BY <3>2, <3>4, Zenon
      <3> QED
        BY <3>2, <3>3, <3>5, FreeInElements, Zenon
    <2>2. ASSUME NEW x \in FreeIn(objs) \ page PROVE x \in FreeIn(new)
      <3>1. PICK q \in DOMAIN objs : \E r \in objs[q] : x = <<q, r>>
        BY <2>2, FreeInPick, Zenon
      <3>2. PICK r \in objs[q] : x = <<q, r>>
        BY <3>1, Zenon
      <3>3. q # p
        BY <3>2, <2>2, Zenon
      <3>4. q \in DOMAIN new /\ r \in new[q]
        BY <1>1, <3>3, Zenon
      <3> QED
        BY <3>2, <3>4, FreeInElements, Zenon
    <2> QED
      BY <2>1, <2>2, Zenon
  <1>4. /\ IsFiniteSet(FreeIn(objs)) /\ CountOf(objs) \in Nat
        /\ CountOf(new) \in Nat
    BY <1>2, FreeInFinite, Zenon
  <1>5. IsFiniteSet(objs[p])
    <2>1. IsFiniteSet(1 .. n)
      BY FS_Interval
    <2>2. objs[p] \subseteq 1 .. n
      BY Zenon DEF IsList
    <2> QED
      BY <2>1, <2>2, FS_Subset, Zenon
  <1>6. Cardinality(objs[p]) \in Nat /\ Cardinality(page) = Cardinality(objs[p])
    BY <1>5, OnePageCount, FS_CardinalityType, Zenon
  <1>7. page \subseteq FreeIn(objs)
    <2> SUFFICES ASSUME NEW o \in objs[p] PROVE <<p, o>> \in FreeIn(objs)
      BY Zenon
    <2> QED
      BY FreeInElements, Zenon
  <1>8. FreeIn(objs) \cap page = page
    BY <1>7, Zenon
  <1> HIDE DEF page
  <1>9. CountOf(new) = CountOf(objs) - Cardinality(objs[p])
    <2>1. Cardinality(FreeIn(objs) \ page)
            = Cardinality(FreeIn(objs)) - Cardinality(FreeIn(objs) \cap page)
      BY <1>4, FS_Difference, Zenon
    <2> QED
      BY <2>1, <1>3, <1>6, <1>8, Zenon DEF CountOf
  <1> QED
    <2>1. \A x : x \in FreeIn(new) => x \in FreeIn(objs)
      BY <1>3, Zenon
    <2> QED
      BY <2>1, <1>1, <1>2, <1>4, <1>6, <1>9, Zenon DEF new, DropsPage

(* The list of a page that was just cut into objects. *)
LEMMA NewPageList ==
  ASSUME NEW s \in AllSlots, NEW p \in Pages
  PROVE  /\ DOMAIN NewObjs(s, p) = {p} /\ NewObjs(s, p)[p] = 1 .. PageObjs(s)
         /\ IsList(NewObjs(s, p), PageObjs(s))
         /\ CountOf(NewObjs(s, p)) = PageObjs(s)
  <1> DEFINE new == NewObjs(s, p)
             n == PageObjs(s)
  <1>1. DOMAIN new = {p} /\ new[p] = 1 .. n
    <2>1. new = With(Empty, p, 1 .. n)
      BY Zenon DEF NewObjs
    <2> HIDE DEF new, n
    <2>2. /\ DOMAIN With(Empty, p, 1 .. n) = DOMAIN Empty \cup {p}
          /\ With(Empty, p, 1 .. n)[p] = 1 .. n
      BY Zenon DEF With
    <2>3. DOMAIN new = DOMAIN Empty \cup {p} /\ new[p] = 1 .. n
      BY <2>1, <2>2, Zenon
    <2> QED
      BY <2>3, EmptyIs, Zenon
  <1>2. n \in Nat \ {0}
    BY PageCounts, Zenon
  <1> HIDE DEF new, n
  <1>3. 1 .. n # {} /\ IsFiniteSet(1 .. n) /\ Cardinality(1 .. n) = n
    <2>1. 1 \in 1 .. n /\ n \in Int /\ ~(1 > n) /\ n - 1 + 1 = n
      BY <1>2
    <2>2. IsFiniteSet(1 .. n) /\ Cardinality(1 .. n) = n
      BY <1>2, FS_Interval
    <2> QED
      BY <2>1, <2>2, Zenon
  <1>4. IsList(new, n)
    BY <1>1, <1>3, Zenon DEF IsList
  <1>5. FreeIn(new) = {<<p, o>> : o \in 1 .. n}
    <2>1. FreeIn(new) = UNION {{<<q, o>> : o \in new[q]} : q \in {p}}
      BY <1>1, Zenon DEF FreeIn
    <2> QED
      BY <2>1, <1>1, Zenon
  <1>6. CountOf(new) = n
    BY <1>3, <1>5, OnePageCount, ZenonT(30) DEF CountOf
  <1> QED
    BY <1>1, <1>4, <1>6, Zenon DEF new, n

(* A page that counts as free as a whole has all its objects in the list.  *)
LEMMA WholePage ==
  ASSUME NEW s \in AllSlots, NEW objs, IsList(objs, PageObjs(s)),
         NEW p \in Whole(objs, OnePageObjs(s))
  PROVE  /\ p \in DOMAIN objs /\ objs[p] = 1 .. PageObjs(s)
         /\ Cardinality(objs[p]) = OnePageObjs(s)
  <1> DEFINE n == PageObjs(s)
  <1>1. p \in DOMAIN objs /\ Cardinality(objs[p]) = OnePageObjs(s)
    BY Zenon DEF Whole
  <1>2. n \in Nat /\ OnePageObjs(s) \in Nat /\ n <= OnePageObjs(s)
    BY PageCounts
  <1>3. objs[p] \subseteq 1 .. n
    BY <1>1, Zenon DEF IsList
  <1> HIDE DEF n
  <1>4. IsFiniteSet(1 .. n) /\ Cardinality(1 .. n) = n
    BY <1>2, FS_Interval
  <1>5. /\ Cardinality(objs[p]) <= Cardinality(1 .. n)
        /\ Cardinality(1 .. n) = Cardinality(objs[p]) => 1 .. n = objs[p]
    BY <1>3, <1>4, FS_Subset, Zenon
  <1>6. Cardinality(objs[p]) = Cardinality(1 .. n)
    BY <1>1, <1>2, <1>4, <1>5
  <1> QED
    BY <1>1, <1>5, <1>6, Zenon DEF n

(* What Get takes from a free list it adds to the objects in use. *)
LEMMA ApartTake ==
  ASSUME NEW F, NEW G, NEW H, NEW U, Apart(F, H, U),
         NEW s \in AllSlots, NEW p \in DOMAIN F[s], NEW size, size <= s[2],
         G[s] = TakeFrom(F[s], p), \A t \in AllSlots \ {s} : G[t] = F[t]
  PROVE  Apart(G, H, U \cup {Object(s, F[s], p, size)})
  <1> DEFINE o == Some(F[s][p])
             x == Object(s, F[s], p, size)
             n == PageObjs(s)
  <1>1. /\ DOMAIN H \subseteq Pages /\ UsedOnce(U)
        /\ \A t \in AllSlots : ListOfSlot(F, H, t)
        /\ \A h \in U : ObjectInUse(F, H, h)
    BY Zenon DEF Apart
  <1>2. IsList(F[s], n) /\ p \in DOMAIN H /\ H[p] = s
    BY <1>1, Zenon DEF ListOfSlot
  <1>3. n \in Nat
    BY PageCounts
  <1>4. x.slot = s /\ x.page = p /\ x.obj = o /\ x.size = size
    BY SMT DEF Object
  <1>5. /\ o \in F[s][p] /\ IsList(G[s], n) /\ DOMAIN G[s] \subseteq DOMAIN F[s]
        /\ FreeIn(G[s]) = FreeIn(F[s]) \ {<<p, o>>}
    <2> HIDE DEF n, o
    <2>1. TakesOne(F[s], p, n)
      BY <1>2, <1>3, TakeFromList, Zenon
    <2> QED
      BY <2>1, Zenon DEF o, TakesOne
  <1>6. o \in 1 .. n /\ <<p, o>> \in FreeIn(F[s])
    BY <1>2, <1>5, FreeInElements, Zenon DEF IsList
  <1> HIDE DEF o, x, n
  <1>7. \A t \in AllSlots : ListOfSlot(G, H, t)
    <2> SUFFICES ASSUME NEW t \in AllSlots PROVE ListOfSlot(G, H, t)
      BY Zenon
    <2>1. CASE t = s
      BY <2>1, <1>1, <1>5, Zenon DEF ListOfSlot, n
    <2>2. CASE t # s
      BY <2>2, <1>1, Zenon DEF ListOfSlot
    <2> QED
      BY <2>1, <2>2, Zenon
  <1>8. \A h \in U : ObjectInUse(G, H, h) /\ ~(h.page = p /\ h.obj = o)
    <2> SUFFICES ASSUME NEW h \in U PROVE ObjectInUse(G, H, h) /\ ~(h.page = p /\ h.obj = o)
      BY Zenon
    <2>1. /\ h.slot \in AllSlots /\ h.page \in DOMAIN H /\ H[h.page] = h.slot
          /\ h.obj \in 1 .. PageObjs(h.slot) /\ h.size <= h.slot[2]
          /\ <<h.page, h.obj>> \notin FreeIn(F[h.slot])
      BY <1>1, Zenon DEF ObjectInUse
    <2>2. <<h.page, h.obj>> \notin FreeIn(G[h.slot])
      BY <2>1, <1>5, Zenon
    <2>3. ~(h.page = p /\ h.obj = o)
      BY <2>1, <1>2, <1>6, Zenon
    <2> QED
      BY <2>1, <2>2, <2>3, Zenon DEF ObjectInUse
  <1>9. ObjectInUse(G, H, x)
    <2>1. <<p, o>> \notin FreeIn(G[s])
      BY <1>5, Zenon
    <2> QED
      BY <1>2, <1>4, <1>6, <2>1, Zenon DEF ObjectInUse, n
  <1>10. UsedOnce(U \cup {x})
    BY <1>1, <1>4, <1>8, Zenon DEF UsedOnce
  <1> QED
    BY <1>1, <1>7, <1>8, <1>9, <1>10, Zenon DEF Apart, x

(* A page that the system gives is cut into free objects of its slot. *)
LEMMA ApartNewPage ==
  ASSUME NEW F, NEW G, NEW H, NEW U, Apart(F, H, U),
         NEW s \in AllSlots, NEW p \in Pages, p \notin DOMAIN H, DOMAIN F[s] = {},
         G[s] = NewObjs(s, p), \A t \in AllSlots \ {s} : G[t] = F[t]
  PROVE  Apart(G, With(H, p, s), U)
  <1> DEFINE I == With(H, p, s)
  <1>1. /\ DOMAIN H \subseteq Pages /\ UsedOnce(U)
        /\ \A t \in AllSlots : ListOfSlot(F, H, t)
        /\ \A h \in U : ObjectInUse(F, H, h)
    BY Zenon DEF Apart
  <1>2. DOMAIN I = DOMAIN H \cup {p} /\ I[p] = s /\ \A q \in DOMAIN H : I[q] = H[q]
    BY Zenon DEF With
  <1> HIDE DEF I
  <1>3. DOMAIN G[s] = {p} /\ G[s][p] = 1 .. PageObjs(s) /\ IsList(G[s], PageObjs(s))
    BY NewPageList, Zenon
  <1>4. \A t \in AllSlots : ListOfSlot(G, I, t)
    <2> SUFFICES ASSUME NEW t \in AllSlots PROVE ListOfSlot(G, I, t)
      BY Zenon
    <2>1. CASE t = s
      BY <2>1, <1>2, <1>3, Zenon DEF ListOfSlot
    <2>2. CASE t # s
      <3>1. G[t] = F[t] /\ ListOfSlot(F, H, t)
        BY <2>2, <1>1, Zenon
      <3> QED
        BY <3>1, <1>2, Zenon DEF ListOfSlot
    <2> QED
      BY <2>1, <2>2, Zenon
  <1>5. \A h \in U : ObjectInUse(G, I, h)
    <2> SUFFICES ASSUME NEW h \in U PROVE ObjectInUse(G, I, h)
      BY Zenon
    <2>1. /\ h.slot \in AllSlots /\ h.page \in DOMAIN H /\ H[h.page] = h.slot
          /\ h.obj \in 1 .. PageObjs(h.slot) /\ h.size <= h.slot[2]
          /\ <<h.page, h.obj>> \notin FreeIn(F[h.slot])
      BY <1>1, Zenon DEF ObjectInUse
    <2>2. <<h.page, h.obj>> \notin FreeIn(G[h.slot])
      <3>1. CASE h.slot = s
        <4>1. h.page \notin DOMAIN G[s]
          BY <2>1, <1>3, Zenon
        <4> QED
          BY <3>1, <4>1, FreeInElements, Zenon
      <3>2. CASE h.slot # s
        BY <3>2, <2>1, Zenon
      <3> QED
        BY <3>1, <3>2, Zenon
    <2> QED
      BY <2>1, <2>2, <1>2, Zenon DEF ObjectInUse
  <1>6. DOMAIN I \subseteq Pages
    BY <1>1, <1>2, Zenon
  <1> QED
    BY <1>1, <1>4, <1>5, <1>6, Zenon DEF Apart, I

(* An object that comes back is free again. *)
LEMMA ApartPut ==
  ASSUME NEW F, NEW G, NEW H, NEW U, Apart(F, H, U), NEW h \in U,
         G[h.slot] = PutBack(F[h.slot], h.page, h.obj),
         \A t \in AllSlots \ {h.slot} : G[t] = F[t]
  PROVE  Apart(G, H, U \ {h})
  <1> DEFINE s == h.slot
             n == PageObjs(s)
  <1>1. /\ DOMAIN H \subseteq Pages /\ UsedOnce(U)
        /\ \A t \in AllSlots : ListOfSlot(F, H, t)
        /\ \A g \in U : ObjectInUse(F, H, g)
    BY Zenon DEF Apart
  <1>2. /\ s \in AllSlots /\ h.page \in DOMAIN H /\ h.page \in Pages /\ H[h.page] = s
        /\ h.obj \in 1 .. n /\ <<h.page, h.obj>> \notin FreeIn(F[s])
    BY <1>1, Zenon DEF ObjectInUse
  <1>3. n \in Nat /\ IsList(F[s], n)
    <2>1. n \in Nat
      BY <1>2, PageCounts
    <2> QED
      BY <2>1, <1>1, <1>2, Zenon DEF ListOfSlot
  <1> HIDE DEF s, n
  <1>4. G[s] = PutBack(F[s], h.page, h.obj) /\ \A t \in AllSlots \ {s} : G[t] = F[t]
    BY Zenon DEF s
  <1>5. /\ IsList(G[s], n) /\ DOMAIN G[s] = DOMAIN F[s] \cup {h.page}
        /\ FreeIn(G[s]) = FreeIn(F[s]) \cup {<<h.page, h.obj>>}
    <2>1. AddsOne(F[s], h.page, h.obj, n)
      BY <1>2, <1>3, PutBackInList, Zenon
    <2> QED
      BY <2>1, <1>4, Zenon DEF AddsOne
  <1>6. \A t \in AllSlots : ListOfSlot(G, H, t)
    <2> SUFFICES ASSUME NEW t \in AllSlots PROVE ListOfSlot(G, H, t)
      BY Zenon
    <2>1. CASE t = s
      <3>1. IsList(G[s], PageObjs(s))
        BY <1>5, Zenon DEF n
      <3>2. \A p \in DOMAIN G[s] : p \in DOMAIN H /\ H[p] = s
        BY <1>1, <1>2, <1>5, ZenonT(30) DEF ListOfSlot
      <3> QED
        BY <2>1, <3>1, <3>2, Zenon DEF ListOfSlot
    <2>2. CASE t # s
      BY <2>2, <1>1, <1>4, Zenon DEF ListOfSlot
    <2> QED
      BY <2>1, <2>2, Zenon
  <1>7. \A g \in U \ {h} : ObjectInUse(G, H, g)
    <2> SUFFICES ASSUME NEW g \in U \ {h} PROVE ObjectInUse(G, H, g)
      BY Zenon
    <2>1. /\ g.slot \in AllSlots /\ g.page \in DOMAIN H /\ H[g.page] = g.slot
          /\ g.obj \in 1 .. PageObjs(g.slot) /\ g.size <= g.slot[2]
          /\ <<g.page, g.obj>> \notin FreeIn(F[g.slot])
      BY <1>1, Zenon DEF ObjectInUse
    <2>2. ~(g.page = h.page /\ g.obj = h.obj)
      BY <1>1, Zenon DEF UsedOnce
    <2>3. <<g.page, g.obj>> # <<h.page, h.obj>>
      BY <2>2, SMT
    <2>4. <<g.page, g.obj>> \notin FreeIn(G[g.slot])
      <3>1. CASE g.slot = s
        BY <3>1, <1>5, <2>1, <2>3, Zenon
      <3>2. CASE g.slot # s
        BY <3>2, <1>4, <2>1, Zenon
      <3> QED
        BY <3>1, <3>2, Zenon
    <2> QED
      BY <2>1, <2>4, Zenon DEF ObjectInUse
  <1>8. UsedOnce(U \ {h})
    BY <1>1, Zenon DEF UsedOnce
  <1> QED
    BY <1>1, <1>6, <1>7, <1>8, Zenon DEF Apart

(* A page all of whose objects are free may go back to the system. *)
LEMMA ApartRelease ==
  ASSUME NEW F, NEW G, NEW H, NEW U, Apart(F, H, U),
         NEW s \in AllSlots, NEW p \in DOMAIN F[s], F[s][p] = 1 .. PageObjs(s),
         G[s] = Without(F[s], p), \A t \in AllSlots \ {s} : G[t] = F[t]
  PROVE  Apart(G, Without(H, p), U)
  <1> DEFINE I == Without(H, p)
             n == PageObjs(s)
  <1>1. /\ DOMAIN H \subseteq Pages /\ UsedOnce(U)
        /\ \A t \in AllSlots : ListOfSlot(F, H, t)
        /\ \A g \in U : ObjectInUse(F, H, g)
    BY Zenon DEF Apart
  <1>2. DOMAIN I = DOMAIN H \ {p} /\ \A q \in DOMAIN H : q # p => I[q] = H[q]
    BY Zenon DEF Without
  <1> HIDE DEF I
  <1>3. n \in Nat /\ IsList(F[s], n) /\ H[p] = s
    <2>1. n \in Nat
      BY PageCounts
    <2> QED
      BY <2>1, <1>1, Zenon DEF ListOfSlot
  <1>4. /\ IsList(G[s], n) /\ DOMAIN G[s] = DOMAIN F[s] \ {p}
        /\ \A x : x \in FreeIn(G[s]) => x \in FreeIn(F[s])
    <2> HIDE DEF n
    <2>1. DropsPage(F[s], p, n)
      BY <1>3, PageLeavesList, Zenon
    <2> QED
      BY <2>1, Zenon DEF DropsPage
  <1>5. \A t \in AllSlots : ListOfSlot(G, I, t)
    <2> SUFFICES ASSUME NEW t \in AllSlots PROVE ListOfSlot(G, I, t)
      BY Zenon
    <2>1. CASE t = s
      <3>1. IsList(G[s], PageObjs(s))
        BY <1>4, Zenon
      <3>2. \A q \in DOMAIN G[s] : q \in DOMAIN I /\ I[q] = s
        BY <1>1, <1>2, <1>4, Zenon DEF ListOfSlot
      <3> QED
        BY <2>1, <3>1, <3>2, Zenon DEF ListOfSlot
    <2>2. CASE t # s
      <3>1. G[t] = F[t] /\ ListOfSlot(F, H, t)
        BY <2>2, <1>1, Zenon
      <3>2. \A q \in DOMAIN F[t] : q # p
        BY <2>2, <3>1, <1>3, Zenon DEF ListOfSlot
      <3> QED
        BY <3>1, <3>2, <1>2, Zenon DEF ListOfSlot
    <2> QED
      BY <2>1, <2>2, Zenon
  <1>6. \A g \in U : ObjectInUse(G, I, g)
    <2> SUFFICES ASSUME NEW g \in U PROVE ObjectInUse(G, I, g)
      BY Zenon
    <2>1. /\ g.slot \in AllSlots /\ g.page \in DOMAIN H /\ H[g.page] = g.slot
          /\ g.obj \in 1 .. PageObjs(g.slot) /\ g.size <= g.slot[2]
          /\ <<g.page, g.obj>> \notin FreeIn(F[g.slot])
      BY <1>1, Zenon DEF ObjectInUse
    <2>2. g.page # p
      <3> SUFFICES ASSUME g.page = p PROVE FALSE
        BY Zenon
      <3>1. g.slot = s
        BY <2>1, <1>3, Zenon
      <3>2. g.obj \in F[s][p]
        BY <2>1, <3>1, Zenon
      <3> QED
        BY <3>1, <3>2, <2>1, FreeInElements, Zenon
    <2>3. <<g.page, g.obj>> \notin FreeIn(G[g.slot])
      <3>1. CASE g.slot = s
        BY <3>1, <1>4, <2>1, Zenon
      <3>2. CASE g.slot # s
        BY <3>2, <2>1, Zenon
      <3> QED
        BY <3>1, <3>2, Zenon
    <2> QED
      BY <2>1, <2>2, <2>3, <1>2, Zenon DEF ObjectInUse
  <1>7. DOMAIN I \subseteq Pages
    BY <1>1, <1>2, Zenon
  <1> QED
    BY <1>1, <1>5, <1>6, <1>7, Zenon DEF Apart, I

(* The page of an object that is alone in it goes with the object. *)
LEMMA ApartDrop ==
  ASSUME NEW F, NEW H, NEW U, Apart(F, H, U), NEW h \in U, PageObjs(h.slot) = 1
  PROVE  Apart(F, Without(H, h.page), U \ {h})
  <1> DEFINE I == Without(H, h.page)
  <1>1. /\ DOMAIN H \subseteq Pages /\ UsedOnce(U)
        /\ \A t \in AllSlots : ListOfSlot(F, H, t)
        /\ \A g \in U : ObjectInUse(F, H, g)
    BY Zenon DEF Apart
  <1>2. DOMAIN I = DOMAIN H \ {h.page} /\ \A q \in DOMAIN H : q # h.page => I[q] = H[q]
    BY Zenon DEF Without
  <1> HIDE DEF I
  <1>3. /\ h.slot \in AllSlots /\ h.page \in DOMAIN H /\ H[h.page] = h.slot
        /\ h.obj \in 1 .. 1 /\ <<h.page, h.obj>> \notin FreeIn(F[h.slot])
    BY <1>1, Zenon DEF ObjectInUse
  <1>4. \A x \in 1 .. 1 : x = h.obj
    BY <1>3
  <1>5. \A t \in AllSlots : h.page \notin DOMAIN F[t]
    <2> SUFFICES ASSUME NEW t \in AllSlots, h.page \in DOMAIN F[t] PROVE FALSE
      BY Zenon
    <2>1. t = h.slot
      BY <1>1, <1>3, Zenon DEF ListOfSlot
    <2>2. F[t][h.page] # {} /\ F[t][h.page] \subseteq 1 .. 1
      BY <2>1, <1>1, <1>3, ZenonT(30) DEF ListOfSlot, IsList
    <2>3. h.obj \in F[t][h.page]
      BY <2>2, <1>4, Zenon
    <2> QED
      BY <2>1, <2>3, <1>3, FreeInElements, Zenon
  <1>6. \A t \in AllSlots : ListOfSlot(F, I, t)
    BY <1>1, <1>2, <1>5, Zenon DEF ListOfSlot
  <1>7. \A g \in U \ {h} : ObjectInUse(F, I, g)
    <2> SUFFICES ASSUME NEW g \in U \ {h} PROVE ObjectInUse(F, I, g)
      BY Zenon
    <2>1. /\ g.slot \in AllSlots /\ g.page \in DOMAIN H /\ H[g.page] = g.slot
          /\ g.obj \in 1 .. PageObjs(g.slot) /\ g.size <= g.slot[2]
          /\ <<g.page, g.obj>> \notin FreeIn(F[g.slot])
      BY <1>1, Zenon DEF ObjectInUse
    <2>2. g.page # h.page
      <3> SUFFICES ASSUME g.page = h.page PROVE FALSE
        BY Zenon
      <3>1. g.slot = h.slot
        BY <2>1, <1>3, Zenon
      <3>2. g.obj \in 1 .. 1
        BY <2>1, <3>1, Zenon
      <3>3. g.obj = h.obj
        BY <3>2, <1>4, Zenon
      <3> QED
        BY <3>3, <1>1, Zenon DEF UsedOnce
    <2> QED
      BY <2>1, <2>2, <1>2, Zenon DEF ObjectInUse
  <1>8. DOMAIN I \subseteq Pages
    BY <1>1, <1>2, Zenon
  <1>9. UsedOnce(U \ {h})
    BY <1>1, Zenon DEF UsedOnce
  <1> QED
    BY <1>1, <1>6, <1>7, <1>8, <1>9, Zenon DEF Apart, I

(* A slot that forgets its free objects overlaps with nothing. *)
LEMMA ApartLose ==
  ASSUME NEW F, NEW G, NEW H, NEW U, Apart(F, H, U),
         \A t \in AllSlots : G[t] = F[t] \/ DOMAIN G[t] = {}
  PROVE  Apart(G, H, U)
  <1>1. /\ DOMAIN H \subseteq Pages /\ UsedOnce(U)
        /\ \A t \in AllSlots : ListOfSlot(F, H, t)
        /\ \A g \in U : ObjectInUse(F, H, g)
    BY Zenon DEF Apart
  <1>2. ASSUME NEW t \in AllSlots PROVE ListOfSlot(G, H, t)
    <2>1. CASE G[t] = F[t]
      BY <2>1, <1>1, Zenon DEF ListOfSlot
    <2>2. CASE DOMAIN G[t] = {}
      BY <2>2, EmptyList, Zenon DEF ListOfSlot
    <2> QED
      BY <2>1, <2>2, Zenon
  <1>3. ASSUME NEW g \in U PROVE ObjectInUse(G, H, g)
    <2>1. /\ g.slot \in AllSlots /\ g.page \in DOMAIN H /\ H[g.page] = g.slot
          /\ g.obj \in 1 .. PageObjs(g.slot) /\ g.size <= g.slot[2]
          /\ <<g.page, g.obj>> \notin FreeIn(F[g.slot])
      BY <1>1, Zenon DEF ObjectInUse
    <2>2. <<g.page, g.obj>> \notin FreeIn(G[g.slot])
      BY <2>1, FreeInElements, Zenon
    <2> QED
      BY <2>1, <2>2, Zenon DEF ObjectInUse
  <1> QED
    BY <1>1, <1>2, <1>3, Zenon DEF Apart

(* A threshold or a last page that is a multiple of the step bounds the    *)
(* multiple that a size is rounded up to.                                  *)
LEMMA RoundupWithin ==
  ASSUME NEW size \in Nat \ {0}, NEW step \in Nat \ {0}, NEW last \in Nat,
         size <= last, last < Wrap, last % step = 0
  PROVE  \E i \in 1 .. last \div step :
           Roundup(size, step) = i * step /\ size <= i * step /\ i * step <= last
  <1> DEFINE m == last \div step
  <1>1. m \in Nat /\ last = m * step
    BY DivMod, SMT
  <1>2. Wrap \in Nat
    BY PoolConstants
  <1> HIDE DEF m
  <1>3. size <= Roundup(size, step) /\ \E i \in 0 .. m : Roundup(size, step) = i * step
    <2>1. size \in Nat /\ m \in Nat /\ size <= m * step /\ m * step < Wrap
      BY <1>1
    <2>2. NextMultiple(size, step, m)
      BY <2>1, <1>2, RoundupIsNext
    <2> QED
      BY <2>2, Zenon DEF NextMultiple
  <1>4. PICK i \in 0 .. m : Roundup(size, step) = i * step
    BY <1>3, Zenon
  <1>5. i \in Nat /\ i <= m /\ step \in Nat
    BY <1>1
  <1>6. i * step \in Nat /\ i * step <= m * step
    BY <1>1, <1>5, MulMono
  <1>7. size <= i * step
    BY <1>3, <1>4, Zenon
  <1>8. i # 0
    <2> SUFFICES ASSUME i = 0 PROVE FALSE
      BY Zenon
    <2>1. i * step = 0
      BY <1>5
    <2> QED
      BY <2>1, <1>7
  <1>9. i \in 1 .. m
    BY <1>1, <1>5, <1>8
  <1> QED
    BY <1>1, <1>4, <1>6, <1>7, <1>9, Zenon DEF m

(* A request that is not bulk has a slot, whose objects are large enough.  *)
LEMMA SlotOfFits ==
  ASSUME NEW size \in Nat \ {0}, size <= BulkThreshold
  PROVE  SlotOf(size) \in Slots /\ size <= SlotOf(size)[2]
  <1>1. BulkThreshold < Wrap
    <2>1. BulkThreshold <= BulkThreshold * ExpandFactor /\ BulkThreshold * ExpandFactor \in Nat
      BY PoolConstants, MulMono
    <2>2. BulkThreshold * ExpandFactor < Wrap
      BY MemPoolAssumption, Zenon
    <2> HIDE DEF Wrap
    <2> DEFINE b == BulkThreshold * ExpandFactor
    <2>3. BulkThreshold <= b /\ b \in Nat /\ b < Wrap
      BY <2>1, <2>2, Zenon
    <2> HIDE DEF b
    <2> QED
      BY <2>3, PoolConstants
  <1>2. /\ TinyThreshold < BigThreshold /\ BigThreshold < BulkThreshold
        /\ BigThreshold % Footstep = 0 /\ BulkThreshold % PageSize = 0
    BY MemPoolAssumption, Zenon
  <1>3. CASE size <= TinyThreshold
    <2>1. SlotOf(size) = <<"Tiny", TinyThreshold>>
      BY <1>3, Zenon DEF SlotOf
    <2>2. SlotOf(size) \in Slots
      BY <2>1, Zenon DEF Slots
    <2> QED
      BY <2>1, <2>2, <1>3, SMT
  <1>4. CASE ~(size <= TinyThreshold) /\ size > BigThreshold
    <2>1. SlotOf(size) = <<"Big", Roundup(size, PageSize)>>
      BY <1>4, Zenon DEF SlotOf
    <2>2. PICK i \in 1 .. BulkThreshold \div PageSize :
            Roundup(size, PageSize) = i * PageSize /\ size <= i * PageSize
      BY <1>1, <1>2, PoolConstants, RoundupWithin
    <2>3. SlotOf(size) = <<"Big", i * PageSize>>
      BY <2>1, <2>2, Zenon
    <2>4. SlotOf(size) \in Slots
      BY <2>3, Zenon DEF Slots
    <2>5. SlotOf(size)[2] = i * PageSize
      BY <2>3, SMT
    <2> QED
      BY <2>2, <2>4, <2>5, Zenon
  <1>5. CASE ~(size <= TinyThreshold) /\ ~(size > BigThreshold)
    <2>1. SlotOf(size) = <<"Small", Roundup(size, Footstep)>>
      BY <1>5, Zenon DEF SlotOf
    <2>2. PICK i \in 1 .. BigThreshold \div Footstep :
            Roundup(size, Footstep) = i * Footstep /\ size <= i * Footstep
      <3>1. size <= BigThreshold /\ BigThreshold < Wrap
        BY <1>1, <1>2, <1>5, PoolConstants
      <3> QED
        BY <3>1, <1>2, PoolConstants, RoundupWithin
    <2>3. SlotOf(size) = <<"Small", i * Footstep>>
      BY <2>1, <2>2, Zenon
    <2>4. SlotOf(size) \in Slots
      BY <2>3, Zenon DEF Slots
    <2>5. SlotOf(size)[2] = i * Footstep
      BY <2>3, SMT
    <2> QED
      BY <2>2, <2>4, <2>5, Zenon
  <1> QED
    BY <1>3, <1>4, <1>5, Zenon

(* A bulk request has a slot: no wrap makes it zero or smaller. *)
LEMMA NeedFits ==
  ASSUME NEW size \in 1 .. Wrap - PageSize
  PROVE  Roundup(size, PageSize) \in 1 .. Wrap - 1 /\ size <= Roundup(size, PageSize)
  <1> DEFINE last == Wrap - PageSize
             k == Wrap \div PageSize
  <1>1. k \in Nat /\ Wrap = k * PageSize
    <2>1. Wrap % PageSize = 0
      BY MemPoolAssumption, Zenon
    <2> QED
      BY <2>1, PoolConstants, DivMod, SMT
  <1>2. size \in Nat \ {0} /\ size <= last /\ last \in Nat /\ last < Wrap
    BY PoolConstants
  <1>3. k # 0
    <2> SUFFICES ASSUME k = 0 PROVE FALSE
      BY Zenon
    <2>1. Wrap = 0
      BY <1>1, PoolConstants
    <2> QED
      BY <2>1, PoolConstants
  <1> HIDE DEF k
  <1>4. last = (k - 1) * PageSize /\ k - 1 \in Nat
    BY <1>1, <1>3, PoolConstants, SMT
  <1>5. size <= Roundup(size, PageSize)
        /\ \E i \in 0 .. k - 1 : Roundup(size, PageSize) = i * PageSize
    <2> DEFINE j == k - 1
    <2>1. j \in Nat /\ size <= j * PageSize /\ j * PageSize < Wrap
      BY <1>2, <1>4
    <2> HIDE DEF j
    <2>2. NextMultiple(size, PageSize, j)
      BY <2>1, <1>2, PoolConstants, RoundupIsNext
    <2> QED
      BY <2>2, Zenon DEF j, NextMultiple
  <1>6. PICK i \in 0 .. k - 1 : Roundup(size, PageSize) = i * PageSize
    BY <1>5, Zenon
  <1>7. i * PageSize \in Nat /\ i * PageSize <= (k - 1) * PageSize
    <2>1. i \in Nat /\ i <= k - 1 /\ k - 1 \in Nat
      BY <1>4
    <2> QED
      BY <2>1, PoolConstants, MulMono
  <1> HIDE DEF last
  <1> DEFINE r == Roundup(size, PageSize)
  <1>8. r \in Nat /\ r <= last /\ size <= r
    BY <1>4, <1>5, <1>6, <1>7, Zenon
  <1> HIDE DEF r
  <1>9. r \in 1 .. Wrap - 1 /\ size <= r
    BY <1>2, <1>8, PoolConstants
  <1> QED
    BY <1>9, Zenon DEF r

(* The free list of each slot, by where it is kept. *)
ListsByTable ==
  /\ \A s \in Slots : Lists[s] = slots[s].objs
  /\ \A n \in 1 .. Wrap - 1 :
       Lists[Bulk(n)] = IF n \in DOMAIN hash THEN hash[n].objs ELSE Empty

(* The definition of Lists, table by table.                                *)
LEMMA ListsAre == ListsByTable
  <1>1. ASSUME NEW s \in Slots PROVE Lists[s] = slots[s].objs
    <2>1. s \in AllSlots
      BY Zenon DEF AllSlots
    <2>2. Lists[s] = ListOf(s)
      BY <2>1, Zenon DEF Lists
    <2> QED
      BY <2>2, Zenon DEF ListOf
  <1>2. ASSUME NEW n \in 1 .. Wrap - 1
        PROVE  Lists[Bulk(n)] = IF n \in DOMAIN hash THEN hash[n].objs ELSE Empty
    <2>1. Bulk(n) \in AllSlots /\ Bulk(n) \notin Slots /\ Bulk(n)[2] = n
      BY SlotNames, Zenon
    <2>2. Lists[Bulk(n)] = ListOf(Bulk(n))
      BY <2>1, Zenon DEF Lists
    <2> QED
      BY <2>1, <2>2, Zenon DEF ListOf
  <1> QED
    BY <1>1, <1>2, Zenon DEF ListsByTable

(* A slot is one of the fixed ones or a bulk slot.                         *)
LEMMA SlotIsFixedOrBulk ==
  ASSUME NEW s \in AllSlots
  PROVE  s \in Slots \/ \E n \in 1 .. Wrap - 1 : s = Bulk(n)
  BY Zenon DEF AllSlots, Bulks

(* Bulk slots of two sizes are two.                                        *)
LEMMA BulkIsInjective ==
  ASSUME NEW m, NEW n, Bulk(m) = Bulk(n) PROVE m = n
  BY SMT DEF Bulk

(* A step in one fixed slot. *)
LEMMA FixedSlotStep ==
  ASSUME NEW s \in Slots, NEW r, DOMAIN slots = Slots,
         slots' = [slots EXCEPT ![s] = r], hash' = hash
  PROVE  /\ DOMAIN slots' = Slots
         /\ slots'[s] = r /\ \A t \in Slots \ {s} : slots'[t] = slots[t]
         /\ Lists'[s] = r.objs
         /\ \A t \in AllSlots \ {s} : Lists'[t] = Lists[t]
  <1>1. DOMAIN slots' = Slots /\ slots'[s] = r /\ \A t \in Slots \ {s} : slots'[t] = slots[t]
    BY Zenon
  <1>2. /\ \A t \in Slots : Lists'[t] = slots'[t].objs
        /\ \A n \in 1 .. Wrap - 1 :
             Lists'[Bulk(n)] = IF n \in DOMAIN hash' THEN hash'[n].objs ELSE Empty
    <2>1. ListsByTable'
      BY ListsAre, PTL
    <2> QED
      BY <2>1, Zenon DEF ListsByTable
  <1>3. Lists'[s] = r.objs
    BY <1>1, <1>2, Zenon
  <1>4. ASSUME NEW t \in AllSlots \ {s} PROVE Lists'[t] = Lists[t]
    <2>1. CASE t \in Slots
      BY <2>1, <1>1, <1>2, ListsAre, Zenon DEF ListsByTable
    <2>2. ASSUME NEW n \in 1 .. Wrap - 1, t = Bulk(n) PROVE Lists'[t] = Lists[t]
      BY <2>2, <1>2, ListsAre, Zenon DEF ListsByTable
    <2> QED
      BY <2>1, <2>2, SlotIsFixedOrBulk, Zenon
  <1> QED
    BY <1>1, <1>3, <1>4, Zenon

(* A step in one bulk slot. *)
LEMMA BulkSlotStep ==
  ASSUME NEW n \in 1 .. Wrap - 1, slots' = slots,
         \A k \in (DOMAIN hash \cup DOMAIN hash') \ {n} :
           k \in DOMAIN hash /\ k \in DOMAIN hash' /\ hash'[k] = hash[k]
  PROVE  /\ Lists'[Bulk(n)] = IF n \in DOMAIN hash' THEN hash'[n].objs ELSE Empty
         /\ \A t \in AllSlots \ {Bulk(n)} : Lists'[t] = Lists[t]
  <1>1. /\ \A t \in Slots : Lists'[t] = slots'[t].objs
        /\ \A k \in 1 .. Wrap - 1 :
             Lists'[Bulk(k)] = IF k \in DOMAIN hash' THEN hash'[k].objs ELSE Empty
    <2>1. ListsByTable'
      BY ListsAre, PTL
    <2> QED
      BY <2>1, Zenon DEF ListsByTable
  <1>2. ASSUME NEW t \in AllSlots \ {Bulk(n)} PROVE Lists'[t] = Lists[t]
    <2>1. CASE t \in Slots
      BY <2>1, <1>1, ListsAre, Zenon DEF ListsByTable
    <2>2. ASSUME NEW k \in 1 .. Wrap - 1, t = Bulk(k) PROVE Lists'[t] = Lists[t]
      <3>1. k # n
        BY <2>2, Zenon
      <3>2. CASE k \in DOMAIN hash
        BY <3>1, <3>2, <2>2, <1>1, ListsAre, ZenonT(30) DEF ListsByTable
      <3>3. CASE k \notin DOMAIN hash
        BY <3>1, <3>3, <2>2, <1>1, ListsAre, Zenon DEF ListsByTable
      <3> QED
        BY <3>2, <3>3, Zenon
    <2> QED
      BY <2>1, <2>2, SlotIsFixedOrBulk, Zenon
  <1> QED
    BY <1>1, <1>2, Zenon

-----------------------------------------------------------------------------
(* A list stays exact, and without a page to release, through each change. *)

(* A page has no more free objects than objects.                           *)
LEMMA CardinalityInPage ==
  ASSUME NEW n \in Nat, NEW S, NEW T, S \subseteq 1 .. n, T \subseteq S
  PROVE  /\ Cardinality(S) \in Nat /\ Cardinality(S) <= n
         /\ Cardinality(T) \in Nat /\ Cardinality(T) <= Cardinality(S)
  <1>1. IsFiniteSet(1 .. n) /\ Cardinality(1 .. n) = n
    BY FS_Interval
  <1>2. IsFiniteSet(S) /\ Cardinality(S) <= Cardinality(1 .. n)
    BY <1>1, FS_Subset, Zenon
  <1>3. IsFiniteSet(T) /\ Cardinality(T) <= Cardinality(S)
    BY <1>2, FS_Subset, Zenon
  <1>4. Cardinality(S) \in Nat /\ Cardinality(T) \in Nat
    BY <1>2, <1>3, FS_CardinalityType, Zenon
  <1> QED
    BY <1>1, <1>2, <1>3, <1>4, Zenon

(* Get from a list keeps its count exact.                                  *)
LEMMA KeptTake ==
  ASSUME NEW s \in AllSlots, NEW r, NEW q, Kept(r, s), IsList(r.objs, PageObjs(s)),
         NEW p \in DOMAIN r.objs, q.objs = TakeFrom(r.objs, p), q.cnt = r.cnt - 1
  PROVE  Kept(q, s)
  <1> DEFINE n == PageObjs(s)
  <1>1. n \in Nat /\ Limit(s) \in Nat
    BY PageCounts
  <1>2. /\ r.cnt \in Nat /\ r.cnt = CountOf(r.objs)
        /\ r.cnt >= Limit(s) /\ s # Bulk(ReserveMax) =>
             \A x \in DOMAIN r.objs : Cardinality(r.objs[x]) < n
    BY Zenon DEF Kept
  <1> HIDE DEF n
  <1>3. IsList(r.objs, n)
    BY Zenon DEF n
  <1>4. TakesOne(r.objs, p, n)
    BY <1>1, <1>3, TakeFromList, Zenon
  <1>5. /\ DOMAIN q.objs \subseteq DOMAIN r.objs
        /\ \A x \in DOMAIN q.objs : q.objs[x] \subseteq r.objs[x]
        /\ CountOf(q.objs) = CountOf(r.objs) - 1 /\ CountOf(r.objs) > 0
    BY <1>4, Zenon DEF TakesOne
  <1>6. q.cnt \in Nat /\ q.cnt = CountOf(q.objs) /\ (q.cnt >= Limit(s) => r.cnt >= Limit(s))
    BY <1>1, <1>2, <1>5
  <1>7. ASSUME q.cnt >= Limit(s), s # Bulk(ReserveMax), NEW x \in DOMAIN q.objs
        PROVE  Cardinality(q.objs[x]) < n
    <2>1. x \in DOMAIN r.objs /\ q.objs[x] \subseteq r.objs[x] /\ r.objs[x] \subseteq 1 .. n
      BY <1>3, <1>5, Zenon DEF IsList
    <2>2. /\ Cardinality(r.objs[x]) \in Nat /\ Cardinality(q.objs[x]) \in Nat
          /\ Cardinality(q.objs[x]) <= Cardinality(r.objs[x])
      BY <1>1, <2>1, CardinalityInPage, Zenon
    <2>3. Cardinality(r.objs[x]) < n
      BY <1>2, <1>6, <1>7, <2>1, Zenon
    <2> QED
      BY <2>2, <2>3, <1>1
  <1> QED
    BY <1>6, <1>7, Zenon DEF Kept, n

(* So does Get from a new page.                                            *)
LEMMA KeptTakeNew ==
  ASSUME NEW s \in AllSlots, NEW p \in Pages, NEW q,
         q.objs = TakeFrom(NewObjs(s, p), p), q.cnt = PageObjs(s) - 1
  PROVE  Kept(q, s)
  <1> DEFINE n == PageObjs(s)
  <1>1. n \in Nat \ {0} /\ Limit(s) \in Nat /\ n <= Limit(s)
    BY PageCounts
  <1>2. /\ DOMAIN NewObjs(s, p) = {p} /\ IsList(NewObjs(s, p), n)
        /\ CountOf(NewObjs(s, p)) = n
    BY NewPageList, Zenon
  <1> HIDE DEF n
  <1>3. TakesOne(NewObjs(s, p), p, n)
    BY <1>1, <1>2, TakeFromList
  <1>4. CountOf(q.objs) = n - 1 /\ q.cnt = n - 1
    BY <1>2, <1>3, Zenon DEF TakesOne, n
  <1>5. q.cnt \in Nat /\ q.cnt = CountOf(q.objs) /\ ~(q.cnt >= Limit(s))
    BY <1>1, <1>4
  <1> QED
    BY <1>5, Zenon DEF Kept

Reserved(s) == s[1] # "Bulk" \/ s[2] <= ReserveMax

(* put keeps it, and releases nothing when no page is free as a whole.     *)
LEMMA KeptPut ==
  ASSUME NEW s \in AllSlots, Reserved(s),
         NEW r, NEW q, Kept(r, s), IsList(r.objs, PageObjs(s)),
         NEW p \in Pages, NEW o \in 1 .. PageObjs(s), <<p, o>> \notin FreeIn(r.objs),
         q.objs = PutBack(r.objs, p, o), q.cnt = r.cnt + 1,
         q.cnt < Limit(s) \/ Whole(q.objs, OnePageObjs(s)) = {}
  PROVE  Kept(q, s)
  <1> DEFINE n == PageObjs(s)
  <1>1. n \in Nat /\ Limit(s) \in Nat
    BY PageCounts
  <1>2. r.cnt \in Nat /\ r.cnt = CountOf(r.objs)
    BY Zenon DEF Kept
  <1>3. AddsOne(r.objs, p, o, n)
    BY <1>1, PutBackInList, Zenon
  <1>4. IsList(q.objs, n) /\ CountOf(q.objs) = CountOf(r.objs) + 1
    BY <1>3, Zenon DEF AddsOne
  <1>5. q.cnt \in Nat /\ q.cnt = CountOf(q.objs)
    BY <1>2, <1>4
  <1>6. ASSUME q.cnt >= Limit(s), s # Bulk(ReserveMax), NEW x \in DOMAIN q.objs
        PROVE  Cardinality(q.objs[x]) < n
    <2>1. OnePageObjs(s) = n
      <3>1. s[1] = "Bulk" /\ s[2] = ReserveMax => s = Bulk(ReserveMax)
        BY SlotTypes, SlotNames, Zenon
      <3>2. s[1] # "Bulk" \/ s[2] < ReserveMax
        <4>1. s[2] \in Nat
          BY PageCounts
        <4> QED
          BY <4>1, <3>1, <1>6, PoolConstants DEF Reserved
      <3> QED
        BY <3>2, PageCounts, Zenon
    <2>2. Whole(q.objs, n) = {}
      <3>1. ~(q.cnt < Limit(s))
        BY <1>6, <1>5, <1>1
      <3> QED
        BY <3>1, <2>1, Zenon
    <2> HIDE DEF n
    <2>3. Cardinality(q.objs[x]) # n
      BY <2>2, Zenon DEF Whole
    <2>4. q.objs[x] \subseteq 1 .. n
      BY <1>4, <1>6, Zenon DEF IsList
    <2>5. Cardinality(q.objs[x]) \in Nat /\ Cardinality(q.objs[x]) <= n
      BY <1>1, <2>4, CardinalityInPage, Zenon
    <2> QED
      BY <2>3, <2>5, <1>1
  <1> QED
    BY <1>5, <1>6, Zenon DEF Kept

(* List q is what is left of list b when page w, free as a whole, goes. *)
Releases(b, w, q, s) ==
  /\ Kept(q, s)
  /\ IsList(b.objs, PageObjs(s)) /\ w \in DOMAIN b.objs /\ b.objs[w] = 1 .. PageObjs(s)

(* After put above the limit has released a page, no other is to release.  *)
LEMMA KeptRelease ==
  ASSUME NEW s \in AllSlots,
         NEW r, NEW b, NEW q, Kept(r, s), IsList(r.objs, PageObjs(s)),
         NEW p \in Pages, NEW o \in 1 .. PageObjs(s), <<p, o>> \notin FreeIn(r.objs),
         b.objs = PutBack(r.objs, p, o), b.cnt = r.cnt + 1, b.cnt >= Limit(s),
         NEW w \in Whole(b.objs, OnePageObjs(s)),
         q.objs = Without(b.objs, w), q.cnt = b.cnt - OnePageObjs(s)
  PROVE  Releases(b, w, q, s)
  <1> DEFINE n == PageObjs(s)
             k == OnePageObjs(s)
  <1>1. n \in Nat /\ Limit(s) \in Nat /\ k \in Nat \ {0} /\ n <= k
    BY PageCounts
  <1>2. /\ r.cnt \in Nat /\ r.cnt = CountOf(r.objs)
        /\ r.cnt >= Limit(s) /\ s # Bulk(ReserveMax) =>
             \A x \in DOMAIN r.objs : Cardinality(r.objs[x]) < n
    BY Zenon DEF Kept
  <1>3. AddsOne(r.objs, p, o, n)
    BY <1>1, PutBackInList, Zenon
  <1>4. /\ IsList(b.objs, n) /\ CountOf(b.objs) = CountOf(r.objs) + 1
        /\ DOMAIN b.objs = DOMAIN r.objs \cup {p}
        /\ \A x \in DOMAIN r.objs : x # p => b.objs[x] = r.objs[x]
    BY <1>3, Zenon DEF AddsOne
  <1>5. w \in DOMAIN b.objs /\ b.objs[w] = 1 .. n /\ Cardinality(b.objs[w]) = k
    BY <1>4, WholePage, Zenon
  <1> HIDE DEF n, k
  <1>6. DropsPage(b.objs, w, n)
    BY <1>1, <1>4, <1>5, PageLeavesList, Zenon
  <1>7. /\ DOMAIN q.objs = DOMAIN b.objs \ {w}
        /\ \A x \in DOMAIN b.objs : x # w => q.objs[x] = b.objs[x]
        /\ CountOf(q.objs) = CountOf(b.objs) - k /\ CountOf(q.objs) \in Nat
    BY <1>5, <1>6, Zenon DEF DropsPage
  <1>8. q.cnt = b.cnt - k
    BY Zenon DEF k
  <1>9. /\ q.cnt \in Nat /\ q.cnt = CountOf(q.objs)
        /\ q.cnt >= Limit(s) => r.cnt >= Limit(s)
    BY <1>1, <1>2, <1>4, <1>7, <1>8
  <1>10. ASSUME q.cnt >= Limit(s), s # Bulk(ReserveMax), NEW x \in DOMAIN q.objs
         PROVE  Cardinality(q.objs[x]) < n
    <2>1. \A y \in DOMAIN r.objs : Cardinality(r.objs[y]) < n
      BY <1>2, <1>9, <1>10, Zenon
    <2>2. w = p
      <3> SUFFICES ASSUME w # p PROVE FALSE
        BY Zenon
      <3>1. w \in DOMAIN r.objs /\ b.objs[w] = r.objs[w]
        BY <1>4, <1>5, Zenon
      <3>2. k < n
        BY <3>1, <2>1, <1>5, Zenon
      <3> QED
        BY <3>2, <1>1
    <2>3. x \in DOMAIN r.objs /\ q.objs[x] = r.objs[x]
      BY <2>2, <1>4, <1>7, <1>10, Zenon
    <2> QED
      BY <2>1, <2>3, Zenon
  <1> QED
    BY <1>4, <1>5, <1>9, <1>10, Zenon DEF Kept, n, Releases

(* The size that is asked for.                                             *)
LEMMA RequestIs ==
  ASSUME TablesInv, NEW size \in requests
  PROVE  size \in Nat \ {0} /\ size \in 1 .. Wrap - PageSize
  <1>1. requests \in SizeSets
    BY Zenon DEF TablesInv
  <1>2. \A sizes \in SizeSets : sizes \subseteq 1 .. Wrap - PageSize
    BY MemPoolAssumption, Zenon
  <1>3. size \in 1 .. Wrap - PageSize
    BY <1>1, <1>2, Zenon
  <1> QED
    BY <1>3, PoolConstants

(* A slot's list has pages of that slot alone.                             *)
LEMMA ListIs ==
  ASSUME InUse, NEW s \in AllSlots
  PROVE  /\ IsList(Lists[s], PageObjs(s))
         /\ \A p \in DOMAIN Lists[s] : p \in DOMAIN heap /\ heap[p] = s
  BY Zenon DEF InUse, Apart, ListOfSlot

(* An object in use is on a page of its slot and is not free.              *)
LEMMA HeldIs ==
  ASSUME InUse, NEW h \in held
  PROVE  /\ h.slot \in AllSlots /\ h.page \in DOMAIN heap /\ h.page \in Pages
         /\ heap[h.page] = h.slot
         /\ h.obj \in 1 .. PageObjs(h.slot) /\ <<h.page, h.obj>> \notin FreeIn(Lists[h.slot])
  BY Zenon DEF InUse, Apart, ObjectInUse

(* The system gives a page that is not in use.                             *)
LEMMA NewPageIs ==
  ASSUME CanAllocate
  PROVE  NewPage \in Pages /\ NewPage \notin DOMAIN heap
  <1>1. NewPage \in (1 .. MaxPages) \ DOMAIN heap
    BY SomeIsIn, Zenon DEF CanAllocate, NewPage
  <1> QED
    BY <1>1, Zenon DEF Pages

(* In a step that gets or puts in a fixed slot the bulk slots stay.        *)
LEMMA FixedStepTables ==
  ASSUME Working, NEW s \in Slots, NEW r, Kept(r, s),
         slots' = [slots EXCEPT ![s] = r],
         UNCHANGED <<requests, bulkVars, crashed, destroyed>>
  PROVE  TablesInv' /\ KeptInv' /\ TreeInv'
  <1>1. UNCHANGED <<bulkPages, hash, tree, emptied>>
    BY Zenon DEF bulkVars
  <1>2. /\ DOMAIN slots' = Slots
        /\ slots'[s] = r /\ \A t \in Slots \ {s} : slots'[t] = slots[t]
    BY <1>1, FixedSlotStep, Zenon DEF Working, TablesInv
  <1>3. TablesInv'
    BY <1>1, <1>2, Zenon DEF Working, TablesInv
  <1>4. KeptInv'
    <2>1. \A t \in Slots : Kept(slots'[t], t)
      BY <1>2, Zenon DEF Working, KeptInv
    <2>2. \A n \in DOMAIN hash' : Kept(hash'[n], Bulk(n))
      BY <1>1, Zenon DEF Working, KeptInv
    <2> QED
      BY <2>1, <2>2, Zenon DEF KeptInv
  <1>5. TreeInv'
    BY <1>1, Zenon DEF Working, TreeInv
  <1> QED
    BY <1>3, <1>4, <1>5, Zenon

(* The pages of a fixed slot may change by pages of the heap. *)
LEMMA FixedStepPages ==
  ASSUME PagesInv, DOMAIN slots = Slots, NEW s \in Slots, NEW r,
         slots' = [slots EXCEPT ![s] = r], bulkPages' = bulkPages, forgotten' = forgotten,
         \A p \in DOMAIN heap' : heap'[p] = s \/ (p \in DOMAIN heap /\ heap'[p] = heap[p]),
         \A p \in DOMAIN heap : heap[p] = s \/ (p \in DOMAIN heap' /\ heap'[p] = heap[p]),
         r.pages = {p \in DOMAIN heap' : heap'[p] = s}
  PROVE  PagesInv'
  <1>1. s \in AllSlots /\ \A n \in 1 .. Wrap - 1 : s # Bulk(n)
    BY SlotNames, Zenon DEF AllSlots
  <1>2. s \notin Bulks
    BY SlotNames, Zenon
  <1>3. \A p \in DOMAIN heap' : heap'[p] \in AllSlots
    BY <1>1, Zenon DEF PagesInv
  <1>4. ASSUME NEW t \in Slots PROVE slots'[t].pages = {p \in DOMAIN heap' : heap'[p] = t}
    <2>1. CASE t = s
      BY <2>1, Zenon
    <2>2. CASE t # s
      <3>1. slots'[t] = slots[t]
        BY <2>2, Zenon
      <3>2. slots[t].pages = {p \in DOMAIN heap : heap[p] = t}
        BY Zenon DEF PagesInv
      <3>3. \A p : (p \in DOMAIN heap /\ heap[p] = t) <=> (p \in DOMAIN heap' /\ heap'[p] = t)
        BY <2>2, Zenon
      <3>4. {p \in DOMAIN heap : heap[p] = t} = {p \in DOMAIN heap' : heap'[p] = t}
        BY <3>3, Zenon
      <3> QED
        BY <3>1, <3>2, <3>4, Zenon
    <2> QED
      BY <2>1, <2>2, Zenon
  <1>5. ASSUME NEW n \in 1 .. Wrap - 1
        PROVE  PagesOf(n)' = {p \in DOMAIN heap' : heap'[p] = Bulk(n)} \ forgotten'
    <2>1. PagesOf(n)' = PagesOf(n)
      BY Zenon DEF PagesOf
    <2>2. PagesOf(n) = {p \in DOMAIN heap : heap[p] = Bulk(n)} \ forgotten
      BY Zenon DEF PagesInv
    <2>3. \A p : (p \in DOMAIN heap /\ heap[p] = Bulk(n))
                   <=> (p \in DOMAIN heap' /\ heap'[p] = Bulk(n))
      BY <1>1, Zenon
    <2>4. {p \in DOMAIN heap : heap[p] = Bulk(n)} = {p \in DOMAIN heap' : heap'[p] = Bulk(n)}
      BY <2>3, Zenon
    <2> QED
      BY <2>1, <2>2, <2>4, Zenon
  <1>6. forgotten' \subseteq {p \in DOMAIN heap' : heap'[p] \in Bulks}
    BY <1>2, Zenon DEF PagesInv
  <1> QED
    BY <1>3, <1>4, <1>5, <1>6, Zenon DEF PagesInv

(* Get from a fixed slot, with a free object or with a new page.           *)
LEMMA GetFixedStep ==
  ASSUME Working, NEW size \in requests, GetFixed(size)
  PROVE  Working'
  <1> DEFINE s == SlotOf(size)
  <1>1. TablesInv /\ InUse /\ PagesInv /\ KeptInv /\ DOMAIN slots = Slots
    BY Zenon DEF Working, TablesInv
  <1>2. size \in Nat \ {0} /\ size <= BulkThreshold
    BY <1>1, RequestIs, Zenon DEF GetFixed
  <1>3. s \in Slots /\ s \in AllSlots /\ size <= s[2]
    BY <1>2, SlotOfFits, Zenon DEF AllSlots
  <1> DEFINE fresh == [pages |-> slots[s].pages \cup {NewPage},
                       objs |-> NewObjs(s, NewPage), cnt |-> PageObjs(s)]
             after(from, p) == [pages |-> from.pages, objs |-> TakeFrom(from.objs, p),
                                cnt |-> from.cnt - 1]
  <1>4. \/ Take(size, s, slots[s]) /\ heap' = heap
        \/ CanAllocate /\ slots[s].objs = Empty /\ Take(size, s, fresh)
           /\ heap' = With(heap, NewPage, s)
    BY Zenon DEF GetFixed
  <1> HIDE DEF s, fresh
  <1>5. ASSUME NEW from, Take(size, s, from)
        PROVE  /\ \E p \in DOMAIN from.objs :
                    /\ slots' = [slots EXCEPT ![s] = after(from, p)]
                    /\ held' = held \cup {Object(s, from.objs, p, size)}
               /\ UNCHANGED <<requests, bulkVars, crashed, destroyed>>
    BY <1>5, Zenon DEF Take
  <1>6. ASSUME UNCHANGED <<requests, bulkVars, crashed, destroyed>>
        PROVE  bulkPages' = bulkPages /\ hash' = hash /\ forgotten' = forgotten
    BY <1>6, Zenon DEF bulkVars
  <1>7. CASE Take(size, s, slots[s]) /\ heap' = heap
    <2>1. PICK p \in DOMAIN slots[s].objs :
            /\ slots' = [slots EXCEPT ![s] = after(slots[s], p)]
            /\ held' = held \cup {Object(s, slots[s].objs, p, size)}
            /\ UNCHANGED <<requests, bulkVars, crashed, destroyed>>
      BY <1>5, <1>7, Zenon
    <2>2. Lists[s] = slots[s].objs
      BY <1>3, ListsAre, Zenon DEF ListsByTable
    <2>3. IsList(slots[s].objs, PageObjs(s))
      BY <1>1, <1>3, <2>2, ListIs, Zenon
    <2> DEFINE r == after(slots[s], p)
    <2>4. /\ r.pages = slots[s].pages /\ r.objs = TakeFrom(slots[s].objs, p)
          /\ r.cnt = slots[s].cnt - 1
      BY Zenon
    <2> HIDE DEF after
    <2>5. Kept(r, s)
      BY <1>1, <1>3, <2>3, <2>4, KeptTake, Zenon DEF KeptInv
    <2>6. TablesInv' /\ KeptInv' /\ TreeInv'
      BY <1>3, <2>1, <2>5, FixedStepTables, Zenon
    <2>7. Lists'[s] = TakeFrom(Lists[s], p) /\ \A t \in AllSlots \ {s} : Lists'[t] = Lists[t]
      BY <1>1, <1>3, <1>6, <2>1, <2>2, <2>4, FixedSlotStep, Zenon
    <2>8. Apart(Lists', heap, held')
      BY <1>1, <1>3, <2>1, <2>2, <2>7, ApartTake, ZenonT(30) DEF InUse
    <2>9. PagesInv'
      <3>1. r.pages = {q \in DOMAIN heap' : heap'[q] = s}
        BY <1>1, <1>3, <1>7, <2>4, Zenon DEF PagesInv
      <3> QED
        BY <1>1, <1>3, <1>6, <1>7, <2>1, <3>1, FixedStepPages, Zenon
    <2> QED
      BY <1>7, <2>6, <2>8, <2>9, Zenon DEF Working, InUse
  <1>8. CASE CanAllocate /\ slots[s].objs = Empty /\ Take(size, s, fresh)
             /\ heap' = With(heap, NewPage, s)
    <2> DEFINE page == NewPage
    <2>1. page \in Pages /\ page \notin DOMAIN heap
      BY <1>8, NewPageIs, Zenon
    <2>2. /\ fresh.pages = slots[s].pages \cup {page} /\ fresh.objs = NewObjs(s, page)
          /\ fresh.cnt = PageObjs(s)
      BY Zenon DEF fresh
    <2> HIDE DEF page
    <2>3. DOMAIN NewObjs(s, page) = {page}
      BY <1>3, <2>1, NewPageList, Zenon
    <2>4. /\ slots' = [slots EXCEPT ![s] = after(fresh, page)]
          /\ held' = held \cup {Object(s, NewObjs(s, page), page, size)}
          /\ UNCHANGED <<requests, bulkVars, crashed, destroyed>>
      BY <1>5, <1>8, <2>2, <2>3, Zenon
    <2> DEFINE r == after(fresh, page)
    <2>5. /\ r.pages = slots[s].pages \cup {page} /\ r.objs = TakeFrom(NewObjs(s, page), page)
          /\ r.cnt = PageObjs(s) - 1
      BY <2>2, Zenon
    <2> HIDE DEF after
    <2>6. Kept(r, s)
      BY <1>3, <2>1, <2>5, KeptTakeNew, Zenon
    <2>7. TablesInv' /\ KeptInv' /\ TreeInv'
      BY <1>3, <2>4, <2>6, FixedStepTables, Zenon
    <2>8. /\ Lists'[s] = TakeFrom(NewObjs(s, page), page)
          /\ \A t \in AllSlots \ {s} : Lists'[t] = Lists[t]
      BY <1>1, <1>3, <1>6, <2>4, <2>5, FixedSlotStep, Zenon
    <2>9. Apart(Lists', heap', held')
      <3> DEFINE M == [t \in AllSlots |-> IF t = s THEN NewObjs(s, page) ELSE Lists[t]]
      <3>1. M[s] = NewObjs(s, page) /\ \A t \in AllSlots \ {s} : M[t] = Lists[t]
        BY <1>3, Zenon
      <3> HIDE DEF M
      <3>2. DOMAIN Lists[s] = {}
        BY <1>3, <1>8, ListsAre, EmptyIs, Zenon DEF ListsByTable
      <3>3. Apart(M, heap', held)
        BY <1>1, <1>3, <1>8, <2>1, <3>1, <3>2, ApartNewPage, ZenonT(30) DEF InUse, page
      <3>4. page \in DOMAIN M[s]
        BY <2>3, <3>1, Zenon
      <3>5. Lists'[s] = TakeFrom(M[s], page) /\ \A t \in AllSlots \ {s} : Lists'[t] = M[t]
        BY <2>8, <3>1, Zenon
      <3>6. Apart(Lists', heap', held \cup {Object(s, M[s], page, size)})
        BY <1>3, <3>3, <3>4, <3>5, ApartTake, ZenonT(30)
      <3> QED
        BY <2>4, <3>1, <3>6, Zenon
    <2>10. /\ DOMAIN heap' = DOMAIN heap \cup {page} /\ heap'[page] = s
           /\ \A q \in DOMAIN heap : q # page => heap'[q] = heap[q]
      BY <1>8, Zenon DEF With, page
    <2>11. r.pages = {q \in DOMAIN heap' : heap'[q] = s}
      <3>1. slots[s].pages = {q \in DOMAIN heap : heap[q] = s}
        BY <1>1, <1>3, Zenon DEF PagesInv
      <3> QED
        BY <3>1, <2>1, <2>5, <2>10, Zenon
    <2>12. PagesInv'
      <3>1. /\ \A q \in DOMAIN heap' : heap'[q] = s \/ (q \in DOMAIN heap /\ heap'[q] = heap[q])
            /\ \A q \in DOMAIN heap : heap[q] = s \/ (q \in DOMAIN heap' /\ heap'[q] = heap[q])
        BY <2>1, <2>10, Zenon
      <3> QED
        BY <1>1, <1>3, <1>6, <2>4, <2>11, <3>1, FixedStepPages, Zenon
    <2> QED
      BY <2>7, <2>9, <2>12, Zenon DEF Working, InUse
  <1> QED
    BY <1>4, <1>7, <1>8, Zenon

(* put to a fixed slot, with or without the release of a page.             *)
LEMMA PutFixedStep ==
  ASSUME Working, NEW h \in held, PutFixed(h)
  PROVE  Working'
  <1> DEFINE s == h.slot
             p == h.page
             o == h.obj
             b == [pages |-> slots[s].pages, objs |-> PutBack(slots[s].objs, p, o),
                   cnt |-> slots[s].cnt + 1]
             whole == Whole(b.objs, OnePageObjs(s))
             after(w) == ReleasePage(b, w, OnePageObjs(s))
  <1>1. TablesInv /\ InUse /\ PagesInv /\ KeptInv /\ DOMAIN slots = Slots
    BY Zenon DEF Working, TablesInv
  <1>2. /\ s \in AllSlots /\ p \in DOMAIN heap /\ p \in Pages /\ heap[p] = s
        /\ o \in 1 .. PageObjs(s) /\ <<p, o>> \notin FreeIn(Lists[s])
    BY <1>1, HeldIs, Zenon
  <1>3. /\ s[1] # "Bulk" /\ held' = held \ {h}
        /\ UNCHANGED <<requests, bulkVars, crashed, destroyed>>
        /\ \/ /\ b.cnt < Limit(s) \/ whole = {}
              /\ slots' = [slots EXCEPT ![s] = b]
              /\ heap' = heap
           \/ /\ b.cnt >= Limit(s)
              /\ \E w \in whole :
                   /\ slots' = [slots EXCEPT ![s] = after(w)]
                   /\ heap' = Without(heap, w)
    BY Zenon DEF PutFixed
  <1> HIDE DEF s, p, o
  <1>4. s \in Slots
    BY <1>2, <1>3, SlotNames, Zenon DEF AllSlots
  <1>5. bulkPages' = bulkPages /\ hash' = hash /\ forgotten' = forgotten
    BY <1>3, Zenon DEF bulkVars
  <1>6. /\ b.pages = slots[s].pages /\ b.objs = PutBack(slots[s].objs, p, o)
        /\ b.cnt = slots[s].cnt + 1
    BY Zenon
  <1>7. \A w : /\ after(w).pages = b.pages \ {w} /\ after(w).objs = Without(b.objs, w)
               /\ after(w).cnt = b.cnt - OnePageObjs(s)
    BY Zenon DEF ReleasePage
  <1> HIDE DEF b, after
  <1>8. Lists[s] = slots[s].objs
    BY <1>4, ListsAre, Zenon DEF ListsByTable
  <1>9. /\ IsList(slots[s].objs, PageObjs(s)) /\ <<p, o>> \notin FreeIn(slots[s].objs)
        /\ Kept(slots[s], s)
    BY <1>1, <1>2, <1>4, <1>8, ListIs, Zenon DEF KeptInv
  <1>10. Reserved(s)
    BY <1>3, Zenon DEF Reserved
  <1>11. slots[s].pages = {q \in DOMAIN heap : heap[q] = s}
    BY <1>1, <1>4, Zenon DEF PagesInv
  <1>12. CASE /\ b.cnt < Limit(s) \/ whole = {}
              /\ slots' = [slots EXCEPT ![s] = b]
              /\ heap' = heap
    <2>1. Kept(b, s)
      BY <1>2, <1>6, <1>9, <1>10, <1>12, KeptPut, Zenon
    <2>2. TablesInv' /\ KeptInv' /\ TreeInv'
      BY <1>3, <1>4, <1>12, <2>1, FixedStepTables, Zenon
    <2>3. Lists'[s] = PutBack(Lists[s], p, o) /\ \A t \in AllSlots \ {s} : Lists'[t] = Lists[t]
      BY <1>1, <1>4, <1>5, <1>6, <1>8, <1>12, FixedSlotStep, Zenon
    <2>4. Apart(Lists', heap, held')
      BY <1>1, <1>3, <2>3, ApartPut, ZenonT(30) DEF InUse, s, p, o
    <2>5. PagesInv'
      <3>1. b.pages = {q \in DOMAIN heap' : heap'[q] = s}
        BY <1>6, <1>11, <1>12, Zenon
      <3> QED
        BY <1>1, <1>4, <1>5, <1>12, <3>1, FixedStepPages, Zenon
    <2> QED
      BY <1>12, <2>2, <2>4, <2>5, Zenon DEF Working, InUse
  <1>13. CASE /\ b.cnt >= Limit(s)
              /\ \E w \in whole :
                   /\ slots' = [slots EXCEPT ![s] = after(w)]
                   /\ heap' = Without(heap, w)
    <2>1. PICK w \in whole : slots' = [slots EXCEPT ![s] = after(w)] /\ heap' = Without(heap, w)
      BY <1>13, Zenon
    <2> DEFINE r == after(w)
    <2>2. /\ r.pages = b.pages \ {w} /\ r.objs = Without(b.objs, w)
          /\ r.cnt = b.cnt - OnePageObjs(s)
      BY <1>7, Zenon
    <2>3. slots' = [slots EXCEPT ![s] = r]
      BY <2>1, Zenon
    <2> HIDE DEF r
    <2>4. /\ Kept(r, s)
          /\ IsList(b.objs, PageObjs(s)) /\ w \in DOMAIN b.objs /\ b.objs[w] = 1 .. PageObjs(s)
      <3>1. w \in Whole(b.objs, OnePageObjs(s)) /\ b.cnt >= Limit(s)
        BY <1>13, Zenon
      <3>2. Releases(b, w, r, s)
        BY <1>2, <1>6, <1>9, <2>2, <3>1, KeptRelease, Zenon
      <3> QED
        BY <3>2, Zenon DEF Releases
    <2>5. TablesInv' /\ KeptInv' /\ TreeInv'
      BY <1>3, <1>4, <2>3, <2>4, FixedStepTables, Zenon
    <2>6. Lists'[s] = Without(b.objs, w) /\ \A t \in AllSlots \ {s} : Lists'[t] = Lists[t]
      BY <1>1, <1>4, <1>5, <2>2, <2>3, FixedSlotStep, Zenon
    <2> DEFINE M == [t \in AllSlots |-> IF t = s THEN b.objs ELSE Lists[t]]
    <2>7. M[s] = b.objs /\ \A t \in AllSlots \ {s} : M[t] = Lists[t]
      BY <1>2, Zenon
    <2> HIDE DEF M
    <2>8. Apart(M, heap, held')
      <3>1. M[s] = PutBack(Lists[s], p, o)
        BY <1>6, <1>8, <2>7, Zenon
      <3> QED
        BY <1>1, <1>3, <2>7, <3>1, ApartPut, ZenonT(30) DEF InUse, s, p, o
    <2>9. Apart(Lists', heap', held')
      <3>1. w \in DOMAIN M[s] /\ M[s][w] = 1 .. PageObjs(s)
        BY <2>4, <2>7, Zenon
      <3>2. Lists'[s] = Without(M[s], w) /\ \A t \in AllSlots \ {s} : Lists'[t] = M[t]
        BY <2>6, <2>7, Zenon
      <3> QED
        BY <1>2, <2>1, <2>8, <3>1, <3>2, ApartRelease, ZenonT(30)
    <2>10. DOMAIN heap' = DOMAIN heap \ {w} /\ \A q \in DOMAIN heap : q # w => heap'[q] = heap[q]
      BY <2>1, Zenon DEF Without
    <2>11. heap[w] = s
      <3>1. \A q \in DOMAIN M[s] : heap[q] = s
        BY <1>2, <2>8, Zenon DEF Apart, ListOfSlot
      <3> QED
        BY <3>1, <2>4, <2>7, Zenon
    <2>12. PagesInv'
      <3>1. r.pages = {q \in DOMAIN heap' : heap'[q] = s}
        BY <1>6, <1>11, <2>2, <2>10, ZenonT(30)
      <3>2. /\ \A q \in DOMAIN heap' : heap'[q] = s \/ (q \in DOMAIN heap /\ heap'[q] = heap[q])
            /\ \A q \in DOMAIN heap : heap[q] = s \/ (q \in DOMAIN heap' /\ heap'[q] = heap[q])
        BY <2>10, <2>11, Zenon
      <3> QED
        BY <1>1, <1>4, <1>5, <2>3, <3>1, <3>2, FixedStepPages, Zenon
    <2> QED
      BY <2>5, <2>9, <2>12, Zenon DEF Working, InUse
  <1> QED
    BY <1>3, <1>12, <1>13, Zenon

(* A map without keys is the empty map, which the code tests for.          *)
LEMMA NoDomainIsEmpty ==
  /\ \A f, k : DOMAIN Without(f, k) = {} => Without(f, k) = Empty
  /\ \A f, k, v : DOMAIN With(f, k, v) # {} /\ With(f, k, v) # Empty
  /\ \A objs, p : DOMAIN TakeFrom(objs, p) = {} => TakeFrom(objs, p) = Empty
  <1>1. ASSUME NEW f, NEW k, DOMAIN Without(f, k) = {} PROVE Without(f, k) = Empty
    <2>1. DOMAIN f \ {k} = {}
      BY <1>1, Zenon DEF Without
    <2>2. Without(f, k) = [x \in {} |-> f[x]]
      BY <2>1, Zenon DEF Without
    <2>3. [x \in {} |-> f[x]] = [x \in {} |-> {}]
      BY Zenon
    <2> QED
      BY <2>2, <2>3, Zenon DEF Empty
  <1>2. ASSUME NEW f, NEW k, NEW v PROVE DOMAIN With(f, k, v) # {} /\ With(f, k, v) # Empty
    <2>1. k \in DOMAIN With(f, k, v)
      BY Zenon DEF With
    <2> QED
      BY <2>1, EmptyIs, Zenon
  <1> QED
    BY <1>1, <1>2, Zenon DEF TakeFrom

(* When one bulk slot changes, the counts of the others stay exact.        *)
LEMMA BulkStepKept ==
  ASSUME KeptInv, slots' = slots, NEW n,
         \A k \in DOMAIN hash' \ {n} : k \in DOMAIN hash /\ hash'[k] = hash[k],
         n \in DOMAIN hash' => Kept(hash'[n], Bulk(n))
  PROVE  KeptInv'
  <1>1. \A s \in Slots : Kept(slots'[s], s)
    BY Zenon DEF KeptInv
  <1>2. ASSUME NEW k \in DOMAIN hash' PROVE Kept(hash'[k], Bulk(k))
    <2>1. CASE k = n
      BY <2>1, Zenon
    <2>2. CASE k # n
      BY <2>2, Zenon DEF KeptInv
    <2> QED
      BY <2>1, <2>2, Zenon
  <1> QED
    BY <1>1, <1>2, Zenon DEF KeptInv

(* The pages of one bulk slot may change, or be forgotten. *)
LEMMA BulkStepPages ==
  ASSUME PagesInv, slots' = slots, NEW n \in 1 .. Wrap - 1,
         \A p \in DOMAIN heap' :
           heap'[p] = Bulk(n) \/ (p \in DOMAIN heap /\ heap'[p] = heap[p]),
         \A p \in DOMAIN heap :
           heap[p] = Bulk(n) \/ (p \in DOMAIN heap' /\ heap'[p] = heap[p]
                                   /\ (p \in forgotten' <=> p \in forgotten)),
         \A k \in DOMAIN bulkPages \cup DOMAIN bulkPages' :
           k # n => k \in DOMAIN bulkPages /\ k \in DOMAIN bulkPages'
                      /\ bulkPages'[k] = bulkPages[k],
         forgotten' \subseteq {p \in DOMAIN heap' : heap'[p] \in Bulks},
         PagesOf(n)' = {p \in DOMAIN heap' : heap'[p] = Bulk(n)} \ forgotten'
  PROVE  PagesInv'
  <1>1. Bulk(n) \in AllSlots /\ Bulk(n) \notin Slots
    BY SlotNames, Zenon
  <1>2. \A p \in DOMAIN heap' : heap'[p] \in AllSlots
    BY <1>1, Zenon DEF PagesInv
  <1>3. ASSUME NEW t \in Slots PROVE slots'[t].pages = {p \in DOMAIN heap' : heap'[p] = t}
    <2>1. slots[t].pages = {p \in DOMAIN heap : heap[p] = t}
      BY Zenon DEF PagesInv
    <2>2. \A p : (p \in DOMAIN heap /\ heap[p] = t) <=> (p \in DOMAIN heap' /\ heap'[p] = t)
      BY <1>1, Zenon
    <2>3. {p \in DOMAIN heap : heap[p] = t} = {p \in DOMAIN heap' : heap'[p] = t}
      BY <2>2, Zenon
    <2> QED
      BY <2>1, <2>3, Zenon
  <1>4. ASSUME NEW k \in 1 .. Wrap - 1
        PROVE  PagesOf(k)' = {p \in DOMAIN heap' : heap'[p] = Bulk(k)} \ forgotten'
    <2>1. CASE k = n
      BY <2>1, Zenon
    <2>2. CASE k # n
      <3>1. Bulk(k) # Bulk(n)
        BY <2>2, BulkIsInjective, Zenon
      <3>2. PagesOf(k)' = PagesOf(k)
        <4>1. CASE k \in DOMAIN bulkPages
          BY <2>2, <4>1, Zenon DEF PagesOf
        <4>2. CASE k \notin DOMAIN bulkPages
          BY <2>2, <4>2, Zenon DEF PagesOf
        <4> QED
          BY <4>1, <4>2, Zenon
      <3>3. PagesOf(k) = {p \in DOMAIN heap : heap[p] = Bulk(k)} \ forgotten
        BY Zenon DEF PagesInv
      <3>4. \A p : (p \in DOMAIN heap /\ heap[p] = Bulk(k) /\ p \notin forgotten)
                     <=> (p \in DOMAIN heap' /\ heap'[p] = Bulk(k) /\ p \notin forgotten')
        <4>1. ASSUME NEW p, p \in DOMAIN heap, heap[p] = Bulk(k)
              PROVE  /\ p \in DOMAIN heap' /\ heap'[p] = Bulk(k)
                     /\ p \in forgotten' <=> p \in forgotten
          BY <3>1, <4>1, Zenon
        <4>2. ASSUME NEW p, p \in DOMAIN heap', heap'[p] = Bulk(k)
              PROVE  p \in DOMAIN heap /\ heap[p] = Bulk(k)
          BY <3>1, <4>2, Zenon
        <4> QED
          BY <4>1, <4>2, Zenon
      <3>5. {p \in DOMAIN heap : heap[p] = Bulk(k)} \ forgotten
              = {p \in DOMAIN heap' : heap'[p] = Bulk(k)} \ forgotten'
        BY <3>4, Zenon
      <3> QED
        BY <3>2, <3>3, <3>5, Zenon
    <2> QED
      BY <2>1, <2>2, Zenon
  <1> QED
    BY <1>2, <1>3, <1>4, Zenon DEF PagesInv

(* A step that touches no page keeps what the tables say of pages.         *)
LEMMA SamePages ==
  ASSUME PagesInv, UNCHANGED <<slots, bulkPages, heap, forgotten>>
  PROVE  PagesInv'
  BY Zenon DEF PagesInv, PagesOf

(* The bulk slot of a request is large enough for it.                      *)
LEMMA BulkRequestFits ==
  ASSUME TablesInv, NEW size \in requests
  PROVE  /\ Roundup(size, PageSize) \in 1 .. Wrap - 1 /\ Roundup(size, PageSize) \in Nat
         /\ size \in Nat /\ size <= Roundup(size, PageSize)
  <1>1. size \in Nat \ {0} /\ size \in 1 .. Wrap - PageSize
    BY RequestIs, Zenon
  <1>2. Roundup(size, PageSize) \in 1 .. Wrap - 1 /\ size <= Roundup(size, PageSize)
    BY <1>1, NeedFits, Zenon
  <1>3. \A x \in 1 .. Wrap - 1 : x \in Nat
    BY PoolConstants
  <1> QED
    BY <1>1, <1>2, <1>3, Zenon

(* The table of bulk slots is exact until a larger slot was emptied, so    *)
(* that a slot it has gives an object.                                     *)
LEMMA NoObjectAfterLoss ==
  ASSUME KeptInv, TreeInv, emptied \in BOOLEAN, NEW n \in DOMAIN hash, hash[n].objs = Empty
  PROVE  emptied
  <1>1. hash[n].cnt = 0
    <2>1. hash[n].cnt = CountOf(Empty)
      BY Zenon DEF KeptInv, Kept
    <2> QED
      BY <2>1, EmptyList, EmptyIs, Zenon
  <1>2. ~(hash[n].cnt > 0)
    BY <1>1
  <1> QED
    BY <1>2, Zenon DEF TreeInv

(* A crash changes nothing else.                                           *)
LEMMA CrashStep ==
  ASSUME Working, Crash
  PROVE  Working'
  <1>1. /\ UNCHANGED <<requests, slots, heap, held, destroyed>> /\ crashed' = TRUE
        /\ UNCHANGED <<bulkPages, hash, tree, forgotten, emptied>>
    BY Zenon DEF Crash, bulkVars
  <1>2. TablesInv'
    BY <1>1, Zenon DEF Working, TablesInv
  <1>3. KeptInv' /\ TreeInv'
    BY <1>1, Zenon DEF Working, KeptInv, TreeInv
  <1>4. Lists' = Lists
    BY <1>1, Zenon DEF Lists, ListOf
  <1>5. InUse'
    BY <1>1, <1>4, Zenon DEF Working, InUse
  <1>6. PagesInv'
    BY <1>1, SamePages, Zenon DEF Working
  <1> QED
    BY <1>2, <1>3, <1>5, <1>6, Zenon DEF Working

(* Get from the exact bulk slot; it crashes on an entry without an object. *)
LEMMA GetBulkExactStep ==
  ASSUME Working, NEW size \in requests, GetBulkExact(size)
  PROVE  Working' /\ (crashed' => crashed \/ emptied')
  <1> DEFINE n == Roundup(size, PageSize)
             s == Bulk(n)
             r == hash[n]
  <1>1. TablesInv /\ InUse /\ PagesInv /\ KeptInv /\ TreeInv
    BY Zenon DEF Working
  <1>2. /\ n \in 1 .. Wrap - 1 /\ size <= n /\ s \in AllSlots /\ s[2] = n
    BY <1>1, BulkRequestFits, SlotNames, Zenon
  <1>3. /\ n \in DOMAIN hash
        /\ \/ r.objs = Empty /\ Crash
           \/ /\ \E p \in DOMAIN r.objs :
                   /\ held' = held \cup {Object(s, r.objs, p, size)}
                   /\ IF TakenFrom(n, p).objs = Empty
                      THEN hash' = Without(hash, n) /\ tree' = tree \ {n}
                      ELSE hash' = With(hash, n, TakenFrom(n, p)) /\ tree' = tree
              /\ UNCHANGED <<requests, slots, bulkPages, heap, forgotten, emptied,
                             crashed, destroyed>>
    BY Zenon DEF GetBulkExact
  <1>4. /\ Lists[s] = r.objs /\ Kept(r, s) /\ n <= ReserveMax
    BY <1>1, <1>2, <1>3, ListsAre, Zenon DEF ListsByTable, KeptInv, TablesInv
  <1>5. IsList(r.objs, PageObjs(s))
    BY <1>1, <1>2, <1>4, ListIs, Zenon
  <1> HIDE DEF n, s
  <1>6. CASE r.objs = Empty /\ Crash
    <2>1. emptied /\ emptied' = emptied
      BY <1>1, <1>3, <1>6, NoObjectAfterLoss, Zenon DEF TablesInv, Crash, bulkVars
    <2> QED
      BY <1>6, <2>1, CrashStep, Zenon
  <1>7. ASSUME NEW p \in DOMAIN r.objs,
               held' = held \cup {Object(s, r.objs, p, size)},
               IF TakenFrom(n, p).objs = Empty
               THEN hash' = Without(hash, n) /\ tree' = tree \ {n}
               ELSE hash' = With(hash, n, TakenFrom(n, p)) /\ tree' = tree,
               UNCHANGED <<requests, slots, bulkPages, heap, forgotten, emptied,
                           crashed, destroyed>>
        PROVE  Working' /\ (crashed' => crashed \/ emptied')
    <2> DEFINE q == TakenFrom(n, p)
    <2>1. q.objs = TakeFrom(r.objs, p) /\ q.cnt = r.cnt - 1
      BY Zenon DEF TakenFrom
    <2> HIDE DEF q
    <2>2. Kept(q, s)
      BY <1>2, <1>4, <1>5, <2>1, KeptTake, Zenon
    <2>3. /\ \A k \in (DOMAIN hash \cup DOMAIN hash') \ {n} :
                k \in DOMAIN hash /\ k \in DOMAIN hash' /\ hash'[k] = hash[k]
          /\ IF q.objs = Empty THEN n \notin DOMAIN hash' /\ tree' = tree \ {n}
                              ELSE n \in DOMAIN hash' /\ hash'[n] = q /\ tree' = tree
      <3>1. CASE q.objs = Empty
        <4>1. hash' = Without(hash, n) /\ tree' = tree \ {n}
          BY <1>7, <3>1, Zenon DEF q
        <4> QED
          BY <3>1, <4>1, Zenon DEF Without
      <3>2. CASE q.objs # Empty
        <4>1. hash' = With(hash, n, q) /\ tree' = tree
          BY <1>7, <3>2, Zenon DEF q
        <4> QED
          BY <3>2, <4>1, Zenon DEF With
      <3> QED
        BY <3>1, <3>2, Zenon
    <2>4. Lists'[s] = TakeFrom(Lists[s], p) /\ \A t \in AllSlots \ {s} : Lists'[t] = Lists[t]
      <3>1. /\ Lists'[s] = IF n \in DOMAIN hash' THEN hash'[n].objs ELSE Empty
            /\ \A t \in AllSlots \ {s} : Lists'[t] = Lists[t]
        BY <1>2, <1>7, <2>3, BulkSlotStep, Zenon DEF s
      <3>2. Lists'[s] = q.objs
        BY <2>3, <3>1, Zenon
      <3> QED
        BY <1>4, <2>1, <3>1, <3>2, Zenon
    <2>5. InUse'
      <3>1. Apart(Lists, heap, held) /\ p \in DOMAIN Lists[s] /\ size <= s[2]
        BY <1>1, <1>2, <1>4, Zenon DEF InUse
      <3>2. Apart(Lists', heap, held \cup {Object(s, Lists[s], p, size)})
        BY <1>2, <2>4, <3>1, ApartTake, ZenonT(30)
      <3> QED
        BY <1>4, <1>7, <3>2, Zenon DEF InUse
    <2>6. TablesInv'
      BY <1>1, <1>3, <1>7, <2>3, Zenon DEF TablesInv
    <2>7. KeptInv'
      BY <1>1, <1>7, <2>2, <2>3, BulkStepKept, Zenon DEF s
    <2>8. TreeInv'
      <3> SUFFICES ASSUME ~emptied'
                   PROVE  tree' = DOMAIN hash' /\ \A k \in DOMAIN hash' : hash'[k].cnt > 0
        BY Zenon DEF TreeInv
      <3>1. tree = DOMAIN hash /\ \A k \in DOMAIN hash : hash[k].cnt > 0
        BY <1>1, <1>7, Zenon DEF TreeInv
      <3>2. tree' = DOMAIN hash'
        BY <1>3, <2>3, <3>1, Zenon
      <3>3. ASSUME q.objs # Empty PROVE q.cnt > 0
        <4>1. DOMAIN q.objs # {}
          BY <2>1, <3>3, NoDomainIsEmpty, Zenon
        <4>2. IsList(q.objs, PageObjs(s)) /\ PageObjs(s) \in Nat
          <5>1. PageObjs(s) \in Nat
            BY <1>2, PageCounts
          <5>2. TakesOne(r.objs, p, PageObjs(s))
            BY <1>5, <1>7, <5>1, TakeFromList, Zenon
          <5> QED
            BY <2>1, <5>1, <5>2, Zenon DEF TakesOne
        <4>3. CountOf(q.objs) > 0
          BY <4>1, <4>2, SameFreeObjects, Zenon
        <4> QED
          BY <2>2, <4>3, Zenon DEF Kept
      <3>4. \A k \in DOMAIN hash' : hash'[k].cnt > 0
        BY <2>3, <3>1, <3>3, Zenon
      <3> QED
        BY <3>2, <3>4, Zenon
    <2>9. PagesInv'
      BY <1>1, <1>7, SamePages, Zenon
    <2> QED
      BY <1>7, <2>5, <2>6, <2>7, <2>8, <2>9, Zenon DEF Working
  <1> QED
    BY <1>3, <1>6, <1>7, Zenon

(* The larger slot that is searched is in the tree and is large enough.    *)
LEMMA LargerIs ==
  ASSUME TablesInv, NEW need \in Nat, NEW n \in Larger(need)
  PROVE  n \in tree /\ n \in 1 .. Wrap - 1 /\ n \in Nat /\ need < n
  <1>1. n \in tree /\ need < n
    BY Zenon DEF Larger
  <1>2. n \in 1 .. Wrap - 1
    BY <1>1, Zenon DEF TablesInv
  <1>3. \A x \in 1 .. Wrap - 1 : x \in Nat
    BY PoolConstants
  <1> QED
    BY <1>1, <1>2, <1>3, Zenon

(* Get from a larger bulk slot: whatever entry its emptying erases, no     *)
(* list gets an object that is in use.                                     *)
LEMMA GetBulkLargerStep ==
  ASSUME Working, NEW size \in requests, GetBulkLarger(size)
  PROVE  Working' /\ (crashed' => crashed \/ emptied')
  <1> DEFINE need == Roundup(size, PageSize)
  <1>1. TablesInv /\ InUse /\ PagesInv /\ KeptInv /\ TreeInv
    BY Zenon DEF Working
  <1>2. need \in Nat /\ size \in Nat /\ size <= need
    BY <1>1, BulkRequestFits, Zenon
  <1>3. PICK n \in Larger(need) :
          \/ (n \in DOMAIN hash => hash[n].objs = Empty) /\ Crash
          \/ /\ n \in DOMAIN hash
             /\ \E p \in DOMAIN hash[n].objs :
                  /\ held' = held \cup {Object(Bulk(n), hash[n].objs, p, size)}
                  /\ \/ /\ TakenFrom(n, p).objs # Empty
                        /\ hash' = With(hash, n, TakenFrom(n, p))
                        /\ tree' = tree /\ emptied' = emptied
                     \/ /\ TakenFrom(n, p).objs = Empty
                        /\ \E keys \in HashKeysErased(n) :
                             hash' = [k \in DOMAIN hash \ keys |->
                                        IF k = n THEN TakenFrom(n, p) ELSE hash[k]]
                        /\ tree' = tree \ {n}
                        /\ emptied' = TRUE
             /\ UNCHANGED <<requests, slots, bulkPages, heap, forgotten, crashed, destroyed>>
    BY Zenon DEF GetBulkLarger
  <1> DEFINE s == Bulk(n)
             r == hash[n]
  <1> HIDE DEF need
  <1>4. n \in tree /\ n \in 1 .. Wrap - 1 /\ n \in Nat /\ need < n
    BY <1>1, <1>2, LargerIs, Zenon
  <1>5. s \in AllSlots /\ size <= s[2]
    <2>1. s[2] = n /\ s \in AllSlots
      BY <1>4, SlotNames, Zenon
    <2>2. size <= n
      BY <1>2, <1>4
    <2> QED
      BY <2>1, <2>2, Zenon
  <1>6. CASE (n \in DOMAIN hash => r.objs = Empty) /\ Crash
    <2>1. emptied
      <3> SUFFICES ASSUME ~emptied PROVE FALSE
        BY Zenon
      <3>1. n \in DOMAIN hash
        BY <1>1, <1>4, Zenon DEF TreeInv
      <3> QED
        BY <1>1, <1>6, <3>1, NoObjectAfterLoss, Zenon DEF TablesInv
    <2>2. emptied' = emptied
      BY <1>6, Zenon DEF Crash, bulkVars
    <2> QED
      BY <1>6, <2>1, <2>2, CrashStep, Zenon
  <1>7. ASSUME n \in DOMAIN hash, NEW p \in DOMAIN r.objs,
               held' = held \cup {Object(s, r.objs, p, size)},
               \/ /\ TakenFrom(n, p).objs # Empty
                  /\ hash' = With(hash, n, TakenFrom(n, p))
                  /\ tree' = tree /\ emptied' = emptied
               \/ /\ TakenFrom(n, p).objs = Empty
                  /\ \E keys \in HashKeysErased(n) :
                       hash' = [k \in DOMAIN hash \ keys |->
                                  IF k = n THEN TakenFrom(n, p) ELSE hash[k]]
                  /\ tree' = tree \ {n}
                  /\ emptied' = TRUE,
               UNCHANGED <<requests, slots, bulkPages, heap, forgotten, crashed, destroyed>>
        PROVE  Working' /\ (crashed' => crashed \/ emptied')
    <2> DEFINE q == TakenFrom(n, p)
               M == [t \in AllSlots |-> IF t = s THEN q.objs ELSE Lists[t]]
    <2>1. q.objs = TakeFrom(r.objs, p) /\ q.cnt = r.cnt - 1
      BY Zenon DEF TakenFrom
    <2> HIDE DEF q, s
    <2>2. Lists[s] = r.objs /\ Kept(r, s) /\ n <= ReserveMax
      BY <1>1, <1>4, <1>7, ListsAre, Zenon DEF ListsByTable, KeptInv, TablesInv, s
    <2>3. IsList(r.objs, PageObjs(s))
      BY <1>1, <1>5, <2>2, ListIs, Zenon
    <2>4. Kept(q, s)
      BY <1>5, <2>1, <2>2, <2>3, <1>7, KeptTake, Zenon
    <2>5. M[s] = q.objs /\ \A t \in AllSlots \ {s} : M[t] = Lists[t]
      BY <1>5, Zenon
    <2> HIDE DEF M
    <2>6. Apart(M, heap, held')
      <3>1. Apart(Lists, heap, held) /\ p \in DOMAIN Lists[s]
        BY <1>1, <1>7, <2>2, Zenon DEF InUse
      <3>2. M[s] = TakeFrom(Lists[s], p)
        BY <2>1, <2>2, <2>5, Zenon
      <3>3. Apart(M, heap, held \cup {Object(s, Lists[s], p, size)})
        BY <1>5, <2>5, <3>1, <3>2, ApartTake, ZenonT(30)
      <3> QED
        BY <1>7, <2>2, <3>3, Zenon
    <2>7. PagesInv'
      BY <1>1, <1>7, SamePages, Zenon
    <2>8. CASE q.objs # Empty
      <3>1. hash' = With(hash, n, q) /\ tree' = tree /\ emptied' = emptied
        BY <1>7, <2>8, Zenon DEF q
      <3>2. /\ \A k \in (DOMAIN hash \cup DOMAIN hash') \ {n} :
                 k \in DOMAIN hash /\ k \in DOMAIN hash' /\ hash'[k] = hash[k]
            /\ n \in DOMAIN hash' /\ hash'[n] = q
        BY <3>1, Zenon DEF With
      <3>3. Lists'[s] = q.objs /\ \A t \in AllSlots \ {s} : Lists'[t] = Lists[t]
        BY <1>4, <1>7, <3>2, BulkSlotStep, Zenon DEF s
      <3>4. InUse'
        <4>1. \A t \in AllSlots : Lists'[t] = M[t] \/ DOMAIN Lists'[t] = {}
          BY <2>5, <3>3, Zenon
        <4>2. Apart(Lists', heap, held')
          BY <2>6, <4>1, ApartLose, ZenonT(30)
        <4> QED
          BY <1>7, <4>2, Zenon DEF InUse
      <3>5. TablesInv'
        BY <1>1, <1>7, <3>1, <3>2, Zenon DEF TablesInv
      <3>6. KeptInv'
        BY <1>1, <1>7, <2>4, <3>2, BulkStepKept, Zenon DEF s
      <3>7. TreeInv'
        <4> SUFFICES ASSUME ~emptied'
                     PROVE  tree' = DOMAIN hash' /\ \A k \in DOMAIN hash' : hash'[k].cnt > 0
          BY Zenon DEF TreeInv
        <4>1. tree = DOMAIN hash /\ \A k \in DOMAIN hash : hash[k].cnt > 0
          BY <1>1, <3>1, Zenon DEF TreeInv
        <4>2. tree' = DOMAIN hash'
          BY <1>7, <3>1, <3>2, <4>1, Zenon
        <4>3. q.cnt > 0
          <5>1. DOMAIN q.objs # {}
            BY <2>1, <2>8, NoDomainIsEmpty, Zenon
          <5>2. PageObjs(s) \in Nat
            BY <1>5, PageCounts
          <5>3. TakesOne(r.objs, p, PageObjs(s))
            BY <1>7, <2>3, <5>2, TakeFromList, Zenon
          <5>4. IsList(q.objs, PageObjs(s))
            BY <2>1, <5>3, Zenon DEF TakesOne
          <5>5. CountOf(q.objs) > 0
            BY <5>1, <5>2, <5>4, SameFreeObjects, Zenon
          <5> QED
            BY <2>4, <5>5, Zenon DEF Kept
        <4>4. \A k \in DOMAIN hash' : hash'[k].cnt > 0
          BY <3>2, <4>1, <4>3, Zenon
        <4> QED
          BY <4>2, <4>4, Zenon
      <3> QED
        BY <1>7, <2>7, <3>4, <3>5, <3>6, <3>7, Zenon DEF Working
    <2>9. CASE q.objs = Empty
      <3>1. PICK keys \in HashKeysErased(n) :
              hash' = [k \in DOMAIN hash \ keys |-> IF k = n THEN q ELSE hash[k]]
        BY <1>7, <2>9, Zenon DEF q
      <3>2. tree' = tree \ {n} /\ emptied' = TRUE
        BY <1>7, <2>9, Zenon DEF q
      <3>3. /\ DOMAIN hash' \subseteq DOMAIN hash
            /\ \A k \in DOMAIN hash' \ {n} : k \in DOMAIN hash /\ hash'[k] = hash[k]
            /\ n \in DOMAIN hash' => hash'[n] = q
        BY <3>1, Zenon
      <3>4. InUse'
        <4>1. ASSUME NEW t \in AllSlots PROVE Lists'[t] = M[t] \/ DOMAIN Lists'[t] = {}
          <5>1. /\ \A x \in Slots : Lists'[x] = slots'[x].objs
                /\ \A k \in 1 .. Wrap - 1 :
                     Lists'[Bulk(k)] = IF k \in DOMAIN hash' THEN hash'[k].objs ELSE Empty
            <6>1. ListsByTable'
              BY ListsAre, PTL
            <6> QED
              BY <6>1, Zenon DEF ListsByTable
          <5>2. CASE t \in Slots
            <6>1. t # s
              BY <1>4, <5>2, SlotNames, Zenon DEF s
            <6> QED
              BY <1>7, <2>5, <5>1, <5>2, <6>1, ListsAre, Zenon DEF ListsByTable
          <5>3. ASSUME NEW k \in 1 .. Wrap - 1, t = Bulk(k), k \in DOMAIN hash'
                PROVE  Lists'[t] = M[t]
            <6>1. CASE k = n
              BY <2>5, <3>3, <5>1, <5>3, <6>1, <1>5, Zenon DEF s
            <6>2. CASE k # n
              <7>1. t # s
                BY <5>3, <6>2, BulkIsInjective, Zenon DEF s
              <7>2. Lists[t] = hash[k].objs
                BY <3>3, <5>3, ListsAre, Zenon DEF ListsByTable
              <7> QED
                BY <2>5, <3>3, <5>1, <5>3, <6>2, <7>1, <7>2, Zenon
            <6> QED
              BY <6>1, <6>2, Zenon
          <5>4. ASSUME NEW k \in 1 .. Wrap - 1, t = Bulk(k), k \notin DOMAIN hash'
                PROVE  DOMAIN Lists'[t] = {}
            BY <5>1, <5>4, EmptyIs, Zenon
          <5> QED
            BY <5>2, <5>3, <5>4, SlotIsFixedOrBulk, Zenon
        <4>2. Apart(Lists', heap, held')
          BY <2>6, <4>1, ApartLose, ZenonT(30)
        <4> QED
          BY <1>7, <4>2, Zenon DEF InUse
      <3>5. TablesInv'
        BY <1>1, <1>7, <3>2, <3>3, Zenon DEF TablesInv
      <3>6. KeptInv'
        BY <1>1, <1>7, <2>4, <3>3, BulkStepKept, Zenon DEF s
      <3>7. TreeInv'
        BY <3>2, Zenon DEF TreeInv
      <3> QED
        BY <1>7, <2>7, <3>4, <3>5, <3>6, <3>7, Zenon DEF Working
    <2> QED
      BY <2>8, <2>9, Zenon
  <1> QED
    BY <1>3, <1>6, <1>7, Zenon

(* What is left of a new page, when anything is, is kept.                  *)
LeavesSome(s, q) == q.cnt > 0 /\ s[2] < ReserveMax

LEMMA NewPageLeaves ==
  ASSUME NEW s \in AllSlots, s[1] = "Bulk", NEW page \in Pages, NEW q,
         q.objs = TakeFrom(NewObjs(s, page), page), q.cnt = PageObjs(s) - 1,
         q.objs # Empty
  PROVE  LeavesSome(s, q)
  <1> DEFINE n == PageObjs(s)
  <1>1. /\ n \in Nat /\ s[2] \in Nat
        /\ ReserveMax <= s[2] => n = 1
    BY PageCounts
  <1>2. ReserveMax \in Nat
    BY PoolConstants
  <1>3. page \in DOMAIN NewObjs(s, page) /\ IsList(NewObjs(s, page), n)
    BY NewPageList, Zenon
  <1> HIDE DEF n
  <1>4. IsList(q.objs, n)
    <2>1. TakesOne(NewObjs(s, page), page, n)
      BY <1>1, <1>3, TakeFromList, Zenon
    <2> QED
      BY <2>1, Zenon DEF TakesOne
  <1>5. DOMAIN q.objs # {}
    BY NoDomainIsEmpty, Zenon
  <1>6. CountOf(q.objs) > 0
    BY <1>1, <1>4, <1>5, SameFreeObjects, Zenon
  <1>7. Kept(q, s)
    BY KeptTakeNew, Zenon
  <1>8. q.cnt > 0
    BY <1>6, <1>7, Zenon DEF Kept
  <1>9. s[2] < ReserveMax
    BY <1>1, <1>2, <1>8 DEF n
  <1> QED
    BY <1>8, <1>9, Zenon DEF LeavesSome

(* Get of a new bulk page: the pages that the slot forgets live on.        *)
LEMMA GetBulkNewStep ==
  ASSUME Working, NEW size \in requests, GetBulkNew(size)
  PROVE  Working' /\ crashed' = crashed
  <1> DEFINE n == Roundup(size, PageSize)
             s == Bulk(n)
             page == NewPage
             left == TakeFrom(NewObjs(s, page), page)
             q == [objs |-> left, cnt |-> PageObjs(s) - 1]
  <1>1. TablesInv /\ InUse /\ PagesInv /\ KeptInv /\ TreeInv
    BY Zenon DEF Working
  <1>2. /\ n \in 1 .. Wrap - 1 /\ n \in Nat /\ size <= n
        /\ s \in AllSlots /\ s[1] = "Bulk" /\ s[2] = n /\ s \in Bulks
    BY <1>1, BulkRequestFits, SlotNames, Zenon DEF Bulks
  <1>3. /\ n \notin DOMAIN hash
        /\ forgotten' = forgotten \cup PagesOf(n)
        /\ \/ /\ CanAllocate
              /\ bulkPages' = With(bulkPages, n, {page})
              /\ heap' = With(heap, page, s)
              /\ held' = held \cup {Object(s, NewObjs(s, page), page, size)}
              /\ IF left = Empty
                 THEN hash' = hash /\ tree' = tree \ {n}
                 ELSE hash' = With(hash, n, q) /\ tree' = tree \cup {n}
           \/ /\ bulkPages' = With(bulkPages, n, {})
              /\ tree' = tree \ {n}
              /\ UNCHANGED <<hash, heap, held>>
        /\ UNCHANGED <<requests, slots, emptied, crashed, destroyed>>
    BY Zenon DEF GetBulkNew
  <1>4. q.objs = left /\ q.cnt = PageObjs(s) - 1
    BY Zenon
  <1> HIDE DEF n, s, page, q
  <1>5. DOMAIN Lists[s] = {}
    BY <1>2, <1>3, ListsAre, EmptyIs, Zenon DEF ListsByTable, s
  <1>6. /\ forgotten \subseteq {p \in DOMAIN heap : heap[p] \in Bulks}
        /\ PagesOf(n) = {p \in DOMAIN heap : heap[p] = s} \ forgotten
    BY <1>1, <1>2, Zenon DEF PagesInv, s
  <1>7. CASE /\ CanAllocate
             /\ bulkPages' = With(bulkPages, n, {page})
             /\ heap' = With(heap, page, s)
             /\ held' = held \cup {Object(s, NewObjs(s, page), page, size)}
             /\ IF left = Empty
                THEN hash' = hash /\ tree' = tree \ {n}
                ELSE hash' = With(hash, n, q) /\ tree' = tree \cup {n}
    <2>1. page \in Pages /\ page \notin DOMAIN heap
      BY <1>7, NewPageIs, Zenon DEF page
    <2>2. DOMAIN NewObjs(s, page) = {page}
      BY <1>2, <2>1, NewPageList, Zenon
    <2>3. Kept(q, s)
      BY <1>2, <1>4, <2>1, KeptTakeNew, Zenon
    <2>4. left # Empty => q.cnt > 0 /\ n < ReserveMax
      <3>1. left # Empty => LeavesSome(s, q)
        BY <1>2, <1>4, <2>1, NewPageLeaves, Zenon
      <3> QED
        BY <3>1, <1>2, Zenon DEF LeavesSome
    <2>5. /\ \A k \in (DOMAIN hash \cup DOMAIN hash') \ {n} :
                k \in DOMAIN hash /\ k \in DOMAIN hash' /\ hash'[k] = hash[k]
          /\ IF left = Empty THEN n \notin DOMAIN hash' /\ tree' = tree \ {n}
                            ELSE n \in DOMAIN hash' /\ hash'[n] = q /\ tree' = tree \cup {n}
      <3>1. CASE left = Empty
        BY <1>3, <1>7, <3>1, Zenon
      <3>2. CASE left # Empty
        <4>1. hash' = With(hash, n, q) /\ tree' = tree \cup {n}
          BY <1>7, <3>2, Zenon
        <4> QED
          BY <3>2, <4>1, Zenon DEF With
      <3> QED
        BY <3>1, <3>2, Zenon
    <2>6. Lists'[s] = left /\ \A t \in AllSlots \ {s} : Lists'[t] = Lists[t]
      <3>1. /\ Lists'[s] = IF n \in DOMAIN hash' THEN hash'[n].objs ELSE Empty
            /\ \A t \in AllSlots \ {s} : Lists'[t] = Lists[t]
        BY <1>2, <1>3, <2>5, BulkSlotStep, Zenon DEF s
      <3>2. Lists'[s] = left
        BY <1>4, <2>5, <3>1, Zenon
      <3> QED
        BY <3>1, <3>2, Zenon
    <2>7. Apart(Lists', heap', held')
      <3> DEFINE M == [t \in AllSlots |-> IF t = s THEN NewObjs(s, page) ELSE Lists[t]]
      <3>1. M[s] = NewObjs(s, page) /\ \A t \in AllSlots \ {s} : M[t] = Lists[t]
        BY <1>2, Zenon
      <3> HIDE DEF M
      <3>2. Apart(M, heap', held)
        BY <1>1, <1>2, <1>5, <1>7, <2>1, <3>1, ApartNewPage, ZenonT(30) DEF InUse
      <3>3. page \in DOMAIN M[s] /\ size <= s[2]
        BY <1>2, <2>2, <3>1, Zenon
      <3>4. Lists'[s] = TakeFrom(M[s], page) /\ \A t \in AllSlots \ {s} : Lists'[t] = M[t]
        BY <2>6, <3>1, Zenon
      <3>5. Apart(Lists', heap', held \cup {Object(s, M[s], page, size)})
        BY <1>2, <3>2, <3>3, <3>4, ApartTake, ZenonT(30)
      <3> QED
        BY <1>7, <3>1, <3>5, Zenon
    <2>8. TablesInv'
      <3>1. DOMAIN hash' \subseteq 1 .. Wrap - 1 /\ \A k \in DOMAIN hash' : k <= ReserveMax
        <4>1. left # Empty => n <= ReserveMax
          BY <1>2, <2>4, PoolConstants
        <4> QED
          BY <1>1, <1>2, <2>5, <4>1, Zenon DEF TablesInv
      <3>2. DOMAIN bulkPages' = DOMAIN bulkPages \cup {n}
        BY <1>7, Zenon DEF With
      <3> QED
        BY <1>1, <1>2, <1>3, <2>5, <3>1, <3>2, Zenon DEF TablesInv
    <2>9. KeptInv'
      BY <1>1, <1>3, <2>3, <2>5, BulkStepKept, Zenon DEF s
    <2>10. TreeInv'
      <3> SUFFICES ASSUME ~emptied'
                   PROVE  tree' = DOMAIN hash' /\ \A k \in DOMAIN hash' : hash'[k].cnt > 0
        BY Zenon DEF TreeInv
      <3>1. tree = DOMAIN hash /\ \A k \in DOMAIN hash : hash[k].cnt > 0
        BY <1>1, <1>3, Zenon DEF TreeInv
      <3>2. tree' = DOMAIN hash'
        <4>1. CASE left = Empty
          BY <1>3, <2>5, <3>1, <4>1, Zenon
        <4>2. CASE left # Empty
          BY <1>3, <2>5, <3>1, <4>2, Zenon
        <4> QED
          BY <4>1, <4>2, Zenon
      <3>3. \A k \in DOMAIN hash' : hash'[k].cnt > 0
        BY <2>4, <2>5, <3>1, Zenon
      <3> QED
        BY <3>2, <3>3, Zenon
    <2>11. /\ DOMAIN heap' = DOMAIN heap \cup {page} /\ heap'[page] = s
           /\ \A p \in DOMAIN heap : p # page => heap'[p] = heap[p]
      BY <1>7, Zenon DEF With
    <2>12. PagesInv'
      <3>1. \A p \in DOMAIN heap' : heap'[p] = s \/ (p \in DOMAIN heap /\ heap'[p] = heap[p])
        BY <2>11, Zenon
      <3>2. \A p \in DOMAIN heap :
              heap[p] = s \/ (p \in DOMAIN heap' /\ heap'[p] = heap[p]
                                /\ (p \in forgotten' <=> p \in forgotten))
        BY <1>3, <1>6, <2>1, <2>11, Zenon
      <3>3. \A k \in DOMAIN bulkPages \cup DOMAIN bulkPages' :
              k # n => k \in DOMAIN bulkPages /\ k \in DOMAIN bulkPages'
                         /\ bulkPages'[k] = bulkPages[k]
        BY <1>7, Zenon DEF With
      <3>4. forgotten' \subseteq {p \in DOMAIN heap' : heap'[p] \in Bulks}
        <4>1. \A p \in forgotten' : p \in DOMAIN heap /\ heap[p] \in Bulks
          BY <1>2, <1>3, <1>6, Zenon
        <4> QED
          BY <2>1, <2>11, <4>1, Zenon
      <3>5. PagesOf(n)' = {p \in DOMAIN heap' : heap'[p] = s} \ forgotten'
        <4>1. PagesOf(n)' = {page}
          BY <1>7, Zenon DEF PagesOf, With
        <4>2. page \notin forgotten'
          BY <1>3, <1>6, <2>1, Zenon
        <4>3. \A p \in DOMAIN heap' : heap'[p] = s /\ p # page => p \in forgotten'
          BY <1>3, <1>6, <2>11, Zenon
        <4> QED
          BY <4>1, <4>2, <4>3, <2>11, Zenon
      <3> QED
        BY <1>1, <1>2, <1>3, <3>1, <3>2, <3>3, <3>4, <3>5, BulkStepPages, Zenon DEF s
    <2> QED
      BY <1>3, <2>7, <2>8, <2>9, <2>10, <2>12, Zenon DEF Working, InUse
  <1>8. CASE /\ bulkPages' = With(bulkPages, n, {})
             /\ tree' = tree \ {n}
             /\ UNCHANGED <<hash, heap, held>>
    <2>1. TablesInv'
      <3>1. DOMAIN bulkPages' = DOMAIN bulkPages \cup {n}
        BY <1>8, Zenon DEF With
      <3> QED
        BY <1>1, <1>2, <1>3, <1>8, <3>1, Zenon DEF TablesInv
    <2>2. KeptInv'
      BY <1>1, <1>3, <1>8, Zenon DEF KeptInv
    <2>3. TreeInv'
      <3> SUFFICES ASSUME ~emptied'
                   PROVE  tree' = DOMAIN hash' /\ \A k \in DOMAIN hash' : hash'[k].cnt > 0
        BY Zenon DEF TreeInv
      <3>1. tree = DOMAIN hash /\ \A k \in DOMAIN hash : hash[k].cnt > 0
        BY <1>1, <1>3, Zenon DEF TreeInv
      <3> QED
        BY <1>3, <1>8, <3>1, Zenon
    <2>4. InUse'
      <3>1. Lists' = Lists
        BY <1>3, <1>8, Zenon DEF Lists, ListOf
      <3> QED
        BY <1>1, <1>8, <3>1, Zenon DEF InUse
    <2>5. PagesInv'
      <3>1. \A p \in DOMAIN heap' : heap'[p] = s \/ (p \in DOMAIN heap /\ heap'[p] = heap[p])
        BY <1>8, Zenon
      <3>2. \A p \in DOMAIN heap :
              heap[p] = s \/ (p \in DOMAIN heap' /\ heap'[p] = heap[p]
                                /\ (p \in forgotten' <=> p \in forgotten))
        BY <1>3, <1>6, <1>8, Zenon
      <3>3. \A k \in DOMAIN bulkPages \cup DOMAIN bulkPages' :
              k # n => k \in DOMAIN bulkPages /\ k \in DOMAIN bulkPages'
                         /\ bulkPages'[k] = bulkPages[k]
        BY <1>8, Zenon DEF With
      <3>4. forgotten' \subseteq {p \in DOMAIN heap' : heap'[p] \in Bulks}
        BY <1>2, <1>3, <1>6, <1>8, Zenon
      <3>5. PagesOf(n)' = {p \in DOMAIN heap' : heap'[p] = s} \ forgotten'
        <4>1. PagesOf(n)' = {}
          BY <1>8, Zenon DEF PagesOf, With
        <4>2. \A p \in DOMAIN heap' : heap'[p] = s => p \in forgotten'
          BY <1>3, <1>6, <1>8, Zenon
        <4> QED
          BY <4>1, <4>2, Zenon
      <3> QED
        BY <1>1, <1>2, <1>3, <3>1, <3>2, <3>3, <3>4, <3>5, BulkStepPages, Zenon DEF s
    <2> QED
      BY <1>3, <2>1, <2>2, <2>3, <2>4, <2>5, Zenon DEF Working
  <1> QED
    BY <1>3, <1>7, <1>8, Zenon

(* put of an object too large to keep; it crashes only on a slot whose     *)
(* pages were forgotten.                                                   *)
LEMMA DropBulkStep ==
  ASSUME Working, NEW h \in held, DropBulk(h)
  PROVE  Working' /\ (crashed' => crashed \/ forgotten' # {})
  <1> DEFINE s == h.slot
             n == s[2]
             page == h.page
  <1>1. TablesInv /\ InUse /\ PagesInv /\ KeptInv /\ TreeInv
    BY Zenon DEF Working
  <1>2. /\ s \in AllSlots /\ page \in DOMAIN heap /\ heap[page] = s
    BY <1>1, HeldIs, Zenon
  <1>3. /\ s[1] = "Bulk" /\ n > ReserveMax
        /\ \/ n \notin DOMAIN bulkPages /\ Crash
           \/ /\ n \in DOMAIN bulkPages
              /\ held' = held \ {h}
              /\ heap' = Without(heap, page)
              /\ forgotten' = forgotten \ {page}
              /\ bulkPages' = IF bulkPages[n] \subseteq {page} THEN Without(bulkPages, n)
                              ELSE With(bulkPages, n, bulkPages[n] \ {page})
              /\ UNCHANGED <<requests, slots, hash, tree, emptied, crashed, destroyed>>
    BY Zenon DEF DropBulk
  <1> HIDE DEF s, n, page
  <1>4. s \in Bulks /\ n \in 1 .. Wrap - 1 /\ s = Bulk(n)
    <2>1. s \notin Slots
      BY <1>3, SlotNames, SMT
    <2> QED
      BY <1>2, <2>1, SlotNames, Zenon DEF AllSlots, n
  <1>5. PageObjs(s) = 1
    <2>1. ReserveMax \in Nat /\ n \in Nat
      BY <1>4, PoolConstants
    <2>2. ReserveMax <= s[2]
      BY <1>3, <2>1 DEF n
    <2> QED
      BY <1>2, <1>3, <2>2, PageCounts, Zenon
  <1>6. /\ forgotten \subseteq {p \in DOMAIN heap : heap[p] \in Bulks}
        /\ PagesOf(n) = {p \in DOMAIN heap : heap[p] = s} \ forgotten
    BY <1>1, <1>4, Zenon DEF PagesInv
  <1>7. CASE n \notin DOMAIN bulkPages /\ Crash
    <2>1. PagesOf(n) = {}
      BY <1>7, Zenon DEF PagesOf
    <2>2. page \in forgotten
      BY <1>2, <1>6, <2>1, Zenon
    <2>3. forgotten' = forgotten
      BY <1>7, Zenon DEF Crash, bulkVars
    <2> QED
      BY <1>7, <2>2, <2>3, CrashStep, Zenon
  <1>8. CASE /\ n \in DOMAIN bulkPages
             /\ held' = held \ {h}
             /\ heap' = Without(heap, page)
             /\ forgotten' = forgotten \ {page}
             /\ bulkPages' = IF bulkPages[n] \subseteq {page} THEN Without(bulkPages, n)
                             ELSE With(bulkPages, n, bulkPages[n] \ {page})
             /\ UNCHANGED <<requests, slots, hash, tree, emptied, crashed, destroyed>>
    <2>1. /\ \A k \in DOMAIN bulkPages \cup DOMAIN bulkPages' :
               k # n => k \in DOMAIN bulkPages /\ k \in DOMAIN bulkPages'
                          /\ bulkPages'[k] = bulkPages[k]
          /\ PagesOf(n)' = PagesOf(n) \ {page}
          /\ DOMAIN bulkPages' \subseteq DOMAIN bulkPages
      <3>1. CASE bulkPages[n] \subseteq {page}
        <4>1. bulkPages' = Without(bulkPages, n)
          BY <1>8, <3>1, Zenon
        <4>2. PagesOf(n)' = {} /\ PagesOf(n) \subseteq {page}
          BY <1>8, <3>1, <4>1, Zenon DEF PagesOf, Without
        <4>3. PagesOf(n)' = PagesOf(n) \ {page}
          BY <4>2, Zenon
        <4> QED
          BY <4>1, <4>3, Zenon DEF Without
      <3>2. CASE ~(bulkPages[n] \subseteq {page})
        <4>1. bulkPages' = With(bulkPages, n, bulkPages[n] \ {page})
          BY <1>8, <3>2, Zenon
        <4>2. PagesOf(n)' = PagesOf(n) \ {page}
          BY <1>8, <4>1, Zenon DEF PagesOf, With
        <4> QED
          BY <1>8, <4>1, <4>2, Zenon DEF With
      <3> QED
        BY <3>1, <3>2, Zenon
    <2>2. TablesInv'
      BY <1>1, <1>8, <2>1, Zenon DEF TablesInv
    <2>3. KeptInv' /\ TreeInv'
      BY <1>1, <1>8, Zenon DEF KeptInv, TreeInv
    <2>4. InUse'
      <3>1. Lists' = Lists
        BY <1>8, Zenon DEF Lists, ListOf
      <3>2. Apart(Lists, heap, held)
        BY <1>1, Zenon DEF InUse
      <3>3. Apart(Lists, Without(heap, page), held \ {h})
        BY <1>5, <3>2, ApartDrop, ZenonT(30) DEF s, page
      <3> QED
        BY <1>8, <3>1, <3>3, Zenon DEF InUse
    <2>5. /\ DOMAIN heap' = DOMAIN heap \ {page}
          /\ \A p \in DOMAIN heap : p # page => heap'[p] = heap[p]
      BY <1>8, Zenon DEF Without
    <2>6. PagesInv'
      <3>1. \A p \in DOMAIN heap' : heap'[p] = s \/ (p \in DOMAIN heap /\ heap'[p] = heap[p])
        BY <2>5, Zenon
      <3>2. \A p \in DOMAIN heap :
              heap[p] = s \/ (p \in DOMAIN heap' /\ heap'[p] = heap[p]
                                /\ (p \in forgotten' <=> p \in forgotten))
        BY <1>2, <1>8, <2>5, Zenon
      <3>3. forgotten' \subseteq {p \in DOMAIN heap' : heap'[p] \in Bulks}
        BY <1>6, <1>8, <2>5, Zenon
      <3>4. PagesOf(n)' = {p \in DOMAIN heap' : heap'[p] = s} \ forgotten'
        BY <1>6, <1>8, <2>1, <2>5, Zenon
      <3> QED
        BY <1>1, <1>4, <1>8, <2>1, <3>1, <3>2, <3>3, <3>4, BulkStepPages, ZenonT(30)
    <2> QED
      BY <1>8, <2>2, <2>3, <2>4, <2>6, Zenon DEF Working
  <1> QED
    BY <1>3, <1>7, <1>8, Zenon

(* The entry of a bulk slot, an empty one if it has none. *)
Entry(n) == IF n \in DOMAIN hash THEN hash[n] ELSE [objs |-> Empty, cnt |-> 0]
EntryOK(n) ==
  /\ Lists[Bulk(n)] = Entry(n).objs
  /\ IsList(Entry(n).objs, PageObjs(Bulk(n)))
  /\ Kept(Entry(n), Bulk(n))

(* What is kept of a bulk slot, with an entry or without.                  *)
LEMMA EntryIsKept ==
  ASSUME KeptInv, InUse, NEW n \in 1 .. Wrap - 1
  PROVE  EntryOK(n)
  <1>1. Bulk(n) \in AllSlots
    BY SlotNames, Zenon
  <1>2. CASE n \in DOMAIN hash
    <2>1. Entry(n) = hash[n]
      BY <1>2, Zenon DEF Entry
    <2>2. Lists[Bulk(n)] = hash[n].objs
      BY <1>2, ListsAre, Zenon DEF ListsByTable
    <2>3. Kept(hash[n], Bulk(n))
      BY <1>2, Zenon DEF KeptInv
    <2>4. IsList(hash[n].objs, PageObjs(Bulk(n)))
      BY <1>1, <2>2, ListIs, Zenon
    <2> QED
      BY <2>1, <2>2, <2>3, <2>4, Zenon DEF EntryOK
  <1>3. CASE n \notin DOMAIN hash
    <2>1. Entry(n).objs = Empty /\ Entry(n).cnt = 0
      BY <1>3 DEF Entry
    <2>2. Lists[Bulk(n)] = Empty
      BY <1>3, ListsAre, Zenon DEF ListsByTable
    <2>3. CountOf(Empty) = 0 /\ IsList(Empty, PageObjs(Bulk(n)))
      BY EmptyList, EmptyIs, Zenon
    <2>4. 0 \in Nat
      OBVIOUS
    <2>5. Kept(Entry(n), Bulk(n))
      BY <2>1, <2>3, <2>4, EmptyIs, Zenon DEF Kept
    <2> QED
      BY <2>1, <2>2, <2>3, <2>5, Zenon DEF EntryOK
  <1> QED
    BY <1>2, <1>3, Zenon

(* put to a bulk slot, with or without the release of a page.              *)
LEMMA PutBulkStep ==
  ASSUME Working, NEW h \in held, PutBulk(h)
  PROVE  Working' /\ crashed' = crashed
  <1> DEFINE s == h.slot
             n == s[2]
             page == h.page
             o == h.obj
             r == Entry(n)
             back == PutBack(IF n \notin DOMAIN hash THEN Empty ELSE hash[n].objs, page, o)
             cnt == (IF n \notin DOMAIN hash THEN 0 ELSE hash[n].cnt) + 1
             b == [objs |-> back, cnt |-> cnt]
             treeBack == IF n \notin DOMAIN hash THEN tree \cup {n} ELSE tree
             whole == Whole(back, OnePageObjs(s))
             left(w) == [objs |-> Without(back, w), cnt |-> cnt - OnePageObjs(s)]
  <1>1. TablesInv /\ InUse /\ PagesInv /\ KeptInv /\ TreeInv
    BY Zenon DEF Working
  <1>2. /\ s \in AllSlots /\ page \in DOMAIN heap /\ page \in Pages /\ heap[page] = s
        /\ o \in 1 .. PageObjs(s) /\ <<page, o>> \notin FreeIn(Lists[s])
    BY <1>1, HeldIs, Zenon
  <1>3. /\ s[1] = "Bulk" /\ n <= ReserveMax /\ held' = held \ {h}
        /\ \/ /\ cnt < Limit(s) \/ whole = {}
              /\ hash' = With(hash, n, b)
              /\ tree' = treeBack
              /\ UNCHANGED <<bulkPages, heap, forgotten>>
           \/ /\ cnt >= Limit(s)
              /\ \E w \in whole :
                   /\ bulkPages' = With(bulkPages, n, PagesOf(n) \ {w})
                   /\ heap' = Without(heap, w)
                   /\ forgotten' = forgotten \ {w}
                   /\ IF cnt = OnePageObjs(s)
                      THEN hash' = Without(hash, n) /\ tree' = treeBack \ {n}
                      ELSE hash' = With(hash, n, left(w)) /\ tree' = treeBack
        /\ UNCHANGED <<requests, slots, emptied, crashed, destroyed>>
    BY Zenon DEF PutBulk
  <1>4. b.objs = back /\ b.cnt = cnt
    BY Zenon
  <1>5. \A w : left(w).objs = Without(back, w) /\ left(w).cnt = cnt - OnePageObjs(s)
    BY Zenon
  <1>6. back = PutBack(r.objs, page, o) /\ cnt = r.cnt + 1
    <2>1. CASE n \in DOMAIN hash
      BY <2>1, Zenon DEF Entry
    <2>2. CASE n \notin DOMAIN hash
      <3>1. r.objs = Empty /\ r.cnt = 0
        BY <2>2 DEF Entry
      <3> QED
        BY <2>2, <3>1, Zenon
    <2> QED
      BY <2>1, <2>2, Zenon
  <1>7. /\ n \in DOMAIN hash => treeBack = tree
        /\ n \notin DOMAIN hash => treeBack = tree \cup {n}
    BY Zenon
  <1> HIDE DEF s, n, page, o, r, back, cnt, b, treeBack, left
  <1>8. s \in Bulks /\ n \in 1 .. Wrap - 1 /\ s = Bulk(n)
    <2>1. s \notin Slots
      BY <1>3, SlotNames, SMT
    <2> QED
      BY <1>2, <2>1, SlotNames, Zenon DEF AllSlots, n
  <1>9. Lists[s] = r.objs /\ IsList(r.objs, PageObjs(s)) /\ Kept(r, s)
    <2>1. EntryOK(n)
      BY <1>1, <1>8, EntryIsKept, Zenon
    <2> QED
      BY <1>8, <2>1, Zenon DEF EntryOK, r
  <1>10. <<page, o>> \notin FreeIn(r.objs)
    BY <1>2, <1>9, Zenon
  <1>11. Reserved(s)
    BY <1>3, Zenon DEF Reserved, n
  <1>12. cnt \in Nat /\ cnt > 0
    <2>1. r.cnt \in Nat
      BY <1>9, Zenon DEF Kept
    <2> QED
      BY <1>6, <2>1
  <1>13. ~emptied => tree = DOMAIN hash /\ \A k \in DOMAIN hash : hash[k].cnt > 0
    BY <1>1, Zenon DEF TreeInv
  <1>14. ~emptied => treeBack = DOMAIN hash \cup {n}
    BY <1>7, <1>13, Zenon
  <1>15. treeBack \subseteq 1 .. Wrap - 1
    BY <1>1, <1>7, <1>8, Zenon DEF TablesInv
  <1> DEFINE M == [t \in AllSlots |-> IF t = s THEN back ELSE Lists[t]]
  <1>16. M[s] = back /\ \A t \in AllSlots \ {s} : M[t] = Lists[t]
    BY <1>2, Zenon
  <1> HIDE DEF M
  <1>17. Apart(M, heap, held')
    <2>1. M[s] = PutBack(Lists[s], page, o)
      BY <1>6, <1>9, <1>16, Zenon
    <2> QED
      BY <1>1, <1>3, <1>16, <2>1, ApartPut, ZenonT(30) DEF InUse, s, page, o
  <1>18. CASE /\ cnt < Limit(s) \/ whole = {}
              /\ hash' = With(hash, n, b)
              /\ tree' = treeBack
              /\ UNCHANGED <<bulkPages, heap, forgotten>>
    <2>1. Kept(b, s)
      BY <1>2, <1>4, <1>6, <1>9, <1>10, <1>11, <1>18, KeptPut, Zenon
    <2>2. /\ \A k \in (DOMAIN hash \cup DOMAIN hash') \ {n} :
                k \in DOMAIN hash /\ k \in DOMAIN hash' /\ hash'[k] = hash[k]
          /\ DOMAIN hash' = DOMAIN hash \cup {n} /\ hash'[n] = b
      BY <1>18, Zenon DEF With
    <2>3. Lists'[s] = back /\ \A t \in AllSlots \ {s} : Lists'[t] = Lists[t]
      <3>1. /\ Lists'[s] = IF n \in DOMAIN hash' THEN hash'[n].objs ELSE Empty
            /\ \A t \in AllSlots \ {s} : Lists'[t] = Lists[t]
        BY <1>3, <1>8, <2>2, BulkSlotStep, Zenon
      <3>2. Lists'[s] = back
        BY <1>4, <2>2, <3>1, Zenon
      <3> QED
        BY <3>1, <3>2, Zenon
    <2>4. InUse'
      <3>1. \A t \in AllSlots : Lists'[t] = M[t] \/ DOMAIN Lists'[t] = {}
        BY <1>16, <2>3, Zenon
      <3>2. Apart(Lists', heap, held')
        BY <1>17, <3>1, ApartLose, ZenonT(30)
      <3> QED
        BY <1>18, <3>2, Zenon DEF InUse
    <2>5. TablesInv'
      BY <1>1, <1>3, <1>8, <1>15, <1>18, <2>2, Zenon DEF TablesInv
    <2>6. KeptInv'
      BY <1>1, <1>3, <1>8, <2>1, <2>2, BulkStepKept, Zenon
    <2>7. TreeInv'
      <3> SUFFICES ASSUME ~emptied'
                   PROVE  tree' = DOMAIN hash' /\ \A k \in DOMAIN hash' : hash'[k].cnt > 0
        BY Zenon DEF TreeInv
      <3>1. tree' = DOMAIN hash'
        BY <1>3, <1>14, <1>18, <2>2, Zenon
      <3>2. \A k \in DOMAIN hash' : hash'[k].cnt > 0
        BY <1>3, <1>4, <1>12, <1>13, <2>2, Zenon
      <3> QED
        BY <3>1, <3>2, Zenon
    <2>8. PagesInv'
      BY <1>1, <1>3, <1>18, SamePages, Zenon
    <2> QED
      BY <1>3, <2>4, <2>5, <2>6, <2>7, <2>8, Zenon DEF Working
  <1>19. ASSUME cnt >= Limit(s), NEW w \in whole,
                bulkPages' = With(bulkPages, n, PagesOf(n) \ {w}),
                heap' = Without(heap, w),
                forgotten' = forgotten \ {w},
                IF cnt = OnePageObjs(s)
                THEN hash' = Without(hash, n) /\ tree' = treeBack \ {n}
                ELSE hash' = With(hash, n, left(w)) /\ tree' = treeBack
         PROVE  Working' /\ crashed' = crashed
    <2> DEFINE q == left(w)
    <2>1. q.objs = Without(back, w) /\ q.cnt = cnt - OnePageObjs(s)
      BY <1>5, Zenon
    <2> HIDE DEF q
    <2>2. Kept(q, s) /\ IsList(back, PageObjs(s)) /\ w \in DOMAIN back /\ back[w] = 1 .. PageObjs(s)
      <3>1. w \in Whole(b.objs, OnePageObjs(s)) /\ b.cnt >= Limit(s)
        BY <1>4, <1>19, Zenon
      <3>2. Releases(b, w, q, s)
        BY <1>2, <1>4, <1>6, <1>9, <1>10, <2>1, <3>1, KeptRelease, Zenon
      <3> QED
        BY <1>4, <3>2, Zenon DEF Releases
    <2>3. q.cnt \in Nat /\ q.cnt = CountOf(q.objs)
      BY <2>2, Zenon DEF Kept
    <2>4. cnt # OnePageObjs(s) => q.cnt > 0
      <3>1. OnePageObjs(s) \in Nat
        BY <1>2, PageCounts
      <3> QED
        BY <1>12, <2>1, <2>3, <3>1
    <2>5. cnt = OnePageObjs(s) => q.objs = Empty
      <3> SUFFICES ASSUME cnt = OnePageObjs(s) PROVE q.objs = Empty
        BY Zenon
      <3>1. q.cnt = 0
        BY <1>12, <2>1
      <3>2. PageObjs(s) \in Nat
        BY <1>2, PageCounts
      <3>3. IsList(q.objs, PageObjs(s))
        <4>1. DropsPage(back, w, PageObjs(s))
          BY <2>2, <3>2, PageLeavesList, Zenon
        <4> QED
          BY <2>1, <4>1, Zenon DEF DropsPage
      <3>4. ~(CountOf(q.objs) > 0)
        BY <2>3, <3>1
      <3>5. DOMAIN q.objs = {}
        BY <3>2, <3>3, <3>4, SameFreeObjects, Zenon
      <3> QED
        BY <2>1, <3>5, NoDomainIsEmpty, Zenon
    <2>6. /\ \A k \in (DOMAIN hash \cup DOMAIN hash') \ {n} :
                k \in DOMAIN hash /\ k \in DOMAIN hash' /\ hash'[k] = hash[k]
          /\ IF cnt = OnePageObjs(s)
             THEN DOMAIN hash' = DOMAIN hash \ {n} /\ tree' = treeBack \ {n}
             ELSE DOMAIN hash' = DOMAIN hash \cup {n} /\ hash'[n] = q /\ tree' = treeBack
      <3>1. CASE cnt = OnePageObjs(s)
        <4>1. hash' = Without(hash, n) /\ tree' = treeBack \ {n}
          BY <1>19, <3>1, Zenon
        <4> QED
          BY <3>1, <4>1, Zenon DEF Without
      <3>2. CASE cnt # OnePageObjs(s)
        <4>1. hash' = With(hash, n, q) /\ tree' = treeBack
          BY <1>19, <3>2, Zenon DEF q
        <4> QED
          BY <3>2, <4>1, Zenon DEF With
      <3> QED
        BY <3>1, <3>2, Zenon
    <2>7. Lists'[s] = Without(back, w) /\ \A t \in AllSlots \ {s} : Lists'[t] = Lists[t]
      <3>1. /\ Lists'[s] = IF n \in DOMAIN hash' THEN hash'[n].objs ELSE Empty
            /\ \A t \in AllSlots \ {s} : Lists'[t] = Lists[t]
        BY <1>3, <1>8, <2>6, BulkSlotStep, Zenon
      <3>2. CASE cnt = OnePageObjs(s)
        BY <2>1, <2>5, <2>6, <3>1, <3>2, Zenon
      <3>3. CASE cnt # OnePageObjs(s)
        BY <2>1, <2>6, <3>1, <3>3, Zenon
      <3> QED
        BY <3>1, <3>2, <3>3, Zenon
    <2>8. Apart(Lists', heap', held')
      <3>1. w \in DOMAIN M[s] /\ M[s][w] = 1 .. PageObjs(s)
        BY <1>16, <2>2, Zenon
      <3>2. Lists'[s] = Without(M[s], w) /\ \A t \in AllSlots \ {s} : Lists'[t] = M[t]
        BY <1>16, <2>7, Zenon
      <3> QED
        BY <1>2, <1>17, <1>19, <3>1, <3>2, ApartRelease, ZenonT(30)
    <2>9. TablesInv'
      <3>1. DOMAIN bulkPages' = DOMAIN bulkPages \cup {n}
        BY <1>19, Zenon DEF With
      <3>2. DOMAIN hash' \subseteq DOMAIN hash \cup {n} /\ tree' \subseteq treeBack
        BY <2>6, Zenon
      <3> QED
        BY <1>1, <1>3, <1>8, <1>15, <3>1, <3>2, Zenon DEF TablesInv
    <2>10. KeptInv'
      <3>1. n \in DOMAIN hash' => Kept(hash'[n], s)
        BY <2>2, <2>6, Zenon
      <3> QED
        BY <1>1, <1>3, <1>8, <2>6, <3>1, BulkStepKept, Zenon
    <2>11. TreeInv'
      <3> SUFFICES ASSUME ~emptied'
                   PROVE  tree' = DOMAIN hash' /\ \A k \in DOMAIN hash' : hash'[k].cnt > 0
        BY Zenon DEF TreeInv
      <3>1. CASE cnt = OnePageObjs(s)
        <4>1. tree' = DOMAIN hash'
          BY <1>3, <1>14, <2>6, <3>1, Zenon
        <4>2. \A k \in DOMAIN hash' : hash'[k].cnt > 0
          BY <1>3, <1>13, <2>6, <3>1, Zenon
        <4> QED
          BY <4>1, <4>2, Zenon
      <3>2. CASE cnt # OnePageObjs(s)
        <4>1. tree' = DOMAIN hash'
          BY <1>3, <1>14, <2>6, <3>2, Zenon
        <4>2. \A k \in DOMAIN hash' : hash'[k].cnt > 0
          BY <1>3, <1>13, <2>4, <2>6, <3>2, Zenon
        <4> QED
          BY <4>1, <4>2, Zenon
      <3> QED
        BY <3>1, <3>2, Zenon
    <2>12. heap[w] = s
      <3>1. \A p \in DOMAIN M[s] : heap[p] = s
        BY <1>2, <1>17, Zenon DEF Apart, ListOfSlot
      <3> QED
        BY <3>1, <1>16, <2>2, Zenon
    <2>13. PagesInv'
      <3>1. /\ DOMAIN heap' = DOMAIN heap \ {w}
            /\ \A p \in DOMAIN heap : p # w => heap'[p] = heap[p]
        BY <1>19, Zenon DEF Without
      <3>2. /\ forgotten \subseteq {p \in DOMAIN heap : heap[p] \in Bulks}
            /\ PagesOf(n) = {p \in DOMAIN heap : heap[p] = s} \ forgotten
        BY <1>1, <1>8, Zenon DEF PagesInv
      <3>3. \A p \in DOMAIN heap' : heap'[p] = s \/ (p \in DOMAIN heap /\ heap'[p] = heap[p])
        BY <3>1, Zenon
      <3>4. \A p \in DOMAIN heap :
              heap[p] = s \/ (p \in DOMAIN heap' /\ heap'[p] = heap[p]
                                /\ (p \in forgotten' <=> p \in forgotten))
        BY <1>19, <2>12, <3>1, Zenon
      <3>5. \A k \in DOMAIN bulkPages \cup DOMAIN bulkPages' :
              k # n => k \in DOMAIN bulkPages /\ k \in DOMAIN bulkPages'
                         /\ bulkPages'[k] = bulkPages[k]
        BY <1>19, Zenon DEF With
      <3>6. forgotten' \subseteq {p \in DOMAIN heap' : heap'[p] \in Bulks}
        BY <1>19, <3>1, <3>2, Zenon
      <3>7. PagesOf(n)' = {p \in DOMAIN heap' : heap'[p] = s} \ forgotten'
        <4>1. PagesOf(n)' = PagesOf(n) \ {w}
          BY <1>19, Zenon DEF PagesOf, With
        <4> QED
          BY <1>19, <3>1, <3>2, <4>1, Zenon
      <3> QED
        BY <1>1, <1>3, <1>8, <3>3, <3>4, <3>5, <3>6, <3>7, BulkStepPages, Zenon
    <2> QED
      BY <1>3, <2>8, <2>9, <2>10, <2>11, <2>13, Zenon DEF Working, InUse
  <1> QED
    BY <1>3, <1>18, <1>19, Zenon

(* While the pool lives, its variables have their types.                   *)
LEMMA WorkingTypes ==
  ASSUME Working
  PROVE  MemPoolTypeOK
  <1>1. TablesInv /\ InUse /\ PagesInv /\ KeptInv
    BY Zenon DEF Working
  <1>2. DOMAIN heap \subseteq 1 .. MaxPages
    BY <1>1, Zenon DEF InUse, Apart, Pages
  <1>3. \A s \in Slots : slots[s].pages \subseteq 1 .. MaxPages /\ slots[s].cnt \in Nat
    <2>1. ASSUME NEW s \in Slots PROVE slots[s].pages \subseteq 1 .. MaxPages
      BY <1>1, <1>2, Zenon DEF PagesInv
    <2>2. ASSUME NEW s \in Slots PROVE slots[s].cnt \in Nat
      BY <1>1, Zenon DEF KeptInv, Kept
    <2> QED
      BY <2>1, <2>2, Zenon
  <1>4. \A n \in DOMAIN bulkPages : bulkPages[n] \subseteq 1 .. MaxPages
    <2> SUFFICES ASSUME NEW n \in DOMAIN bulkPages PROVE bulkPages[n] \subseteq 1 .. MaxPages
      BY Zenon
    <2>1. n \in 1 .. Wrap - 1 /\ PagesOf(n) = bulkPages[n]
      BY <1>1, Zenon DEF TablesInv, PagesOf
    <2>2. PagesOf(n) \subseteq DOMAIN heap
      BY <1>1, <2>1, Zenon DEF PagesInv
    <2> QED
      BY <1>2, <2>1, <2>2, Zenon
  <1>5. \A n \in DOMAIN hash : hash[n].cnt \in Nat
    BY <1>1, Zenon DEF KeptInv, Kept
  <1>6. tree \subseteq Nat
    <2>1. \A x \in 1 .. Wrap - 1 : x \in Nat
      BY PoolConstants
    <2> QED
      BY <1>1, <2>1, Zenon DEF TablesInv
  <1>7. \A h \in held : h.slot \in Slots \/ h.slot[1] = "Bulk"
    <2> SUFFICES ASSUME NEW h \in held PROVE h.slot \in Slots \/ h.slot[1] = "Bulk"
      BY Zenon
    <2>1. h.slot \in AllSlots
      BY <1>1, HeldIs, Zenon
    <2> QED
      BY <2>1, SlotNames, Zenon DEF AllSlots
  <1>8. forgotten \subseteq 1 .. MaxPages
    BY <1>1, <1>2, Zenon DEF PagesInv
  <1>9. {emptied, crashed, destroyed} \subseteq BOOLEAN
    BY <1>1, Zenon DEF TablesInv
  <1>10. requests \in SizeSets
    BY <1>1, Zenon DEF TablesInv
  <1> QED
    BY <1>2, <1>3, <1>4, <1>5, <1>6, <1>7, <1>8, <1>9, <1>10, Zenon DEF MemPoolTypeOK

(* And its lists and counts agree.                                         *)
LEMMA WorkingLists ==
  ASSUME Working
  PROVE  ListsAndCountsAgree /\ KeepsNoMoreThanResident
  <1>1. TablesInv /\ InUse /\ KeptInv /\ TreeInv
    BY Zenon DEF Working
  <1>2. ASSUME NEW s \in Slots
        PROVE  Lists[s] = slots[s].objs /\ Kept(slots[s], s) /\ s \in AllSlots
    BY <1>1, ListsAre, Zenon DEF ListsByTable, KeptInv, AllSlots
  <1>3. ASSUME NEW n \in DOMAIN hash
        PROVE  Lists[Bulk(n)] = hash[n].objs /\ Kept(hash[n], Bulk(n)) /\ Bulk(n) \in AllSlots
    <2>1. n \in 1 .. Wrap - 1
      BY <1>1, Zenon DEF TablesInv
    <2> QED
      BY <1>1, <2>1, ListsAre, SlotNames, Zenon DEF ListsByTable, KeptInv
  <1>4. ASSUME NEW s \in AllSlots PROVE {} \notin {Lists[s][p] : p \in DOMAIN Lists[s]}
    BY <1>1, ListIs, Zenon DEF IsList
  <1>5. ListsAndCountsAgree
    <2>1. ASSUME NEW s \in Slots
          PROVE  {} \notin {slots[s].objs[p] : p \in DOMAIN slots[s].objs}
                   /\ slots[s].cnt = CountOf(slots[s].objs)
      BY <1>2, <1>4, Zenon DEF Kept
    <2>2. ASSUME NEW n \in DOMAIN hash
          PROVE  {} \notin {hash[n].objs[p] : p \in DOMAIN hash[n].objs}
                   /\ hash[n].cnt = CountOf(hash[n].objs)
      BY <1>3, <1>4, Zenon DEF Kept
    <2>3. ~emptied => tree = DOMAIN hash /\ \A n \in tree : hash[n].cnt > 0
      BY <1>1, Zenon DEF TreeInv
    <2> QED
      BY <2>1, <2>2, <2>3, Zenon DEF ListsAndCountsAgree
  <1>6. KeepsNoMoreThanResident
    <2>1. ASSUME NEW s \in Slots, slots[s].cnt >= Limit(s)
          PROVE  \A p \in DOMAIN slots[s].objs : Cardinality(slots[s].objs[p]) < PageObjs(s)
      <3>1. s # Bulk(ReserveMax)
        BY SlotNames, SMT
      <3> QED
        BY <1>2, <2>1, <3>1, Zenon DEF Kept
    <2>2. ASSUME NEW n \in DOMAIN hash, hash[n].cnt >= Limit(Bulk(n)), n # ReserveMax
          PROVE  \A p \in DOMAIN hash[n].objs : Cardinality(hash[n].objs[p]) < PageObjs(Bulk(n))
      <3>1. Bulk(n) # Bulk(ReserveMax)
        BY <2>2, BulkIsInjective, Zenon
      <3> QED
        BY <1>3, <2>2, <3>1, Zenon DEF Kept
    <2> QED
      BY <2>1, <2>2, Zenon DEF KeepsNoMoreThanResident
  <1> QED
    BY <1>5, <1>6, Zenon

(* And the pages of the heap are those its tables name, and the forgotten. *)
LEMMA WorkingPages ==
  ASSUME Working
  PROVE  PagesAreKnown
  <1>1. TablesInv /\ InUse /\ PagesInv
    BY Zenon DEF Working
  <1>2. \A p \in Known : p \in DOMAIN heap /\ p \notin forgotten
    <2>1. ASSUME NEW p, NEW s \in Slots, p \in slots[s].pages
          PROVE  p \in DOMAIN heap /\ p \notin forgotten
      <3>1. p \in DOMAIN heap /\ heap[p] = s
        BY <1>1, <2>1, Zenon DEF PagesInv
      <3>2. heap[p] \notin Bulks
        BY <3>1, SlotNames, Zenon
      <3> QED
        BY <1>1, <3>1, <3>2, Zenon DEF PagesInv
    <2>2. ASSUME NEW p, NEW n \in DOMAIN bulkPages, p \in bulkPages[n]
          PROVE  p \in DOMAIN heap /\ p \notin forgotten
      <3>1. n \in 1 .. Wrap - 1 /\ PagesOf(n) = bulkPages[n]
        BY <1>1, Zenon DEF TablesInv, PagesOf
      <3> QED
        BY <1>1, <2>2, <3>1, Zenon DEF PagesInv
    <2> QED
      BY <2>1, <2>2, Zenon DEF Known
  <1>3. \A p \in DOMAIN heap : p \in Known \/ p \in forgotten
    <2> SUFFICES ASSUME NEW p \in DOMAIN heap, p \notin forgotten PROVE p \in Known
      BY Zenon
    <2>1. CASE heap[p] \in Slots
      <3>1. p \in slots[heap[p]].pages
        BY <1>1, <2>1, Zenon DEF PagesInv
      <3> QED
        BY <2>1, <3>1, Zenon DEF Known
    <2>2. ASSUME NEW n \in 1 .. Wrap - 1, heap[p] = Bulk(n) PROVE p \in Known
      <3>1. p \in PagesOf(n)
        BY <1>1, <2>2, Zenon DEF PagesInv
      <3>2. n \in DOMAIN bulkPages /\ p \in bulkPages[n]
        BY <3>1, Zenon DEF PagesOf
      <3> QED
        BY <3>2, Zenon DEF Known
    <2>3. heap[p] \in AllSlots
      BY <1>1, Zenon DEF PagesInv
    <2> QED
      BY <2>1, <2>2, <2>3, SlotIsFixedOrBulk, Zenon
  <1>4. forgotten \subseteq DOMAIN heap
    BY <1>1, Zenon DEF PagesInv
  <1>5. DOMAIN heap = Known \cup forgotten
    BY <1>2, <1>3, <1>4, Zenon
  <1>6. Known \cap forgotten = {}
    BY <1>2, Zenon
  <1> QED
    BY <1>5, <1>6, Zenon DEF PagesAreKnown

(* The tables' part of the inductive invariant is the one that is checked. *)
LEMMA WorkingInv ==
  ASSUME Working
  PROVE  MemPoolInv
  BY WorkingTypes, WorkingLists, WorkingPages, Zenon DEF MemPoolInv

(* The size of a page is a number.                                         *)
LEMMA PageSizeIsNat ==
  ASSUME NEW s \in AllSlots
  PROVE  SlotPageSize(s) \in Nat
  <1>1. CASE s[1] = "Tiny"
    BY <1>1, PoolConstants DEF SlotPageSize
  <1>2. CASE s[1] \in {"Small", "Big"} /\ s[2] \in Nat \ {0}
    <2>1. SlotPageSize(s) = ExpandSize(s[2], ExpandFactor)
      BY <1>2 DEF SlotPageSize
    <2> QED
      BY <1>2, <2>1, PoolConstants, ExpandIsLarger
  <1>3. CASE s[1] = "Bulk" /\ s[2] \in 1 .. Wrap - 1
    <2>1. s[2] \in Nat \ {0}
      BY <1>3, PoolConstants
    <2>2. ExpandSize(s[2], ExpandBulkFactor) \in Nat
      BY <2>1, PoolConstants, ExpandIsLarger
    <2>3. SlotPageSize(s) = IF s[2] < ReserveMax THEN ExpandSize(s[2], ExpandBulkFactor) ELSE s[2]
      BY <1>3 DEF SlotPageSize
    <2> QED
      BY <2>1, <2>2, <2>3
  <1> QED
    BY <1>1, <1>2, <1>3, SlotTypes

(* No free object is in use: the free lists of other slots have no object  *)
(* of this page.                                                           *)
LEMMA WorkingApart ==
  ASSUME Working
  PROVE  ObjectsAreApart
  <1>1. TablesInv /\ InUse /\ PagesInv
    BY Zenon DEF Working
  <1>2. ASSUME NEW h \in held
        PROVE  /\ <<h.page, h.obj>> \notin Free
               /\ h.size <= h.slot[2]
               /\ h.page \in DOMAIN heap /\ heap[h.page] = h.slot
               /\ End(h) <= SlotPageSize(h.slot)
    <2>1. /\ h.slot \in AllSlots /\ h.page \in DOMAIN heap /\ heap[h.page] = h.slot
          /\ h.obj \in 1 .. PageObjs(h.slot) /\ <<h.page, h.obj>> \notin FreeIn(Lists[h.slot])
      BY <1>1, HeldIs, Zenon
    <2>2. h.size <= h.slot[2]
      BY <1>1, Zenon DEF InUse, Apart, ObjectInUse
    <2>3. ASSUME NEW s \in AllSlots PROVE <<h.page, h.obj>> \notin FreeIn(Lists[s])
      <3>1. CASE s = h.slot
        BY <2>1, <3>1, Zenon
      <3>2. CASE s # h.slot
        <4>1. h.page \notin DOMAIN Lists[s]
          BY <1>1, <2>1, <3>2, ListIs, Zenon
        <4> QED
          BY <4>1, FreeInElements, Zenon
      <3> QED
        BY <3>1, <3>2, Zenon
    <2>4. <<h.page, h.obj>> \notin Free
      <3>1. ASSUME NEW s \in Slots PROVE <<h.page, h.obj>> \notin FreeIn(slots[s].objs)
        <4>1. s \in AllSlots /\ Lists[s] = slots[s].objs
          BY ListsAre, Zenon DEF ListsByTable, AllSlots
        <4> QED
          BY <2>3, <4>1, Zenon
      <3>2. ASSUME NEW n \in DOMAIN hash PROVE <<h.page, h.obj>> \notin FreeIn(hash[n].objs)
        <4>1. n \in 1 .. Wrap - 1
          BY <1>1, Zenon DEF TablesInv
        <4>2. Bulk(n) \in AllSlots /\ Lists[Bulk(n)] = hash[n].objs
          BY <4>1, ListsAre, SlotNames, Zenon DEF ListsByTable
        <4> QED
          BY <2>3, <4>2, Zenon
      <3> DEFINE x == <<h.page, h.obj>>
      <3>3. (\A s \in Slots : x \notin FreeIn(slots[s].objs))
              /\ (\A n \in DOMAIN hash : x \notin FreeIn(hash[n].objs))
        BY <3>1, <3>2, Zenon
      <3> HIDE DEF x
      <3>4. x \notin Free
        BY <3>3, Zenon DEF Free
      <3> QED
        BY <3>4, Zenon DEF x
    <2>5. End(h) <= SlotPageSize(h.slot)
      <3> DEFINE o == h.obj
                 n == PageObjs(h.slot)
                 size == h.slot[2]
                 page == SlotPageSize(h.slot)
      <3>1. size \in Nat /\ n \in Nat /\ n * size <= page
        BY <2>1, PageCounts
      <3>2. o \in 1 .. n
        BY <2>1, Zenon
      <3>3. End(h) = o * size
        BY Zenon DEF End
      <3>4. page \in Nat
        BY <2>1, PageSizeIsNat
      <3> HIDE DEF o, n, size, page
      <3>5. o \in Nat /\ o <= n
        BY <3>1, <3>2
      <3>6. o * size \in Nat /\ o * size <= n * size /\ n * size \in Nat
        BY <3>1, <3>5, MulMono
      <3>7. o * size <= page
        BY <3>1, <3>4, <3>6
      <3> QED
        BY <3>3, <3>7, Zenon DEF page
    <2> QED
      BY <2>1, <2>2, <2>4, <2>5, Zenon
  <1>3. ASSUME NEW g \in held, NEW h \in held, g.page = h.page, g # h
        PROVE  End(g) <= Begin(h) \/ End(h) <= Begin(g)
    <2> DEFINE i == g.obj
               j == h.obj
               size == h.slot[2]
    <2>1. /\ h.slot \in AllSlots /\ g.slot = h.slot
          /\ i \in 1 .. PageObjs(h.slot) /\ j \in 1 .. PageObjs(h.slot)
      BY <1>1, <1>3, HeldIs, Zenon
    <2>2. i # j
      BY <1>1, <1>3, Zenon DEF InUse, Apart, UsedOnce
    <2>3. size \in Nat /\ PageObjs(h.slot) \in Nat
      BY <2>1, PageCounts
    <2>4. /\ End(g) = i * size /\ Begin(g) = (i - 1) * size
          /\ End(h) = j * size /\ Begin(h) = (j - 1) * size
      BY <2>1, Zenon DEF End, Begin
    <2> HIDE DEF i, j, size
    <2>5. i \in Nat \ {0} /\ j \in Nat \ {0} /\ (i <= j - 1 \/ j <= i - 1)
      BY <2>1, <2>2, <2>3
    <2>6. i <= j - 1 => i * size <= (j - 1) * size
      BY <2>3, <2>5, MulMono
    <2>7. j <= i - 1 => j * size <= (i - 1) * size
      BY <2>3, <2>5, MulMono
    <2> QED
      BY <2>4, <2>5, <2>6, <2>7, Zenon
  <1> QED
    BY <1>2, <1>3, Zenon DEF ObjectsAreApart

(* The destructor changes only the heap.                                   *)
LEMMA DestroyStep ==
  ASSUME Working, Destroy
  PROVE  PoolIInv'
  <1>1. /\ destroyed' = TRUE /\ ~crashed
        /\ heap' = [p \in DOMAIN heap \ Known |-> heap[p]]
        /\ UNCHANGED <<requests, slots, bulkPages, hash, tree, forgotten, emptied, held, crashed>>
    BY Zenon DEF Destroy, Usable, bulkVars
  <1>2. MemPoolTypeOK /\ ListsAndCountsAgree /\ KeepsNoMoreThanResident
    BY WorkingTypes, WorkingLists, Zenon
  <1>3. DOMAIN heap' \subseteq DOMAIN heap
    BY <1>1, Zenon
  <1>4. MemPoolTypeOK'
    <2>1. {emptied', crashed', destroyed'} \subseteq BOOLEAN
      <3>1. emptied \in BOOLEAN /\ crashed \in BOOLEAN
        BY Zenon DEF Working, TablesInv
      <3> QED
        BY <1>1, <3>1, Zenon
    <2>2. DOMAIN heap' \subseteq 1 .. MaxPages
      BY <1>2, <1>3, Zenon DEF MemPoolTypeOK
    <2> QED
      BY <1>1, <1>2, <2>1, <2>2, Zenon DEF MemPoolTypeOK
  <1>5. ListsAndCountsAgree'
    BY <1>1, <1>2, ZenonT(30) DEF ListsAndCountsAgree
  <1>6. KeepsNoMoreThanResident'
    BY <1>1, <1>2, Zenon DEF KeepsNoMoreThanResident
  <1>7. PagesAreKnown'
    BY <1>1, Zenon DEF PagesAreKnown
  <1> QED
    BY <1>1, <1>4, <1>5, <1>6, <1>7, Zenon DEF PoolIInv, MemPoolInv, CrashesOnlyAfterLoss
(* A new pool has nothing.                                                 *)
LEMMA InitWorks ==
  ASSUME PoolInit
  PROVE  PoolIInv
  <1>1. /\ requests \in SizeSets
        /\ slots = [s \in Slots |-> [pages |-> {}, objs |-> Empty, cnt |-> 0]]
        /\ bulkPages = Empty /\ hash = Empty /\ tree = {} /\ heap = Empty /\ held = {}
        /\ forgotten = {} /\ emptied = FALSE /\ crashed = FALSE /\ destroyed = FALSE
    BY Zenon DEF PoolInit
  <1>2. \A s \in Slots : slots[s].pages = {} /\ slots[s].objs = Empty /\ slots[s].cnt = 0
    BY <1>1
  <1>3. DOMAIN slots = Slots
    BY <1>1, Zenon
  <1>4. DOMAIN hash = {} /\ DOMAIN bulkPages = {} /\ DOMAIN heap = {}
    BY <1>1, EmptyIs, Zenon
  <1>5. TablesInv
    BY <1>1, <1>3, <1>4, Zenon DEF TablesInv
  <1>6. KeptInv
    <2>1. CountOf(Empty) = 0
      BY EmptyList, EmptyIs, Zenon
    <2>2. 0 \in Nat
      OBVIOUS
    <2> QED
      BY <1>2, <1>4, <2>1, <2>2, EmptyIs, Zenon DEF KeptInv, Kept
  <1>7. TreeInv
    BY <1>1, <1>4, Zenon DEF TreeInv
  <1>8. InUse
    <2>1. ASSUME NEW t \in AllSlots PROVE Lists[t] = Empty
      <3>1. CASE t \in Slots
        BY <1>2, <3>1, ListsAre, Zenon DEF ListsByTable
      <3>2. ASSUME NEW n \in 1 .. Wrap - 1, t = Bulk(n) PROVE Lists[t] = Empty
        BY <1>4, <3>2, ListsAre, Zenon DEF ListsByTable
      <3> QED
        BY <3>1, <3>2, SlotIsFixedOrBulk, Zenon
    <2>2. \A t \in AllSlots : ListOfSlot(Lists, heap, t)
      BY <2>1, EmptyList, EmptyIs, Zenon DEF ListOfSlot
    <2> QED
      BY <1>1, <1>4, <2>2, Zenon DEF InUse, Apart, UsedOnce
  <1>9. PagesInv
    <2>1. \A s \in Slots : slots[s].pages = {p \in DOMAIN heap : heap[p] = s}
      BY <1>2, <1>4, Zenon
    <2>2. \A n \in 1 .. Wrap - 1 : PagesOf(n) = {p \in DOMAIN heap : heap[p] = Bulk(n)} \ forgotten
      BY <1>4, Zenon DEF PagesOf
    <2>3. \A p \in DOMAIN heap : heap[p] \in AllSlots
      BY <1>4, Zenon
    <2>4. forgotten \subseteq {p \in DOMAIN heap : heap[p] \in Bulks}
      BY <1>1, Zenon
    <2> QED
      BY <2>1, <2>2, <2>3, <2>4, Zenon DEF PagesInv
  <1>10. Working
    BY <1>5, <1>6, <1>7, <1>8, <1>9, Zenon DEF Working
  <1> QED
    BY <1>1, <1>10, WorkingInv, Zenon DEF PoolIInv, CrashesOnlyAfterLoss

(* A step that changes no variable.                                        *)
LEMMA StutterKeeps ==
  ASSUME PoolIInv, UNCHANGED poolVars
  PROVE  PoolIInv'
  <1>1. /\ UNCHANGED <<requests, slots, heap, held, crashed, destroyed>>
        /\ UNCHANGED <<bulkPages, hash, tree, forgotten, emptied>>
    BY Zenon DEF poolVars, bulkVars
  <1>2. MemPoolTypeOK' /\ ListsAndCountsAgree' /\ KeepsNoMoreThanResident'
    <2>1. MemPoolTypeOK /\ ListsAndCountsAgree /\ KeepsNoMoreThanResident
      BY Zenon DEF PoolIInv, MemPoolInv
    <2>2. MemPoolTypeOK'
      BY <1>1, <2>1, ZenonT(30) DEF MemPoolTypeOK
    <2>3. ListsAndCountsAgree'
      BY <1>1, <2>1, ZenonT(30) DEF ListsAndCountsAgree
    <2>4. KeepsNoMoreThanResident'
      BY <1>1, <2>1, ZenonT(30) DEF KeepsNoMoreThanResident
    <2> QED
      BY <2>2, <2>3, <2>4, Zenon
  <1>3. PagesAreKnown' /\ CrashesOnlyAfterLoss'
    BY <1>1, ZenonT(30) DEF PoolIInv, MemPoolInv, PagesAreKnown, Known, CrashesOnlyAfterLoss
  <1>4. ~destroyed' => Working'
    <2> SUFFICES ASSUME ~destroyed' PROVE Working'
      BY Zenon
    <2>1. Working
      BY <1>1, Zenon DEF PoolIInv
    <2>2. Lists' = Lists
      BY <1>1, Zenon DEF Lists, ListOf
    <2>3. TablesInv' /\ KeptInv' /\ TreeInv' /\ InUse'
      BY <1>1, <2>1, <2>2, Zenon DEF Working, TablesInv, KeptInv, TreeInv, InUse
    <2>4. PagesInv'
      BY <1>1, <2>1, SamePages, Zenon DEF Working
    <2> QED
      BY <2>3, <2>4, Zenon DEF Working
  <1> QED
    BY <1>2, <1>3, <1>4, Zenon DEF PoolIInv, MemPoolInv

(* Each call keeps the invariant while the pool lives.                     *)
LEMMA PoolStepKeeps ==
  ASSUME PoolIInv, [PoolNext]_poolVars
  PROVE  PoolIInv'
  <1>1. ASSUME ~crashed, Working', crashed' => forgotten' # {} \/ emptied'
        PROVE  PoolIInv'
    <2>1. MemPoolInv'
      BY <1>1, WorkingInv, PTL
    <2> QED
      BY <1>1, <2>1, Zenon DEF PoolIInv, CrashesOnlyAfterLoss
  <1>2. ASSUME Usable PROVE ~crashed /\ Working
    BY <1>2, Zenon DEF PoolIInv, Usable
  <1>3. ASSUME NEW size \in requests, GetFixed(size) PROVE PoolIInv'
    <2>1. ~crashed /\ Working
      BY <1>2, <1>3, Zenon DEF GetFixed, Asks
    <2>2. Working'
      BY <1>3, <2>1, GetFixedStep, Zenon
    <2>3. crashed' = crashed
      BY <1>3, Zenon DEF GetFixed, Take
    <2> QED
      BY <1>1, <2>1, <2>2, <2>3, Zenon
  <1>4. ASSUME NEW size \in requests, GetBulkExact(size) PROVE PoolIInv'
    <2>1. ~crashed /\ Working
      BY <1>2, <1>4, Zenon DEF GetBulkExact, Asks
    <2>2. Working' /\ (crashed' => crashed \/ emptied')
      BY <1>4, <2>1, GetBulkExactStep, Zenon
    <2> QED
      BY <1>1, <2>1, <2>2, Zenon
  <1>5. ASSUME NEW size \in requests, GetBulkLarger(size) PROVE PoolIInv'
    <2>1. ~crashed /\ Working
      BY <1>2, <1>5, Zenon DEF GetBulkLarger, Asks
    <2>2. Working' /\ (crashed' => crashed \/ emptied')
      BY <1>5, <2>1, GetBulkLargerStep, Zenon
    <2> QED
      BY <1>1, <2>1, <2>2, Zenon
  <1>6. ASSUME NEW size \in requests, GetBulkNew(size) PROVE PoolIInv'
    <2>1. ~crashed /\ Working
      BY <1>2, <1>6, Zenon DEF GetBulkNew, Asks
    <2>2. Working' /\ crashed' = crashed
      BY <1>6, <2>1, GetBulkNewStep, Zenon
    <2> QED
      BY <1>1, <2>1, <2>2, Zenon
  <1>7. ASSUME NEW h \in held, PutFixed(h) PROVE PoolIInv'
    <2>1. ~crashed /\ Working
      BY <1>2, <1>7, Zenon DEF PutFixed
    <2>2. Working' /\ crashed' = crashed
      BY <1>7, <2>1, PutFixedStep, Zenon DEF PutFixed
    <2> QED
      BY <1>1, <2>1, <2>2, Zenon
  <1>8. ASSUME NEW h \in held, DropBulk(h) PROVE PoolIInv'
    <2>1. ~crashed /\ Working
      BY <1>2, <1>8, Zenon DEF DropBulk
    <2>2. Working' /\ (crashed' => crashed \/ forgotten' # {})
      BY <1>8, <2>1, DropBulkStep, Zenon
    <2> QED
      BY <1>1, <2>1, <2>2, Zenon
  <1>9. ASSUME NEW h \in held, PutBulk(h) PROVE PoolIInv'
    <2>1. ~crashed /\ Working
      BY <1>2, <1>9, Zenon DEF PutBulk
    <2>2. Working' /\ crashed' = crashed
      BY <1>9, <2>1, PutBulkStep, Zenon
    <2> QED
      BY <1>1, <2>1, <2>2, Zenon
  <1>10. ASSUME Destroy PROVE PoolIInv'
    BY <1>2, <1>10, DestroyStep, Zenon DEF Destroy
  <1> QED
    BY <1>3, <1>4, <1>5, <1>6, <1>7, <1>8, <1>9, <1>10, StutterKeeps, Zenon DEF PoolNext

(* The pool's tables agree with each other and with the heap (MemPoolInv): *)
(* the free lists have no empty page and exact counts, which decide when a *)
(* page goes back to the system; a slot keeps more than its limit only     *)
(* while no page is free as a whole; and ~MemPool finds every page but     *)
(* those that a bulk slot forgot, and none twice.                          *)
THEOREM PoolTablesAgree == PoolSpec => []MemPoolInv
  <1>1. PoolInit => PoolIInv
    BY InitWorks, Zenon
  <1>2. PoolIInv /\ [PoolNext]_poolVars => PoolIInv'
    BY PoolStepKeeps, Zenon
  <1>3. PoolIInv => MemPoolInv
    BY Zenon DEF PoolIInv
  <1> QED
    BY <1>1, <1>2, <1>3, PTL DEF PoolSpec

(* Get and put dereference the end of a map only after a bulk slot forgot  *)
(* a page, or a larger slot gave its last object (CrashesOnlyAfterLoss).   *)
THEOREM PoolCrashesOnlyAfterLoss == PoolSpec => []CrashesOnlyAfterLoss
  <1>1. PoolInit => PoolIInv
    BY InitWorks, Zenon
  <1>2. PoolIInv /\ [PoolNext]_poolVars => PoolIInv'
    BY PoolStepKeeps, Zenon
  <1>3. PoolIInv => CrashesOnlyAfterLoss
    BY Zenon DEF PoolIInv
  <1> QED
    BY <1>1, <1>2, <1>3, PTL DEF PoolSpec

(* For any sizes, pages and requests, two objects in use never share       *)
(* memory, none is on a free list or on a freed page, and each is as large *)
(* as was asked for and lies within its page (ObjectsAreApart).            *)
THEOREM UsersNeverShareMemory == PoolSpec => []ObjectsAreApart
  <1>1. PoolInit => PoolIInv
    BY InitWorks, Zenon
  <1>2. PoolIInv /\ [PoolNext]_poolVars => PoolIInv'
    BY PoolStepKeeps, Zenon
  <1>3. PoolIInv => ObjectsAreApart
    <2>1. CASE destroyed
      BY <2>1, Zenon DEF ObjectsAreApart
    <2>2. CASE ~destroyed
      BY <2>2, WorkingApart, Zenon DEF PoolIInv
    <2> QED
      BY <2>1, <2>2, Zenon
  <1> QED
    BY <1>1, <1>2, <1>3, PTL DEF PoolSpec
=============================================================================
