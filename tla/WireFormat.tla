----------------------------- MODULE WireFormat -----------------------------
(***************************************************************************)
(* A message on the wire: a header of three integers (magic number, id,    *)
(* length of the payload), most significant byte first, and the payload.   *)
(* The code's integers have four bytes of 256 values; here both numbers    *)
(* are constants.  A cell of a buffer is a byte with the message and the   *)
(* place in it that it was written for: <<byte, m, i>>.  The program sees  *)
(* the byte only.                                                          *)
(***************************************************************************)
EXTENDS Integers, Sequences, Buffer

CONSTANTS Msg,
          Base, FieldBytes,      \* 256 and sizeof(uint32_t)
          Magic, MaxPayload,     \* MESSAGE_MAGIC_NO, MAX_MSG_PAYLOAD_SIZE
          MsgId, PayloadLen      \* a message's id and GetDerivePayloadLength()

HeaderSize == 3 * FieldBytes

\* How many values i bytes have, and the largest of an integer.
Values[i \in 0 .. FieldBytes] == IF i = 0 THEN 1 ELSE Base * Values[i - 1]
UIntMax == Values[FieldBytes] - 1

\* Encode throws for an empty payload and for one beyond MaxPayload; MoveHeadBack and
\* check_available rely on there being a payload.
ASSUME Lengths == /\ FieldBytes \in Nat \ {0} /\ Base \in Nat \ {0, 1}
                  /\ Magic \in 0 .. UIntMax /\ MaxPayload \in 1 .. UIntMax
                  /\ PayloadLen \in [Msg -> 1 .. MaxPayload]
                  /\ MsgId \in [Msg -> 1 .. UIntMax - 1]

-----------------------------------------------------------------------------
(* Integers of FieldBytes bytes: WriteUInt16, 32 and 64 are this for 2, 4  *)
(* and 8 bytes.  ByteOrderUtils on a little-endian machine shifts byte by  *)
(* byte: writing from the last byte on, reading from the first.            *)
WriteUInt(n) ==
    LET shifted[k \in 0 .. FieldBytes - 1] == IF k = 0 THEN n ELSE shifted[k - 1] \div Base
    IN  [i \in 1 .. FieldBytes |-> shifted[FieldBytes - i] % Base]

ReadUInt(bytes) ==
    LET value[i \in 0 .. FieldBytes] == IF i = 0 THEN 0 ELSE value[i - 1] * Base + bytes[i]
    IN  value[FieldBytes]

-----------------------------------------------------------------------------
(* Sending: SndMessage::Encode.                                            *)
Blank(m) == <<0, m, 0>>

\* One field at the head, which moves behind it.
WriteField(b, n, m) ==
    MoveHeadBack(Fill(b, b.pos, [i \in 1 .. FieldBytes |-> <<WriteUInt(n)[i], m, b.pos + i - 1>>]),
                 FieldBytes)

encode_header(b, h, m) == WriteField(WriteField(WriteField(b, h.magic, m), h.id, m), h.len, m)

\* The payload is a matter of the derived class; its bytes count 1, 2, ...
EncodeDerive(b, m) ==
    Fill(b, b.pos, [i \in 1 .. PayloadLen[m] |-> <<i % Base, m, HeaderSize + i>>])

Encode == [m \in Msg |->
    LET h == [magic |-> Magic, id |-> MsgId[m], len |-> PayloadLen[m]]
        b == GetNewAvailableBuffer(HeaderSize + PayloadLen[m], Blank(m))
    IN SetPos(EncodeDerive(encode_header(b, h, m), m), Start(b))]

-----------------------------------------------------------------------------
(* Receiving: RcvMessage::DecodeMsgHeader.                                 *)
ReadField(b, k) ==
    ReadUInt([i \in 1 .. FieldBytes |-> b.data[b.pos + (k - 1) * FieldBytes + i - 1][1]])

HeaderOf(b) == [magic |-> ReadField(b, 1), id |-> ReadField(b, 2), len |-> ReadField(b, 3)]

\* Mutant of DecodeMsgHeader: the longest payload is refused.
DecodeMsgHeaderShort(b) ==
    AvailableLength(b) >= HeaderSize /\ HeaderOf(b).magic = Magic /\ HeaderOf(b).len < MaxPayload

\* Whether the header is taken; id and length are not checked against anything else.
DecodeMsgHeader(b) ==
    AvailableLength(b) >= HeaderSize /\ HeaderOf(b).magic = Magic /\ HeaderOf(b).len <= MaxPayload
=============================================================================
