------------------------------- MODULE Buffer -------------------------------
(***************************************************************************)
(* common::Buffer: a block of memory with two cursors.  The used part runs *)
(* from pos to last, both included; a null cursor is Null.  No operation   *)
(* checks the cursors against the block: their callers keep them inside.   *)
(* A buffer is a record [data, pos, last, available]; its block starts at  *)
(* index 1 and ends at Len(data).                                          *)
(***************************************************************************)
LOCAL INSTANCE Integers
LOCAL INSTANCE Sequences

Null == 0
Start(b) == 1
End(b) == Len(b.data)

\* check_available: the cursors are set and in order.
CheckAvailable(b) ==
    [b EXCEPT !.available = b.data # <<>> /\ b.pos # Null /\ b.last # Null /\ b.pos <= b.last]

\* A null Buffer pointer: no data, and AvailableLength is taken for 0.
NoBuffer == [data |-> <<>>, pos |-> Null, last |-> Null, available |-> FALSE]

\* GetNewBuffer: a block of `size` cells without content.
GetNewBuffer(size, blank) ==
    [data |-> [i \in 1 .. size |-> blank], pos |-> Null, last |-> Null, available |-> FALSE]

\* GetNewAvailableBuffer: the whole block counts as used.
GetNewAvailableBuffer(size, blank) ==
    CheckAvailable([GetNewBuffer(size, blank) EXCEPT !.pos = 1, !.last = size])

BZero(b, blank) == GetNewBuffer(Len(b.data), blank)

SetPos(b, p) == CheckAvailable([b EXCEPT !.pos = p])

TotalLength(b) == End(b) - Start(b) + 1
AvailableLength(b) == IF b.available THEN b.last - b.pos + 1 ELSE 0

\* Nothing is unused in a buffer that is not available, not even in an empty one.
UnusedSize(b) ==
    IF ~b.available THEN 0 ELSE IF b.last # Null THEN End(b) - b.last ELSE TotalLength(b)

\* For n > 0: n - 1 is unsigned in the code, and no caller passes 0.
MoveHeadBack(b, n) ==
    IF b.pos = Null \/ b.last = Null THEN [b EXCEPT !.available = FALSE]
    ELSE [b EXCEPT !.available = (b.last - b.pos) > n - 1, !.pos = @ + n]

MoveTailBack(b, n) ==
    IF b.last # Null THEN [b EXCEPT !.last = @ + n]
    ELSE CheckAvailable([b EXCEPT !.last = Start(b) + n - 1])

\* memcpy and read() into the block, from index `at`.
Fill(b, at, cells) ==
    [b EXCEPT !.data = [i \in DOMAIN @ |->
        IF i \in at .. at + Len(cells) - 1 THEN cells[i - at + 1] ELSE @[i]]]

\* The cells from `at`, n of them.
Cells(b, at, n) == SubSeq(b.data, at, at + n - 1)

\* The cursors stay in the block.
Inside(b) == b.last <= End(b) /\ b.pos <= End(b) + 1
=============================================================================
