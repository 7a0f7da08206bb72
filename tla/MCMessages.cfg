SPECIFICATION Spec
CONSTANTS
    Thread = {t1, t2}
    Block = {p1, p2, p3}
    Buf = {b1, b2, b3}
    None = None
    Bytes = Bytes
    IdMax = 3
SYMMETRY MCSymmetry
INVARIANTS MessagesInv MemoryAccounted IdsApart
CHECK_DEADLOCK FALSE
