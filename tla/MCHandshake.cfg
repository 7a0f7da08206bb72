SPECIFICATION FairSpec
CONSTANTS
    A = A  B = B  c1 = c1  c2 = c2  c3 = c3
    NoConn = NoConn
    Node = {A, B}
    Conn = {c1, c2, c3}
    Client <- MCClient
    Server <- MCServer
    ClientMayDie = TRUE
    ShortReads = TRUE
INVARIANTS ClientHasServer OneConnectionPerPeer
PROPERTY HandshakeEnds
CHECK_DEADLOCK FALSE
