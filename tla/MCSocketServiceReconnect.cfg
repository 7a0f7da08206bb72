SPECIFICATION Spec
CONSTANTS
    c1 = c1  c2 = c2  s1 = s1  p = p  r1 = r1
    NoHandler = NoHandler  NoPeer = NoPeer  NoWorker = NoWorker
    LocalHandler = LocalHandler  None = None
    Handler = {c1, c2}
    Dialled = {c1, c2}
    User = {u1}
    Pool = {}
    Worker = {w1, w2}
    Peer <- MCPeer
    LogicPeer <- MCLogicPeer
    RealPeer <- MCRealPeer
SYMMETRY MCSymmetry
INVARIANTS EpollForgetsDeleted RequestsAwaken
