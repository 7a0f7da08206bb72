SPECIFICATION Spec
CONSTANTS
    c1 = c1  c2 = c2  s1 = s1  p = p  r1 = r1
    NoHandler = NoHandler  NoPeer = NoPeer  NoWorker = NoWorker
    LocalHandler = LocalHandler  None = None
    Handler = {c1, s1}
    Dialled = {c1}
    User = {u1}
    Pool = {t1}
    Worker = {w1}
    Peer <- MCPeer
    LogicPeer <- MCLogicPeer
    RealPeer <- MCRealPeer
SYMMETRY MCSymmetry
INVARIANTS FinishMeetsLiveHandler LookupMeetsLiveHandler DeletedOnce MapsAgree
