CONSTANTS
  Users = {u1}
  Pool = {p1}
  Workers <- MCWorkers
  Handlers = {1, 2, 3}
  Dialled = {1, 2}
  p = p  r = r
  LogicPeer <- MCLogicPeer
  RealPeer <- MCRealPeer
  Listener = Listener
  NoThread = NoThread
  None = None
SPECIFICATION Spec
INVARIANTS LifecycleInv StopLeavesOnly NoConnectionForgotten
PROPERTY StopReturns
CHECK_DEADLOCK FALSE
