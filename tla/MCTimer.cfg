SPECIFICATION Spec
CONSTANTS
    Callbacks = {1, 2}
    Horizon = 2
    MaxEvents = 3
CHECK_DEADLOCK FALSE
INVARIANTS TimerInv OversleepsOnlyAfterRace
PROPERTIES SubscribedFires DestructorReturns
