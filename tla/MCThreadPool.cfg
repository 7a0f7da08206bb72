SPECIFICATION Spec
CONSTANTS
    Workers = {w1, w2}
    Users = {u1, u2}
    Tasks = {a, b, c}
    EmptyTask = EmptyTask
CHECK_DEADLOCK FALSE
INVARIANTS PoolInv
PROPERTIES WaitAllMissesOnlyUncounted AddedTaskRuns DestructorReturns
