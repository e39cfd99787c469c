SPECIFICATION WakeupsSpec
CONSTANTS
    None = None
    k1 = k1
    k2 = k2
    k3 = k3
    Tasks = {k1, k2, k3}
    Roots = {k1, k3}
    Child <- ChildOf
    MaxPending = 1
    MayPanic = {k1, k3}
INVARIANTS SleepsWakeably OneTickChain TasksAccounted
PROPERTIES TasksComplete WorkerOfPartCloses ItemsReachSleepers
CHECK_DEADLOCK FALSE
