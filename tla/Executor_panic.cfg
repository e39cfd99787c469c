SPECIFICATION WakeupsSpec
CONSTANTS
    None = None
    k1 = k1
    k2 = k2
    k3 = k3
    Tasks = {k1, k2, k3}
    Roots = {k1, k3}
    Child <- ChildOf
    MaxPending = 0
    MayPanic = {k1, k3}
PROPERTIES PanickedWorkerCloses
CHECK_DEADLOCK FALSE
