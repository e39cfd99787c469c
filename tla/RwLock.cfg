SPECIFICATION FairSpec
CONSTANTS
    None = None
    Threads = {t1,t2}
    Tasks = {k1}
    CanPark = {t1,t2}
    Waits = {w1, w2}
    MaxOps = 1
INVARIANTS Exclusion NoSleepWhenAvailable
PROPERTIES ImplementsRwLock AllCallsReturn
