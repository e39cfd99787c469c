SPECIFICATION LocksSpec
CONSTANTS
    None = None
    Threads = {t1, main}
    Tasks = {k1}
    CanPark = {t1}
    Waits = {w1, w2}
    MaxOps = 1
    Runners = {"a", "b"}
    MaxLimit = 2
    MaxKills = 1
INVARIANTS MutualExclusion NoSleepOnFreeLock AsyncQueueExact SlotsAndLockKept
PROPERTIES VerdictIsTheClocks ImplementsLock CallsReturn RunnersEnd
