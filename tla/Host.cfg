SPECIFICATION HostSpec
CONSTANTS
    Main = "main"
    None = "none"
    Threads = {"t1", "t2"}
    Blocks = {"b1", "b2"}
    MayPanic = {"t1", "t2"}
    MayFail = {"t2"}
    Sleeps = {"f", "g"}
    Proxies = {"w"}
    Root = "root"
    Durations = {0, 3}
    MaxTimeout = 2
    TokenSpace = 6
    Alarms = {"s", "t", "u"}
    AlarmDurations = {0, 1, 3}
    Futures = {"f", "g"}
    Readers = {"r", "q"}
    Asks <- HostAsks
    Jobs = {"j", "k"}
    Length = 2
    MaxLen = 2
    MaxU64 = 2
    Modules <- HostModules
    MaxBodies = 2
    MaxPolls = 1
CHECK_DEADLOCK FALSE
INVARIANTS
    StorageInUse OneTrueVerdict
    TimersOnTime AwaitsAreAnswered PassMeansAllDone
PROPERTIES
    WorkersJoined SleepEnds RunEnds
