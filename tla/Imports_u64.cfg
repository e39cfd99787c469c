SPECIFICATION GlueSpec
CONSTANTS
    Closures = {"c1", "c2", "c3"}
    ArityOf <- ArityIs
    Payloads = {"v"}
    MaxIndex = 6
    MaxHeld = 2
    MaxDepth = 2
    Captures = TRUE
    Unparkers = {u1, u2}
    MaxParks = 3
    MaxUnparks = 2
    Length = 3
    MaxLen = 3
    MaxU64 = 5
    Workers = {"w"}
    Root = "root"
    Sizes = {1, 2}
    MaxRecord = 2
    MaxRecords = 2
    MaxBytes = 3
    MaxPending = 2
    MaxStructured = 3
    MaxBody = 6
    MaxLogged = 3
    Conns = {"c1", "c2"}
    Plans <- ServedPlans
    Routes <- ServedRoutes
    Disk <- ServedDisk
    MaxRequest = 4
    Short = 2
    Medium = 4
    MaxFrame = 5
CHECK_DEADLOCK FALSE
INVARIANTS OptionalU64Crosses
