SPECIFICATION ServicesSpec
CONSTANTS
    b1 = b1
    Bots = {b1}
    Enabled = {b1}
    MaxInst = 3
    Faults = {"pidreuse", "shutdown", "midop", "crash", "disk", "latepipe"}
    w1 = w1
    w2 = w2
    c1 = c1
    c2 = c2
    Workers = {w1, w2}
    Home <- OneProcess
    Channels = {c1, c2}
    MaxBackups = 2
    MaxPreviews = 1
    MaxUsers = 1
    Retention = 1
    Capacity = 5
    BackupFaults = {"write", "crash"}
    WebActors = {"a1"}
    WebSlots = {1, 2}
    WebLimit = 2
    WebWindow = 2
    WebMax = 4
    DayLen = 4
    Spring = 30
    Autumn = 61
    Schedules <- MCSchedules
    Horizon = 112
SYMMETRY MCSymmetry
INVARIANTS
    ServicesTypeOK
    WindowHolds
    NeverSignalsForeign
PROPERTIES
    ConflictIsKept
    BackupsAreKept
    NextRunIsRight
CHECK_DEADLOCK FALSE
