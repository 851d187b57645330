SPECIFICATION Spec
ACTION_CONSTRAINT OneInstance
CONSTANTS
    r1 = r1
    r2 = r2
    w1 = w1
    w2 = w2
    NTasks = 1
    Runners = {r1, r2}
    Webs = {w1, w2}
    Skipping = {}
    Schedules <- MCSchedules
    Grace = 1
    HistoryLimit = 9
    MaxTasks = 2
    MaxTime = 5
    MaxRows = 4
    MaxEdits = 3
    Faults = {"crash", "revoke", "deploy", "webcrash"}
INVARIANTS
    TypeOK
    RunsAreAccounted
PROPERTIES
    OccurrenceOnce
CHECK_DEADLOCK FALSE
