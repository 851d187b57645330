SPECIFICATION LiveSpec
CONSTANTS
    r1 = r1
    r2 = r2
    w1 = w1
    w2 = w2
    NTasks = 1
    Runners = {r1}
    Webs = {}
    Skipping = {}
    Schedules <- MCSchedules
    Grace = 1
    HistoryLimit = 9
    MaxTasks = 2
    MaxTime = 3
    MaxRows = 2
    MaxEdits = 1
    Faults = {"crash"}
PROPERTIES
    DueIsSettled
CHECK_DEADLOCK FALSE
