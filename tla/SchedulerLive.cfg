SPECIFICATION LiveSpec
CONSTANTS
    r1 = r1
    r2 = r2
    w1 = w1
    w2 = w2
    NTasks = 2
    Runners = {r1}
    Webs = {}
    Skipping = {2}
    Schedules <- MCSchedules
    Grace = 1
    HistoryLimit = 9
    MaxTasks = 2
    MaxTime = 3
    MaxRows = 4
    MaxEdits = 3
    Faults = {"revoke"}
INVARIANT
    ClaimedIsNotDue
PROPERTIES
    DueIsSettled
    ExecutionsEnd
CHECK_DEADLOCK FALSE
