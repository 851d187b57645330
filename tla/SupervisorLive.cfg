SPECIFICATION LiveSpec
CONSTANTS
    b1 = b1
    Bots = {b1}
    Enabled = {b1}
    MaxInst = 3
    Faults = {"pidreuse", "shutdown", "idlecrash"}
INVARIANTS
    TypeOK
    AtMostOneLive
    RecordsAreTrue
PROPERTIES
    OperationsEnd
    StopEndsProcess
    ChildExitIsNoticed
    ImplementsSlots
