SPECIFICATION InstancesSpec
CONSTANTS
    Ops = {"o1", "o2"}
    Kinds = {"load", "unload", "reload", "reload_all", "sync"}
    Cogs = {"c1", "c2"}
    MaxInst = 2
    MaxExecutions = 2
    MaxSeq = 2
    MaxFlight = 2
    Resumes = TRUE
INVARIANTS
    InstancesTypeOK
    BeliefsAreRight
PROPERTIES
    SucceededTookEffect
    OperationsEnd
    HealthIsShown
CHECK_DEADLOCK FALSE
