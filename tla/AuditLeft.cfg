SPECIFICATION AuditSpec
CONSTANTS
    Targets = {"m1", "m2"}
    Happenings = {"kick", "ban", "leave"}
    Scan = 2
    AuditMax = 2
INVARIANTS
    LeftIsNotKicked
CHECK_DEADLOCK FALSE
