SPECIFICATION Spec
CONSTANTS
    i1 = i1
    i2 = i2
    t1 = t1
    t2 = t2
    o1 = o1
    o2 = o2
    p1 = p1
    start = start
    stop = stop
    Ids = {i1, i2}
    Tabs = {t1}
    Operators = {o1, o2}
    Passwords = {p1}
    Permissions = {start, stop}
    Commands <- MCCommands
    MaxSessions = 1
    MaxTokens = 2
    MaxEdits = 2
SYMMETRY MCSymmetry
INVARIANTS
    TypeOK
PROPERTIES
    AcceptedIsCurrent
    AdministratorRemains
    EditIsExact
CHECK_DEADLOCK FALSE
