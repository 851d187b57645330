SPECIFICATION BotsSpec
CONSTANTS
    Extensions = {"e1", "e2"}
    Readies = {1, 2}
    Pages = 3
    EditMax = 2
    Entrants = {"u1", "u2"}
    Staff = {"s1", "s2"}
    EntriesMax = 3
    Emojis = {"e1", "e2"}
    Rejected = {"e2"}
    Admins = {"a1", "a2"}
    TogglesMax = 1
    AddsMax = 3
    Targets = {"m1", "m2"}
    Happenings = {"kick", "ban", "leave", "overwrites", "message", "roles", "voice", "join", "channel"}
    Scan = 2
    AuditMax = 2
    Messages = {"x1"}
    Flags = {"f1", "f2"}
    EditsMax = 2
    Punished = {"m1"}
    Applicants = {"q1", "q2"}
    InvitesMax = 1
    AppFaults = {"crash", "undo"}
    WatchMaxTime = 3
    Milestones = {1}
    FailureAlert = 2
    WatchOps = {{"sync", "restart"}, {"force"}, {"manual"}}
    TimeMax = 6
    Requesters = {"r1", "r2"}
    Interval = 2
    RetryAfter = {1, 3}
    PaceMax = 9
    Profiles = {"p1", "p2"}
    Scanners = {"loop", "command"}
    HideMax = 2
    Ids = {"i1", "i2"}
    Clerks = {"c1", "c2"}
    PayDays = 2
    MonthEnds = 1
    BackupDays = 0
    PayEdits = 1
INVARIANTS
    BotsTypeOK
    
    
    
    RequestsAreSpaced
PROPERTIES
    StepsAreSound
CHECK_DEADLOCK FALSE
