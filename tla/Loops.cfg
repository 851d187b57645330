SPECIFICATION LoopsSpec
CONSTANTS
    Members = {"m1", "m2"}
    WinnerCount = 1
    RerollMax = 1
    Payees = {"u1"}
    PayWeeks = 2
    VoidsMax = 3
    BansMax = 2
    PayWindows = {1, 2}
    PayMinutes = 2
    PayFaults = {"between", "torn", "send"}
    Muted = {"m1", "m2"}
    MuteRoles = {"r1", "r2"}
    MuteChannels = {"c1"}
    MutesMax = 1
    RoleThere = {}
    People = {"m1"}
    Names = {"n1", "n2"}
    Requests = {"q1"}
    CodesMax = 1
    DeedsMax = 3
    DnhAtStart = {}
    CdaMembers = {"m1", "m2"}
    CdaNames = {"n1", "n2"}
    CdaAttempts = {1}
    CdaDeeds = 3
    Checked = {"m1", "m2"}
    Protected = {"m1"}
    CheckTasks = {1, 2}
    CheckDays = 1
    CheckDeeds = 3
INVARIANTS
    LoopsTypeOK
    
    RoleDeniesChannels
PROPERTIES
    LoopsFinish
    
    LinksAreKept
CHECK_DEADLOCK FALSE
