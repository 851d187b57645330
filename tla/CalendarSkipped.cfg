SPECIFICATION CalendarSpec
CONSTANTS
    DayLen = 4
    Spring = 30
    Autumn = 61
    Schedules <- SundayNight
    Horizon = 112
INVARIANTS
    NextIsFound
CHECK_DEADLOCK FALSE
