CONSTANTS
    NodeCount = 2
    Faults = {"node", "users", "cert", "add", "populate"}
    MaxFaults = 3
    MaxEdits = 1
    MaxReloads = 1
    Day <- ShortDays
    Clock <- ShortClock
    Minutes = 13
    PerMinute = 2
    DayLength = 4
    Schedules <- OnAndOff
    MaxSuspends = 1
    MaxPlans = 1
SPECIFICATION MCSpec
CHECK_DEADLOCK FALSE
INVARIANTS
    RolledBack
    ClosedForGood
    RestartOnTime
PROPERTIES
    CloseEnds
    RestartInWindow
