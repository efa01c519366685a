CONSTANTS
    NodeCount = 1
    Faults = {"cert"}
    MaxFaults = 1
    MaxEdits = 0
    MaxReloads = 0
SPECIFICATION FairSpec
CHECK_DEADLOCK FALSE
PROPERTIES
    AllComeUp
