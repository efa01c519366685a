CONSTANTS
    t1 = t1
    t2 = t2
    u1 = u1
    u2 = u2
    f1 = f1
    f2 = f2
    None = None
    Types = {t1, t2}
    Uuids = {u1, u2}
    Forms = {f1}
    Contents <- InPlaceEdits
    UserBodies <- ListEdits
    Core = "xray"
    Faults = {"node", "retier", "delUsers", "addUsers"}
    MaxFaults = 2
    MaxEdits = 3
    MaxPushes = 1
    MaxRetries = 0
SPECIFICATION SyncSpec
INVARIANTS
    LimiterFollowsList
PROPERTIES
    SessionsKept
