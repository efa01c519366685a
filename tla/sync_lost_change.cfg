CONSTANTS
    t1 = t1
    t2 = t2
    u1 = u1
    u2 = u2
    f1 = f1
    f2 = f2
    None = None
    Types = {t1, t2}
    Uuids = {u1, u2}
    Forms = {f1}
    Contents <- BodyEdits
    UserBodies <- OneList
    Core = "sing"
    Faults = {"users"}
    MaxFaults = 1
    MaxEdits = 1
    MaxPushes = 0
    MaxRetries = 0
SPECIFICATION SyncSpec
INVARIANTS
    KnownIsApplied
