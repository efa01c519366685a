CONSTANTS
    t1 = t1
    t2 = t2
    u1 = u1
    u2 = u2
    f1 = f1
    f2 = f2
    None = None
    Types = {t1, t2}
    Uuids = {u1, u2}
    Forms = {f1, f2}
    Contents <- BodyEdits
    UserBodies <- ListEdits
    Core = "sing"
    Faults = {"node", "del", "cert", "add", "populate"}
    MaxFaults = 2
    MaxEdits = 2
    MaxPushes = 1
    MaxRetries = 0
SPECIFICATION FairSyncSpec
INVARIANTS
    CacheTruthful
    KnownIsApplied
    UsersApplied
PROPERTIES
    NoRepeatedHandover
    Converges
