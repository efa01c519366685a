CONSTANTS
    MaxRuns = 4
    None = None
    Senders = {s1}
    Loop = Loop
    Stopper = Stopper
    MaxConns = 2
    Mains <- PlainMains
    Refs = {r1, r2}
    Workers = {w1, w2}
    MaxWrites = 3
    MaxRefs = 1
    MaxFaults = 2
    Users = {u1, u2}
    IPs = {ipA, ipB}
    MaxLosses = 1
    Updaters = {d1, d2}
    Addresses = {ipA, ipB}
    MaxUpsets = 3
    Members = {u1}
    DeviceIPs = {ipA}
    Proxies = {ipB}
    MaxEvents = 4
SPECIFICATION LoopsSpec
CHECK_DEADLOCK FALSE
INVARIANTS
    OneLiveRun
    OneSocket
    StoppedStaysDown
    ShownAreRemembered
PROPERTIES
    StopEnds
    ShutdownEnds
    LastEditApplied
    EstablishedStay
    OfflineCleared
    RecordRepaired
    AliveSettles
