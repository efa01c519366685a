CONSTANTS
    Users = {u}
    Conns = {1, 2}
    None = 0
    MinTraffic = 0
    MaxTransfers = 1
    MaxSyncs = 2
    MaxReports = 2
    Networks = {"tcp", "udp"}
    Extra = {TRUE}
    Budget = 2
    MaxChunks = 3
SPECIFICATION MCSpec
INVARIANTS
    
    LinksMatch
    Delivered
    FakeNeverDialled
CHECK_DEADLOCK FALSE
