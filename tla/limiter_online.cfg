CONSTANTS
    c1 = c1
    c2 = c2
    u1 = u1
    ipA = ipA
    ipB = ipB
    None = None
    Conns = {c1, c2}
    Uuids = {u1}
    Uids = {1, 2}
    IPs = {ipA, ipB}
    UserLists <- EditedUsers
    AliveMaps <- NobodyAlive
    Tolerances = {1}
    ExemptSets = {{}}
    Ttls = {}
    Streams = {TRUE, FALSE}
    NodeRate = 0
    Core = "sing"
    MaxNow = 1
    MaxReloads = 1
SPECIFICATION Spec
SYMMETRY SymConnsIPs
INVARIANTS
    ReportExact
PROPERTIES
    ImplementsRegistry
