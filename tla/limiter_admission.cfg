CONSTANTS
    c1 = c1
    c2 = c2
    u1 = u1
    ipA = ipA
    ipB = ipB
    None = None
    Conns = {c1, c2}
    Uuids = {u1}
    Uids = {1}
    IPs = {ipA, ipB}
    UserLists <- OneUser
    AliveMaps <- AliveOne
    Tolerances = {1}
    ExemptSets = {{ipB}}
    Ttls = {0, 1, 2}
    Streams = {TRUE, FALSE}
    NodeRate = 0
    Core = "sing"
    MaxNow = 2
    MaxReloads = 0
SPECIFICATION Spec
SYMMETRY SymConns
INVARIANTS
    CacheSound
    KickedStayOut
