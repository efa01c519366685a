CONSTANTS
    Names = {1, 2}
    Kinds = {"anytls", "artx", "shadowtls", "naive", "hysteria2"}
    Users = {u, v}
    MaxFaults = 2
    MaxStarts = 2
    None = None
    range1 = range1
    Tags <- TwoTags
    Redirects <- TwoPorts
    Commands <- BothFamilies
    Faults = {"list", "add", "delete"}
    MaxHopFaults = 1
    MaxRestarts = 1
    MaxFlushes = 1
SPECIFICATION MCSpec
CHECK_DEADLOCK FALSE
INVARIANTS
    NoHalfNode
    ServesUsers
    UDPStatusTrue
    RecordMatchesChain
PROPERTIES
    OperatorRulesStay
