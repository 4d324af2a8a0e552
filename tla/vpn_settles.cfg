SPECIFICATION MCFairSpec
CONSTANTS
    Handlers = {h1}
    Ips = {i1}
    MaxRules = 6
    MaxCalls = 1
    MaxTroubles = 1
    MaxChanges = 2
INVARIANTS
    VpnTypeOK
PROPERTIES
    TunnelSettles
    SuccessIsExact
    GuardCatchesUp

CHECK_DEADLOCK FALSE
