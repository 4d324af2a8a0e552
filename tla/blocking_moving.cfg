SPECIFICATION MCSpec
CONSTANTS
    Devices = {d1, d2}
    Ips = {i1, i2}
    NoIp = NoIp
    Requests = {r1, r2}
    MaxRequests = 1
    MaxQuota = 1
    MaxAccepts = 0
    MaxFailures = 0
    MaxCrashes = 0
    MaxLeases = 1
    MaxEvidence = 0
    MaxSyncs = 0
SYMMETRY Symmetry
PROPERTIES
    BindingsEndOnEvidence
    FollowedDeviceStaysBlocked
