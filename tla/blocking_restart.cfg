SPECIFICATION MCSpec
CONSTANTS
    Devices = {d1, d2}
    Ips = {i1, i2}
    NoIp = NoIp
    Requests = {r1}
    MaxRequests = 1
    MaxQuota = 0
    MaxAccepts = 0
    MaxFailures = 1
    MaxCrashes = 1
    MaxLeases = 1
    MaxEvidence = 0
    MaxSyncs = 1
SYMMETRY Symmetry
INVARIANTS
    TypeOK
    ReconcilersExclude
PROPERTIES
    StartupMatchesPolicy
    StartupKeepsDesired
