SPECIFICATION MCBlockedSpec
CONSTANTS
    Devices = {d1, d2}
    Ips = {i1, i2}
    NoIp = NoIp
    Requests = {r1}
    MaxRequests = 1
    MaxQuota = 0
    MaxAccepts = 0
    MaxFailures = 0
    MaxCrashes = 0
    MaxLeases = 2
    MaxEvidence = 0
    MaxSyncs = 0
PROPERTIES
    ConvergesToBlocked
