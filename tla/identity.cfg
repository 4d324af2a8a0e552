CONSTANTS
    Clients = {c}
    AccessPoints = {a}
    None = None
    Sync = Sync
    Lists = {l}
    Threshold = 2
    MaxChanges = 1
    MaxDiscoveries = 2
    MaxAccepts = 1
    MaxFaults = 1
SPECIFICATION MCSpec
INVARIANT IdentityTypeOK
PROPERTY TrustKept
PROPERTY EvidencePrecedesTrust
PROPERTY AccessPointsDemoted
