SPECIFICATION MCSpec
CONSTANTS
    Inputs = {a, b}
    Existing = existing
    Requests = {r1}
    None = none
    MaxRequests = 3
    MaxFaults = 3
SYMMETRY Symmetry
INVARIANT
    SetupTypeOK
PROPERTIES
    RollbackUndoes
    FailedApplyRestores
    SuccessIsWhole
CHECK_DEADLOCK FALSE
