SPECIFICATION MCSpec
CONSTANTS
    Devices = {d1}
    NoDevice = NoDevice
    Bytes = 3
    Minutes = 2
    Failures = 1
    Recreations = 1
    Exits = 1
INVARIANTS
    AccountingTypeOK
    NeverOvercounted
PROPERTIES
    BytesConserved
    BucketsAreWritten
CHECK_DEADLOCK FALSE
