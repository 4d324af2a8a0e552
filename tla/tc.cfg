SPECIFICATION MCSpec
CONSTANTS
    Devices = {d1, d2}
    Requests = {r1}
    Reconciler = reconciler
    Ips = {i1, i2, i3}
    Rates = {slow}
    Classes = {d1, d2}
    ClassOf <- MCClassOf
    Priorities = 5
    FilterBase <- MCFilterBase
    RedirectBase <- MCRedirectBase
    None = none
    MaxAsks = 1
    MaxEvents = 1
INVARIANT TcTypeOK
PROPERTIES
    LimitsReached
    LimitsRemoved
    BaseRemoved
    ExpectedKept
