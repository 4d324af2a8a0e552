SPECIFICATION MCSpec
CONSTANTS
    Devices = {d1}
    Requests = {r1}
    Collector = collector
    Scheduler = scheduler
    Rates = {slow}
    Throttle = throttle
    Amounts = {2}
    MaxUsed = 2
    LastDay = 1
    None = none
    RuleBlocked = none
    RuleLimit = slow
    MaxEvents = 2
INVARIANT
    PolicyTypeOK
PROPERTIES
    LimitsSettle
    QuotaTakesEffect
