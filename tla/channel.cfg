SPECIFICATION Spec
CONSTANTS
    m1 = m1
    r1 = r1
    r2 = r2
    Nobody = Nobody
    Calls <- MCCalls
    Mutations <- MCMutations
    Rejected <- MCRejected
    MaxAttempts = 2
    MaxBackground = 1
INVARIANT ChannelTypeOK
PROPERTIES
    ImplementsService
    EveryCallReturns
CHECK_DEADLOCK FALSE
