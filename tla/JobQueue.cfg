SPECIFICATION FairSpec
CONSTANTS
    control = control
    deliver = deliver
    compose = compose
    w1 = w1
    w2 = w2
    NoJob = NoJob
    Keys <- MCKeys
    Roots <- MCRoots
    Follow <- MCFollow
    Workers <- MCWorkers
    Priority <- MCPriority
    Lowest = 2
    MaxAttempts = 2
    MaxCrashes = 1
    MaxOverruns = 1
INVARIANTS TypeOK AttemptsBounded HoldersBounded ChainKept HigherQueuesFirst
PROPERTIES EventuallySettled ImplementsAtLeastOnce
