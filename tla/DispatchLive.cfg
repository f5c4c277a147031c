SPECIFICATION FairSpec
CONSTANTS
    d1 = d1
    d2 = d2
    d3 = d3
    d4 = d4
    e1 = e1
    e2 = e2
    Deliveries = {d1, d2}
    Endpoints = {e1}
    EndpointOf <- OneEndpoint
    Dispatchers = {p1}
    ClaimIds = {c1, c2, c3}
    NoClaim = NoClaim
    MaxAttempts = 2
    MaxConcurrent = 1
    MaxCrashes = 1
    MaxFaults = 1
    MaxLate = 0
    MaxReplays = 0
    MaxDeletes = 0
INVARIANTS
    BoundedConcurrency
PROPERTIES
    ExitAbandonsNothing
    EventuallySettled
    ShutdownCompletes
