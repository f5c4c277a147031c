SPECIFICATION Spec
CONSTANTS
    d1 = d1
    d2 = d2
    d3 = d3
    d4 = d4
    e1 = e1
    e2 = e2
    Deliveries = {d1}
    Endpoints = {e1}
    EndpointOf <- OneEndpoint
    Dispatchers = {p1, p2}
    ClaimIds = {c1, c2, c3}
    NoClaim = NoClaim
    MaxAttempts = 2
    MaxConcurrent = 1
    MaxCrashes = 0
    MaxFaults = 0
    MaxLate = 1
    MaxReplays = 0
    MaxDeletes = 0
PROPERTIES
    SettledNeverPickedUp
