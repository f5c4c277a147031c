SPECIFICATION Spec
CONSTANTS
    d1 = d1
    d2 = d2
    d3 = d3
    d4 = d4
    e1 = e1
    e2 = e2
    Deliveries = {d1, d2}
    Endpoints = {e1, e2}
    EndpointOf <- TwoEndpoints
    Dispatchers = {p1, p2}
    ClaimIds = {c1, c2, c3}
    NoClaim = NoClaim
    MaxAttempts = 2
    MaxConcurrent = 2
    MaxCrashes = 0
    MaxFaults = 1
    MaxLate = 0
    MaxReplays = 0
    MaxDeletes = 1
SYMMETRY SymmetricActors
INVARIANTS
    AttemptsAccounted
PROPERTIES
    ImplementsLifecycle
