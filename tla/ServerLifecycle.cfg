SPECIFICATION FairServerSpec
CONSTANTS
    Names = {"auth", "pdf", "url", "none"}
    Rank <- Alphabetical
    Deployments <- AllDeployments
    Busy <- BusyDeployments
    Renderer = "pdf"
    Clients = {c1, c2, c3}
    Connections = {c1, c2, c3}
    Signals = {"SIGINT", "SIGTERM"}
    MaxActive = 1
    MaxQueued = 1
INVARIANTS
    SortedIffPossible
    DependenciesAlive
    PermitsConserved
    AnsweredBeforeTeardown
    BrowserClosedAtExit
PROPERTIES
    RendersEnd
    ShutdownEnds
CHECK_DEADLOCK FALSE
