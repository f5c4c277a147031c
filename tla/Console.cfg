SPECIFICATION FairSpec
CONSTANTS
    People = {me, you}
    Me = me
    Nobody = Nobody
    Codes = {k1}
    QrIds = {q1}
    MaxCalls = 4
    MaxAttempts = 2
    MaxMishaps = 1
    Endpoints = {x1, x2}
    Events = {e1}
    Topics <- AllTopics
    Visited = {"qr", "urls", "pdf", "dev-tools", "webhooks", "api-keys", "login"}
    LinkTraffic <- Elsewhere
    QrTraffic = {"qr"}
    HookTraffic = {"pdf"}
    PanelCalls = 3
    Registered = {x1}
INVARIANTS
    LinksKept
    FanOutExact
    ShownIsReal
PROPERTIES
    LogCatchesUp
    PanelsRecover
CHECK_DEADLOCK FALSE
