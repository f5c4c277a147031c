SPECIFICATION Spec
CONSTANTS
    k1 = k1
    Processes = {p1, p2}
    Requests = {r1, r2, r3}
    Menus <- AllMenus
    ApiKeys = {k1}
    KeyRow <- Keys
    DefaultPoints = 60
    Scaled <- OnePerTwenty
    MaxMishaps = 1
    NoKey = NoKey
    Nobody = Nobody
SYMMETRY Interchangeable
INVARIANTS
    ServedIsAuthorised
    PublicNeedsNoCredential
    BudgetShared
    OneExecutionPerKey
    NoOrphanLock
CHECK_DEADLOCK FALSE
