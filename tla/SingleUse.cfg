\* The same instance, with the description of /auth/refresh as an invariant.
SPECIFICATION Spec
CONSTANTS
    a1 = a1
    a2 = a2
    f1 = f1
    o1 = o1
    tabA = tabA
    Tokens = {t1, t2, t3}
    Families = {g1, g2}
    ApiCalls = {a1, a2}
    FetchCalls = {f1}
    Others = {o1}
    Tabs = {tabA}
    TabOf <- OneTab
    Requests = {a1, a2, f1, tabA, o1}
    NoToken = NoToken
    NoFamily = NoFamily
    NoCall = NoCall
    MaxMishaps = 1
SYMMETRY Symmetry
INVARIANTS
    SingleUse
