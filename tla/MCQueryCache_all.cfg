SPECIFICATION Spec
CONSTANTS
    Clients = {c1, c2}
    Selects = {q1, q2}
    Dmls = {ws}
    CteDmls = {}
    CteReturnings = {ret}
    Scripts = {ws}
    Oversized = {}
    CacheMaxEntries = 2
    TTL = 1
    DirectWrites = TRUE
    MaxWrites = 2
INVARIANTS
    TypeOK
    ListMapAgree
    StaleHasCause
PROPERTY
    EventuallyFresh
