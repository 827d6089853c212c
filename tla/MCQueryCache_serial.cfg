SPECIFICATION Spec
CONSTANTS
    Clients = {c1}
    Selects = {q1, q2, q3}
    Dmls = {w1, w2}
    CteDmls = {}
    CteReturnings = {}
    Scripts = {}
    Oversized = {q3}
    CacheMaxEntries = 2
    TTL = 1
    DirectWrites = FALSE
    MaxWrites = 3
INVARIANT
    CoherentWhenQuiet
PROPERTY
    AnswersAreCurrent
