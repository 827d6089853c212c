SPECIFICATION SavedSpec
CONSTANTS
    Clients = {c1, c2, c3}
    Titles = {t1, t2, t3, t4, t5}
    Limit = 2

INVARIANTS
    SavedTypeOK
    ExcessBounded
