SPECIFICATION Spec
CONSTANTS
    Clients = {c1, c2}
    Tables = {1, 2}
    Columns = {a, b}
    MaxDdls = 2
    MaxRaw = 1
    Faults = TRUE
SYMMETRY Symmetry
INVARIANTS
    TypeOK
    HashHasCause
    EveryDdlLedgered
PROPERTIES
    DriftHasCause
    LedgerIsAuditLog
