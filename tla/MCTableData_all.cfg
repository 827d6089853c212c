SPECIFICATION Spec
CONSTANTS
    Keys = {k1, k2}
    Vals = {v1, v2}
    Bad = b
    MaxRow = 2
    k1 = k1
    k2 = k2
    v1 = v1
    v2 = v2
    b = b
    Requests = {r1, r2}
    NoOne = noOne
    Batches <- MCBatches
    Bodies <- MCBodies
    Filters <- MCFilters
    MaxPage = 2
    MaxPageSize = 2
    DefaultPageSize = 1
INVARIANTS
    TypeOK
    NamedRecord
    PageIsHonest
    ExportIsSnapshot
PROPERTIES
    AnsweredBesidesExports
    IsAtomicTable

