SPECIFICATION Spec
CONSTANTS
    HistoryCap = 1
    ChanCap = 1
    MaxTries = 2
    MaxQueries = 2
    MaxTime = 1
INVARIANTS
    TypeOK
    OneCopy
    CapRespected
PROPERTIES
    PinnedStay
    NewestStay
    HandledBesidesExports
    WorkerRests
