SPECIFICATION Spec
CONSTANTS
    t1 = t1
    t2 = t2
    Tasks = {t1, t2}
    Sizes = {1, 2}
    OtherBytes = 2
    Keep = 1
    MaxKeys = 4
    MaxVersion = 5
    MaxFaults = 1
    MaxRestores = 1
SYMMETRY Requests
INVARIANTS
    TypeOK
    DiskMatchesDatabase
    UsedIsEntrySize
    HistoryTruthful
CHECK_DEADLOCK FALSE
