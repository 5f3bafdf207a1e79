SPECIFICATION Spec
CONSTANTS
    Own = {"d1", "d2"}
    Foreign = {"f"}
    Steps = 3
    ChanSize = 2
    MaxPods = 3
    MaxClaims = 2
    MaxForeign = 2
    MaxFaults = 1
INVARIANTS
    TypeOK
    StatusOfThisClaim
    StatusComplete
PROPERTIES
    ForeignEntriesKept
    NetworkDataInOrder
    PodsStart
CHECK_DEADLOCK FALSE
