SPECIFICATION TsFairSpec
CONSTANTS
    Skbs = {s1, s2}
    Nobody = Nobody
    RefMod = 2
    FifoLen = 1
    MaxTx = 3
    Suspends = 1
INVARIANTS
    SkbsSafe
PROPERTIES
    StampsRight
    WorkedOff
CHECK_DEADLOCK FALSE
