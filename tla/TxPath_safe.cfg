SPECIFICATION FairSpec
CONSTANTS
    Netifs = {n1, n2}
    IhcWorker = IhcWorker
    NoFrame = NoFrame
    D = 4
    MaxBds = 2
    Serials = 1
    Lltx = FALSE
    IhcFrames = 0
    MapFails = {}
    StoreBuffer = FALSE
INVARIANTS
    FreedIsConfirmed
    TableInv
PROPERTY QueueWakes
CHECK_DEADLOCK FALSE
