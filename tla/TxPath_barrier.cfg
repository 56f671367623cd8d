SPECIFICATION Spec
CONSTANTS
    Netifs = {n1}
    IhcWorker = IhcWorker
    NoFrame = NoFrame
    D = 4
    MaxBds = 2
    Serials = 1
    Lltx = FALSE
    IhcFrames = 0
    MapFails = {}
    StoreBuffer = TRUE
INVARIANT NoStuckQueue
CHECK_DEADLOCK FALSE
