SPECIFICATION Spec
CONSTANTS
    Netifs = {n1}
    IhcWorker = IhcWorker
    NoFrame = NoFrame
    D = 3
    MaxBds = 1
    Serials = 1
    Lltx = TRUE
    IhcFrames = 3
    MapFails = {n1, IhcWorker}
    StoreBuffer = TRUE
INVARIANT LockReleased
CHECK_DEADLOCK FALSE
