SPECIFICATION Spec
CONSTANTS
    Netifs = {n1}
    IhcWorker = IhcWorker
    NoFrame = NoFrame
    D = 4
    MaxBds = 2
    Serials = 1
    Lltx = FALSE
    IhcFrames = 0
    MapFails = {n1}
    StoreBuffer = FALSE
INVARIANT InFlightIsMapped
CHECK_DEADLOCK FALSE
