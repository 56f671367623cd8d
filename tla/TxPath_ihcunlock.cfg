SPECIFICATION Spec
CONSTANTS
    Netifs = {n1}
    IhcWorker = IhcWorker
    NoFrame = NoFrame
    D = 4
    MaxBds = 2
    Serials = 1
    Lltx = FALSE
    IhcFrames = 3
    MapFails = {IhcWorker}
    StoreBuffer = FALSE
INVARIANT OneProducer
CHECK_DEADLOCK FALSE
