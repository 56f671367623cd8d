SPECIFICATION Spec
CONSTANTS
    Netifs = {n1, n2}
    IhcWorker = IhcWorker
    NoFrame = NoFrame
    D = 4
    MaxBds = 2
    Serials = 1
    Lltx = FALSE
    IhcFrames = 0
    MapFails = {}
    StoreBuffer = FALSE
SYMMETRY MCSymmetry
INVARIANT NoStuckQueue
CHECK_DEADLOCK FALSE
