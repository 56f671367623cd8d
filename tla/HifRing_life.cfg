SPECIFICATION LifeSpec
CONSTANTS
    b1 = b1
    b2 = b2
    b3 = b3
    b4 = b4
    b5 = b5
    N = 4
    Bufs = {b1, b2, b3, b4}
    NoBuf = NoBuf
    IsRx = FALSE
    Checked = TRUE
PROPERTY NeverReprocessed
PROPERTY RingIsFifo
PROPERTY RingProgress
CHECK_DEADLOCK FALSE
