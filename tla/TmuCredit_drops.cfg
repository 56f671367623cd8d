SPECIFICATION TmuSpec
CONSTANTS
    QSize = 8
    U8 = 16
    U32 = 32
    Path = 2
    Disturbers = {"drop"}
    MaxDisturb = 2
INVARIANT NeverStarved
CHECK_DEADLOCK FALSE
