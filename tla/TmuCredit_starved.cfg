SPECIFICATION TmuSpec
CONSTANTS
    QSize = 8
    U8 = 9
    U32 = 18
    Path = 2
    Disturbers = {}
    MaxDisturb = 0
INVARIANT NeverStarved
CHECK_DEADLOCK FALSE
