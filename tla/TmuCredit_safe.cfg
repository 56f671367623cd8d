SPECIFICATION TmuFairSpec
CONSTANTS
    QSize = 4
    U8 = 5
    U32 = 10
    Path = 1
    Disturbers = {"link", "drop", "external"}
    MaxDisturb = 1
INVARIANTS
    OvercommitBounded
    CreditInv
PROPERTY CreditComesBack
CHECK_DEADLOCK FALSE
