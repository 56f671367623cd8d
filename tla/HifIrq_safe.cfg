SPECIFICATION IrqFairSpec
CONSTANTS
    Cpus = {p1, p2}
    MaxDone = 1
    Budget = 1
    Restart = TRUE
INVARIANTS
    NapiInv
    NoLostInterrupt
PROPERTY RingIsServed
CHECK_DEADLOCK FALSE
