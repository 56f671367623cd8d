SPECIFICATION IrqSpec
CONSTANTS
    Cpus = {p1}
    MaxDone = 1
    Budget = 2
    Restart = TRUE
INVARIANT NothingDropped
CHECK_DEADLOCK FALSE
