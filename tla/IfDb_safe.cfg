SPECIFICATION FairSpec
CONSTANTS
    Hosts = {h1}
    FciClients = {c1}
    Slaves = {7}
    Threads = {t1}
    SlaveOf <- MCSlaveOf
    Ifaces = {i1, i2}
    U32 = 48
    FirstSeed = 0
    MaxTries = 2
    MaxFaults = 1
    Fci = Fci
    None = None
    EndOfList = EndOfList
    h1 = h1
    h2 = h2
    t1 = t1
    t2 = t2
    c1 = c1
    c2 = c2
    i1 = i1
    i2 = i2
INVARIANTS
    PointersInv
    ListingComplete
PROPERTIES
    Exclusive
    SlaveLockReleased
CHECK_DEADLOCK FALSE
