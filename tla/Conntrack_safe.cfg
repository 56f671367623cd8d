\* Two connections, room for two entries in the table
SPECIFICATION FairSpec
CONSTANTS
    Entries = {1, 2, 3}
    Tuples = {a, b, r}
    a = a
    b = b
    r = r
    Pairs <- MCPairs
    Singles = {b, r}
    Used = {a}
    Routes = {route}
    Bucket <- MCBucket
    PoolSize = 1
    Default = 1
    Timeouts = {2}
    Inf = 9
    None = None
    End = End
INVARIANTS
    MemoryInv
    StuckNeedsABadMoment
    NoSilentRemoval
    EntriesHaveRoutes
PROPERTIES
    AgedOut
CHECK_DEADLOCK FALSE
