\* Re-registering a connection: the memory of the new entries is used after it
\* was freed
SPECIFICATION Spec
CONSTANTS
    Entries = {1, 2, 3, 4}
    Tuples = {a, b, r}
    a = a
    b = b
    r = r
    Pairs <- MCPairs
    Singles = {}
    Used = {a}
    Routes = {route}
    Bucket <- MCBucket
    PoolSize = 3
    Default = 2
    Timeouts = {2}
    Inf = 9
    None = None
    End = End
INVARIANTS
    NoUseAfterFree
