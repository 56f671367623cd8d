\* Three VLANs that share a hash slot, one of them with a static entry
SPECIFICATION Spec
CONSTANTS
    Coll = 3
    Size = 5
    Default = 1
    Users = {2, 5, 8}
    Ifs = {0}
    IfsOf <- MCIfsOf
    Keys = {a}
    KeyVlan <- MCKeyVlan
    MaxTimeouts = 1
    All = All
    End = End
    Null = Null
    Freed = Freed
    None = None
INVARIANTS FirmwareFindsDomains TimeoutsContained
PROPERTY CursorsLive
CHECK_DEADLOCK FALSE
