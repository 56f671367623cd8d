\* The removal of one VLAN, and then its registration again, in a chain
SPECIFICATION Spec
CONSTANTS
    Coll = 3
    Size = 5
    Default = 1
    Users = {4, 7}
    Ifs = {0}
    IfsOf <- MCIfsOf
    Keys = {}
    KeyVlan <- MCKeyVlan
    MaxTimeouts = 1
    All = All
    End = End
    Null = Null
    Freed = Freed
    None = None
INVARIANT NoEndlessSearch
CHECK_DEADLOCK FALSE
