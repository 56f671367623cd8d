SPECIFICATION Spec
CONSTANTS
    c1 = c1
    c2 = c2
    Callers = {c1, c2}
    MaxCalls = 2
    Quota <- MCQuota
    IfLock = IfLock
    GetStats = GetStats
    Ids = {IfLock, GetStats}
    RespLen <- MCRespLen
    RespRoom <- MCRespLen
    ChanCap = 2
    SeqNums = 8
    FirstNum = 1
INVARIANT UniqueSeqNum
CHECK_DEADLOCK FALSE
