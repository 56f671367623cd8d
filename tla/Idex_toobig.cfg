SPECIFICATION Spec
CONSTANTS
    c1 = c1
    c2 = c2
    Callers = {c1, c2}
    MaxCalls = 2
    Quota <- MCQuota
    IfLock = IfLock
    GetStats = GetStats
    Ids = {IfLock, GetStats}
    RespLen <- MCRespLen
    RespRoom <- MCShortRoom
    ChanCap = 1
    SeqNums = 2
    FirstNum = 1
INVARIANT TooBigIsENOMEM
CHECK_DEADLOCK FALSE
