CONSTANTS
    l1 = l1
    p1 = p1
    Keys = {l1, p1}
    Unique = {l1, p1}
    Rejected = {}
    Listeners = {l1}
    Ids <- MCIds
    MaxFaults = 2
    SgQuota = 2
    ErrorStatus = TRUE
    ExternalDeletes = TRUE
    VipPortLate = TRUE
    Budget = 3
    SgModeCreate = TRUE

SPECIFICATION Spec
INVARIANT TypeOK
PROPERTY EnsureReturnsLiveResource
