CONSTANTS
    l1 = l1
    l2 = l2
    p1 = p1
    Keys = {l1, l2, p1}
    Unique = {l1, l2, p1}
    Rejected = {l2}
    Listeners = {l1, l2}
    Ids <- MCIds
    MaxFaults = 2
    SgQuota = 2
    ErrorStatus = TRUE
    ExternalDeletes = FALSE
    VipPortLate = FALSE
    Budget = 3
    SgModeCreate = TRUE

SPECIFICATION RSpec
PROPERTY Converges
\* A completed pass leaves nothing to do until the next event.
CHECK_DEADLOCK FALSE
