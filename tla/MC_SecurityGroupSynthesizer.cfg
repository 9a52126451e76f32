CONSTANTS
    c1 = c1
    c2 = c2
    np1 = np1
    None = None
    DefaultSg = DefaultSg
    LbSgId = LbSgId
    Cidrs = {c1, c2}
    NpSgs = {np1}
    SvcPorts <- MCSvcPorts
    Listeners <- MCListeners
    NpRuleSet <- MCNpRuleSet
    SgLists <- MCSgLists
    MaxFaults = 2
    MaxPolicyChanges = 2
SPECIFICATION Spec
INVARIANT TypeOK PassEstablishesIntent
PROPERTY AccessConverges
PROPERTY UpdateNeverReturnsWider
