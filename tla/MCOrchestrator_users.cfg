SPECIFICATION Spec
CONSTANTS
    p1 = p1
    p2 = p2
    i1 = i1
    Prs = {p1}
    Issues = {}
    Eligible <- Wanted
    MaxConcurrent = 1
    MaxRetries = 2
    Slots = 1
    MaxTabs = 2
    MaxChanges = 1
    MaxQueue = 1
    BusCap = 1
    Ops <- OpsUsers
INVARIANTS TypeOK RetryWoken
PROPERTIES EndNoticed
CHECK_DEADLOCK FALSE
