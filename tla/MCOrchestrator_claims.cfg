SPECIFICATION Spec
CONSTANTS
    p1 = p1
    p2 = p2
    i1 = i1
    Prs = {p1, p2}
    Issues = {i1}
    Eligible <- Wanted
    MaxConcurrent = 1
    MaxRetries = 2
    Slots = 1
    MaxTabs = 2
    MaxChanges = 1
    MaxQueue = 2
    BusCap = 1
    Ops <- OpsClaims
SYMMETRY PrSymmetry
INVARIANTS ClaimsExact CapacityRespected
PROPERTIES LifeSpec
CHECK_DEADLOCK FALSE
