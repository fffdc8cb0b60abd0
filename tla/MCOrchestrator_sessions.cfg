SPECIFICATION FairSpec
CONSTANTS
    p1 = p1
    p2 = p2
    i1 = i1
    Prs = {p1, p2}
    Issues = {}
    Eligible <- Wanted
    MaxConcurrent = 1
    MaxRetries = 2
    Slots = 2
    MaxTabs = 6
    MaxChanges = 1
    MaxQueue = 2
    BusCap = 2
    Ops <- OpsSessions
INVARIANTS ClosedForgotten ClosedStopped SessionsMatched
PROPERTIES RetryTaken ClaimResolved
CHECK_DEADLOCK FALSE
