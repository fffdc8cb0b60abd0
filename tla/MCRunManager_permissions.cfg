SPECIFICATION FairSpec
CONSTANTS
    t1 = t1
    t2 = t2
    t3 = t3
    c1 = c1
    c2 = c2
    p1 = p1
    p2 = p2
    Tasks = {t1, t2}
    Perms = {p1, p2}
    Clients = {c1}
    MaxConcurrent = 1
    MaxQueueFailures = 2
    MaxIds = 1
    MaxWork = 1
    PipeCap = 3
    Batches <- NoBatch
    Costs = {FALSE}
    Ops <- OpsPermissions
INVARIANTS NoLostPermission BlockedHasPermission
PROPERTIES PermissionAnswered
CHECK_DEADLOCK FALSE
