SPECIFICATION Spec
CONSTANTS
    t1 = t1
    t2 = t2
    t3 = t3
    c1 = c1
    c2 = c2
    p1 = p1
    p2 = p2
    Tasks = {t1, t2}
    Perms = {}
    Clients = {c1}
    MaxConcurrent = 1
    MaxQueueFailures = 2
    MaxIds = 6
    MaxWork = 3
    PipeCap = 1
    Batches <- NoBatch
    Costs = {FALSE}
    Ops <- OpsQueue
SYMMETRY TaskSymmetry
INVARIANTS TypeOK CapacityRespected
PROPERTIES QueuedRunKept
CHECK_DEADLOCK FALSE
