SPECIFICATION Spec
CONSTANTS
    t1 = t1
    t2 = t2
    t3 = t3
    c1 = c1
    c2 = c2
    p1 = p1
    p2 = p2
    Tasks = {t1, t2, t3}
    Perms = {}
    Clients = {c1}
    MaxConcurrent = 2
    MaxQueueFailures = 2
    MaxIds = 3
    MaxWork = 3
    PipeCap = 1
    Batches <- NoBatch
    Costs = {FALSE}
    Ops <- OpsPool
SYMMETRY ThreeTasks
INVARIANTS EndedOnDisk
PROPERTIES PoolSpec
CHECK_DEADLOCK FALSE
