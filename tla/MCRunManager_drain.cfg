SPECIFICATION FairEndingSpec
CONSTANTS
    t1 = t1
    t2 = t2
    t3 = t3
    c1 = c1
    c2 = c2
    p1 = p1
    p2 = p2
    Tasks = {t1, t2}
    Perms = {}
    Clients = {c1}
    MaxConcurrent = 1
    MaxQueueFailures = 2
    MaxIds = 6
    MaxWork = 3
    PipeCap = 1
    Batches <- OneBatch
    Costs = {FALSE}
    Ops <- OpsDrain
PROPERTIES QueueDrains SlotReclaimed
CHECK_DEADLOCK FALSE
