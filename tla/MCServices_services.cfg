SPECIFICATION HostSpec
CONSTANTS
    Parts = {"activity", "prs", "merges", "workflows"}
    Events <- SomeEvents
    MAX_PERSISTED_EVENTS = 2
    BUS_CAPACITY = 2
    TTL = 0
    MaxPosts = 3
    MaxTime = 2
    MaxLosses = 2
    RepoPaths <- TwoRepos
    Numbers = {1}
    Opened <- OneOpen
    MAX_RETRIES = 1
    MaxChanges = 2
    MaxErrors = 2
    MaxRestarts = 1
    Issues <- TwoIssues
    Merges <- OneMerge
    Catalogues <- SomeCatalogues
    Enabled = {}
    Alphabet <- Names
    Repos <- SomePaths
    Flat <- Flattened
    NAME_LENGTH = 8
    Faults = {"git", "link", "context", "skill", "task", "enqueue", "restart", "crash"}
    MaxFaults = 2
    MaxEdits = 1
INVARIANTS AgentsTrue LossBounded NeverToldTwice
PROPERTIES PollerListsConverge MergesTold WorkflowIssueServed
CHECK_DEADLOCK FALSE
