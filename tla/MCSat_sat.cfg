SPECIFICATION SatSpec
CONSTANTS
    Parts = {"cycle", "records"}
    Libraries <- SomeLibraries
    Filters = {{}}
    Runners <- SomeRunners
    Answers <- SomeAnswers
    Thresholds <- SomeThresholds
    HubAnswers = {"ok", "search_error", "refused", "secret"}
    Histories <- SomeHistories
    MaxCost = 2
    MaxIterations = 2
    MaxSeconds = 2
    MaxRuns = 2
    MaxMishaps = 1
    Workers = {w1, w2}
    IssueNumbers = {1, 2}
    IssueRepos = {"a", "b"}
    Labels = {"app"}
    Results <- SomeResults
    CycleEnds <- SomeEnds
    MaxCalls = 3
INVARIANTS LatestComplete OneIssuePerFingerprint BudgetOvershoot AggregateWithin LabelsRecorded RateWithin
PROPERTIES VerifiedPersonas PipelineEnds EntriesKept
CHECK_DEADLOCK FALSE
