SPECIFICATION FairSpec
CONSTANTS
    j1 = j1
    j2 = j2
    Jobs <- TwoJobs
    PagesOf <- OnePageEach
    Workers = 2
    Budget = 3
    MinCall = 2
    Grace = 1
    Overtime = 2
    NoPage = NoPage
INVARIANT OwnText
INVARIANT PipeQuietBetweenCalls
INVARIANT WarmCallWithinBudget
INVARIANT NoOrphanHelper
INVARIANT ColdAfterWarmFailure
PROPERTY EveryPageRecorded
