SPECIFICATION Spec
CONSTANTS
    j1 = j1
    j2 = j2
    Jobs <- TwoJobs
    Inputs <- Workbooks
    Timeout = 2
    WarmTimeout = 1
    Warm = Warm
    None = None
INVARIANT SheetsAreOwn
