SPECIFICATION FairServeSpec
CONSTANTS
    Keys = {deu, eng, fra, jpn}
    MaxCachedApis = 2
    PipeSize = 1
    RequestSize = 3
    MaxCalls = 5
    NoKey = NoKey
INVARIANTS
    LeastRecentlyUsed
    ModelsAreBounded
PROPERTIES
    CallEndsUnlessStalled
CHECK_DEADLOCK FALSE
