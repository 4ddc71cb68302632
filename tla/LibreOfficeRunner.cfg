SPECIFICATION FairSpec
CONSTANTS
    j1 = j1
    j2 = j2
    Jobs <- OneJob
    Inputs <- AllInputs
    Timeout = 2
    WarmTimeout = 1
    Warm = Warm
    None = None
INVARIANT PdfOfWinner
INVARIANT UnpackedNeverRaw
INVARIANT FallbackInTime
PROPERTY EveryConversionEnds
