SPECIFICATION FairSpec
CONSTANTS
    Threads = {t1, t2}
    Backends = {"container", "bwrap", "nsjail"}
    Pages = 3
INVARIANTS
    KilledIsGone
    DeadlineIsCleanSkip
PROPERTIES
    EveryScanEnds
CHECK_DEADLOCK FALSE
