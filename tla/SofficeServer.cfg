SPECIFICATION FairSpec
CONSTANTS
    Engines = {e1, e2}
    Procs = {p1, p2, p3}
    ReadyTimeout = 2
    Grace = 1
    Rootfs = Rootfs
    NoProc = NoProc
INVARIANTS
    RunningServerIsHeld
    StopsOnlyItsOwn
PROPERTIES
    StartEnds
CHECK_DEADLOCK FALSE
