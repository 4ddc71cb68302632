SPECIFICATION MhtSpec
CONSTANTS
    Tokens = {"u/", "v/", "a", "b", "document.html", "c1", "x", "y", "part", "_", "_1", "_2", "_3", "_4"}
    Directories = {"u/", "v/"}
    Unsafe = {" "}
    Locations <- MCLocations
    ContentIds <- MCContentIds
    Payloads = {"x", "y"}
    Size <- MCSize
    MaxParts = 2
    MaxBytes = 3
    MaxWalk = 4
    Numbers <- MCNumbers
INVARIANTS
    LinksResolve
CHECK_DEADLOCK FALSE
