SPECIFICATION Spec
CONSTANTS
    RawLabels = {"docx", "pptx", "xls", "txt", "odt", "zip", "xml", "unknown", "pdf", "empty"}
    Extensions = {"", "docm", "xls", "fodg", "html", "pdf"}
    Silent = Silent
    Opinions = {"docx", "ppt", "rtf", Silent}
    Bodies = {"flat", "word", "slides", "sheets", "mixed", "bomb", "drawing", "zip", "entities"}
    Tokens = {"u/", "v/", "a", "b", "document.html", "c1", "x", "y", "part", "_", "_1", "_2", "_3", "_4"}
    Directories = {"u/", "v/"}
    Unsafe = {" "}
    Locations <- MCLocations
    ContentIds <- MCContentIds
    Payloads = {"x", "y"}
    Size <- MCSize
    MaxParts = 2
    MaxBytes = 3
    MaxWalk = 4
    Numbers <- MCNumbers
    Tags = {"table", "td", "p", "b"}
    Styles <- MCStyles
    Omissible = {}
    MayHold <- MCMayHold
    MaxDepth = 3
    ShortArchive = 1
INVARIANTS
    PackagesPassTheGate
    ContentOverName
    ResourcesSurvive
    PlainLinksResolve
    TextKeepsItsStyle
    StructureIsKept
CHECK_DEADLOCK FALSE
