SPECIFICATION AttrSpec
CONSTANTS
    Tags = {"table", "td", "p"}
    Styles <- MCStyles
    Omissible = {"p"}
    MayHold <- MCMayHold
    MaxDepth = 3
INVARIANTS
    StyleComesFromAncestors
CHECK_DEADLOCK FALSE
