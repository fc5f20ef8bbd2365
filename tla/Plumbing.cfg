SPECIFICATION Spec
CHECK_DEADLOCK FALSE
CONSTANTS
    d = d
    dx = dx
    x = x
    Gone = Gone
    Directory = Directory
    None = None
    Paths <- MCPaths
    Order <- MCOrder
    Beneath <- MCBeneath
    Join <- MCJoin
    Binary <- MCBinary
    Contents <- MCContents
    Typed <- MCTyped
    Given <- MCGiven
    Scenarios <- MCScenarios
INVARIANTS
    ViewsAgree
    MergeWaysAgree
    BothSidesSurvive
PROPERTIES
    ForcedCheckout
    UpdateLosesNoWork
