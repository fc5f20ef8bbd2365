SPECIFICATION Spec
CONSTANTS
    x = x
    y = y
    z = z
    None = None
    Settings <- MCSettings
    Filters <- MCFilters
INVARIANTS
    BasesAreBest
    StreamsArePaged
    ChildrenAgree
    BoundaryCloses
    ObjectsSuffice
    WalksAgree
    NamesResolve
CHECK_DEADLOCK FALSE
