SPECIFICATION Spec
CONSTANTS
    Procs = {p, q}
    Branches = {main, dev}
    Tags = {v1}
    Remotes = {origin, up}
    None = None
    p = p
    q = q
    main = main
    dev = dev
    v1 = v1
    origin = origin
    up = up
    Foreign = {"plain", "signed", "tag"}
    Scenarios <- MCScenarios
SYMMETRY Symmetry
INVARIANTS
    HavesAreClosed
    NamesAreStored
    TrackingWasThere
PROPERTIES
    UnforcedPushKeepsHistory
CHECK_DEADLOCK FALSE
