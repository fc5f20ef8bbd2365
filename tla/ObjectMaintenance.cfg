SPECIFICATION Spec
CONSTANTS
    q = q
    c = c
    x = x
    y = y
    main = main
    side = side
    index = index
    NoMidx = NoMidx
    Objects <- MCObjects
    Links <- MCLinks
    Refs = {main, side, index}
    Logged = {main, side}
    Nameable <- MCNameable
    InitialStates <- MCInitialStates
    MaxRuns = 2
    MaxSteps = 2
    MaxTimes = 1
INVARIANTS
    ProtectedStaysReadable
    MappedCopiesExist
PROPERTIES
    OnlyPruneLosesObjects
    OnlyExpiryDropsRecords
CHECK_DEADLOCK FALSE
