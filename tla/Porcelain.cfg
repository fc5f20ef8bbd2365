SPECIFICATION Spec
CONSTANTS
    f = f
    g = g
    c0 = c0
    c1 = c1
    c2 = c2
    c3 = c3
    joined = joined
    main = main
    topic = topic
    spare = spare
    None = None
    Gone = Gone
    Marked = Marked
    Paths = {f, g}
    Contents = {c0, c1, c2, c3, joined, Marked}
    Typed = {c1, Gone}
    Branches = {main, topic, spare}
    LineMerge <- MCLineMerge
    Scenarios <- MCScenarios
INVARIANTS
    AbortRestores
    ConclusionsAreWhole
    StashKeepsTheWork
PROPERTIES
    NothingIsForgotten
    CommandsEnd
CHECK_DEADLOCK FALSE
