SPECIFICATION Spec
CONSTANTS
    main = main
    a = a
    ab = ab
    o1 = o1
    o2 = o2
    origin = origin
    None = None
    Dir = Dir
    Names = {main, a, ab}
    Oids = {o1, o2}
    Under <- MCUnder
    Starts <- MCStarts
    Allowed = {"commit", "create", "rename", "delete", "create from", "checkout", "detach", "orphan", "move", "copy", "pack"}
    MaxCommands = 3
    MaxMishaps = 1
    MaxSelector = 2
INVARIANTS
    FailureRestores
    SourceSurvives
    HeadKeeps
    LogsTell
CHECK_DEADLOCK FALSE
