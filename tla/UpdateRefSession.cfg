SPECIFICATION Spec
CONSTANTS
    main = main
    alias = alias
    other = other
    c1 = c1
    c2 = c2
    blob = blob
    HEAD = HEAD
    None = None
    Any = Any
    Branches = {main}
    OtherRefs = {alias, other}
    Oids = {c1, c2, blob}
    Commits = {c1, c2}
    Commands <- MCCommands
    Partials = {TRUE, FALSE}
    Derefs = {TRUE, FALSE}
    Others <- MCOthers
    InitialImages <- MCImages
    MaxCommands = 4
    MaxOthers = 1
INVARIANTS
    CheckedTransactionsCommit
    TransactionOwnsItsCommands
PROPERTIES
    CommitsAreRevalidated
CHECK_DEADLOCK FALSE
