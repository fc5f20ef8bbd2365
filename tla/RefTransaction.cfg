SPECIFICATION Spec
CONSTANTS
    main = main
    dev = dev
    alias = alias
    c1 = c1
    c2 = c2
    blob = blob
    HEAD = HEAD
    None = None
    Any = Any
    Branches = {main, dev}
    OtherRefs = {alias}
    Oids = {c1, c2, blob}
    Commits = {c1, c2}
    Batches <- MCBatchesWithHead
    SymrefEdits <- MCEdits
    InitialFiles <- MCFiles
    Faults = {"oserror"}
    MaxRounds = 2
INVARIANTS
    RollbackIsExact
    ResolvableAtRest
    LogEndsWithValue
    ReadersSeeOldOrNew
PROPERTIES
    BatchesAreAtomic
CHECK_DEADLOCK FALSE
