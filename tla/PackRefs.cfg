SPECIFICATION PackSpec
CONSTANTS
    main = main
    dev = dev
    tag = tag
    alias = alias
    c1 = c1
    c2 = c2
    HEAD = HEAD
    None = None
    Branches = {main, dev}
    OtherRefs = {tag, alias}
    Tags = {tag}
    Oids = {c1, c2}
    Commits = {c1, c2}
    Present = {c1}
    Requests <- MCRequests
    InitialFiles <- MCFiles
    Faults = {"oserror", "crash"}
    MaxRounds = 2
    MaxUpdates = 2
INVARIANTS
    PackingIsInvisible
    OnlyOverwrittenUpdatesAreLost
CHECK_DEADLOCK FALSE
