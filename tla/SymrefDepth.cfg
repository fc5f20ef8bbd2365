SPECIFICATION Spec
CONSTANTS
    HEAD = 0
    None = 200
    Any = 201
    Branches <- DepthBranches
    OtherRefs <- DepthOthers
    Oids <- DepthOids
    Commits <- DepthOids
    Batches <- DepthBatches
    SymrefEdits <- DepthEdits
    InitialFiles <- DepthFiles
    Faults = {"oserror", "crash"}
    MaxRounds = 2
INVARIANTS
    LateRefusalsAreContained
CHECK_DEADLOCK FALSE
