SPECIFICATION FairSpec
CONSTANTS
    v1 = v1
    v2 = v2
    q1 = q1
    q2 = q2
    Version <- OneVersion
    Query <- TwoQueries
    MaxRows = 6
    SeedRows = 3
    InsertsPerTick = 2
    Filling <- NoneFills
    ChunkSize = 2
    FirstKey = 1
    FirstRows <- AnyRows
    Overlap = TRUE
    Beside <- AfterOthers
    Uncounted = TRUE
    MaxTrouble = 2
INVARIANTS
    OvershootIsBounded
PROPERTIES
    NothingOverwritten
    FillsUp
    StopCompletes
CHECK_DEADLOCK FALSE
