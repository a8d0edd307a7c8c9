SPECIFICATION Spec
CONSTANTS
    v1 = v1
    v2 = v2
    q1 = q1
    q2 = q2
    Version <- TwoVersions
    Query <- OneQuery
    MaxRows = 4
    SeedRows = 3
    InsertsPerTick = 2
    Filling <- SecondFills
    ChunkSize = 2
    FirstKey = 1
    FirstRows <- AnyRows
    Overlap = FALSE
    Beside <- AfterOthers
    Uncounted = FALSE
    MaxTrouble = 3
INVARIANTS
    UpToMaxRows
    StatusIsTrue
PROPERTIES
    SeedsSuffice
CHECK_DEADLOCK FALSE
