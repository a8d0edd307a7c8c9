SPECIFICATION Spec
CONSTANTS
    sim1 = sim1
    sim2 = sim2
    mqtt = mqtt
    sql = sql
    fill = fill
    gone = gone
    None = None
    Id <- OneId
    Version = {mqtt, sql, gone}
    SqlVersion = {sql}
    FillVersion = {}
    Outdated = {gone}
    Slot <- ThreeSlots
    MaxSimulations = 1
    MaxPending = 2
    FirstStores <- AnythingStored
    LostReplies = FALSE
    MayRestart = TRUE
    LateCalls = TRUE
INVARIANTS
    TypeOK
    StoreAgrees
    ActiveMeansRunning
    PausedMeansReleased
PROPERTIES
    StoredOnlyOnceRunning
CHECK_DEADLOCK FALSE
