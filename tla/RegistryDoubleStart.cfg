SPECIFICATION Spec
CONSTANTS
    sim1 = sim1
    sim2 = sim2
    mqtt = mqtt
    sql = sql
    fill = fill
    gone = gone
    None = None
    Id <- OneId
    Version = {mqtt}
    SqlVersion = {}
    FillVersion = {}
    Outdated = {}
    Slot <- ThreeSlots
    MaxSimulations = 1
    MaxPending = 2
    FirstStores <- AnythingStored
    LostReplies = FALSE
    MayRestart = TRUE
    LateCalls = FALSE
INVARIANTS
    NothingUntracked
CHECK_DEADLOCK FALSE
