SPECIFICATION Spec
CONSTANTS
    sim1 = sim1
    sim2 = sim2
    mqtt = mqtt
    sql = sql
    fill = fill
    gone = gone
    None = None
    Id <- OneId
    Version = {mqtt, sql, fill}
    SqlVersion = {sql, fill}
    FillVersion = {fill}
    Outdated = {}
    Slot <- ThreeSlots
    MaxSimulations = 1
    MaxPending = 3
    FirstStores <- NothingStored
    LostReplies = FALSE
    MayRestart = FALSE
    LateCalls = FALSE
INVARIANTS
    NothingUntracked
    ShutdownLeavesNothing
CHECK_DEADLOCK FALSE
