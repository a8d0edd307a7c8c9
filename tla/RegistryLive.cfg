SPECIFICATION FairSpec
CONSTANTS
    sim1 = sim1
    sim2 = sim2
    mqtt = mqtt
    sql = sql
    fill = fill
    gone = gone
    None = None
    Id <- OneId
    Version = {mqtt, fill}
    SqlVersion = {fill}
    FillVersion = {fill}
    Outdated = {}
    Slot <- ThreeSlots
    MaxSimulations = 1
    MaxPending = 1
    FirstStores <- AnythingStored
    LostReplies = TRUE
    MayRestart = TRUE
    LateCalls = TRUE
PROPERTIES
    EveryChangeSettles
    RetriedUntilItWorks
CHECK_DEADLOCK FALSE
