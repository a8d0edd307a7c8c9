SPECIFICATION Spec
CONSTANTS
    sim1 = sim1
    sim2 = sim2
    mqtt = mqtt
    sql = sql
    fill = fill
    gone = gone
    None = None
    Id <- TwoIds
    Version = {mqtt, gone}
    SqlVersion = {}
    FillVersion = {}
    Outdated = {gone}
    Slot <- ThreeSlots
    MaxSimulations = 1
    MaxPending = 1
    FirstStores <- UnderTheCap
    LostReplies = FALSE
    MayRestart = TRUE
    LateCalls = TRUE
INVARIANTS
    CapHolds
PROPERTIES
    KeepsPromise
CHECK_DEADLOCK FALSE
