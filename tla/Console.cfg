SPECIFICATION FairSpec
CONSTANTS
  None = None
  MAX_EVENTS = 2
  MaxPolls = 2
  MaxPublished = 2
  MaxActions = 1
  MaxTroubles = 1
INVARIANTS NeverExpiresMidRequest
PROPERTIES ShowsTheTruth LastEventShown
CHECK_DEADLOCK FALSE
