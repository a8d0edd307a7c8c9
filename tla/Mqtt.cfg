SPECIFICATION FairSpec
CONSTANTS
  None = None
  Version = {1, 2}
  MaxInFlight = 2
  MaxStarts = 4
  MaxTroubles = 3
PROPERTIES OutageIsShown RecoversByItself KeepsTheSession
CHECK_DEADLOCK FALSE
