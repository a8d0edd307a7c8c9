SPECIFICATION FairSpec
CONSTANTS
  Instance = {"old", "new"}
  Known <- Builds
  Id = {"a", "b"}
  Fitting = {"a"}
  MaxStarts = 3
  MaxOutages = 1
  MaxCalls = 2
INVARIANTS AppliedInOrder NeverTwice ServesWhatIsStored
PROPERTIES StartedServes SignalledExits
CHECK_DEADLOCK FALSE
