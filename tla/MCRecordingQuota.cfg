SPECIFICATION Spec
CONSTANTS
  Capacity = 1
  HighRecords = 3
  LowRecords = 1
  HighBytes = 4
  LowBytes = 2
  Live = Live
  Derived = Derived
  FlushAt = 2
  Levels = {"low", "high"}
  Faults = {"none"}
  Ticks <- Everything
  Requests = {}
  Resims = FALSE
  MaxTick = 2
  MaxInFlight = 1
  MaxRequests = 0
INVARIANTS UnsavedIsKeptAndCounted StorageFindsWhatItNeeds SavedMeansSaved
PROPERTIES SavedIsAPrefix
CHECK_DEADLOCK FALSE
